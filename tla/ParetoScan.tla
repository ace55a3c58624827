----------------------------- MODULE ParetoScan -----------------------------
(***************************************************************************)
(* The latest-device Pareto report's pass over one file (latest_pareto.rs, *)
(* scan): the same idea of attempts and wafer slots as the viewer's first  *)
(* pass, written a second time, with attempts numbered where they close    *)
(* and a budget for the evidence it keeps.                                 *)
(***************************************************************************)
EXTENDS StdfStream

CONSTANTS
  RecordCost, TestCost, AttemptCost,   \* what Budget.charge is asked for each
  EvidenceLimit                        \* Budget.limit

ASSUME CostAssumption == {RecordCost, TestCost, AttemptCost, EvidenceLimit} \subseteq Nat

VARIABLES
  paretoStatus,
  paretoUsed,           \* Budget.used
  paretoRead,           \* history: records read, what `offset` stands for
  paretoRun,
  paretoGroups, paretoSlots,
  paretoActive,
  paretoWafers,
  paretoAttempts        \* closed attempts, in order of their PRR

paretoVars == <<paretoStatus, paretoUsed, paretoRead, paretoRun, paretoGroups, paretoSlots,
                paretoActive, paretoWafers, paretoAttempts>>

Blank(status) ==
  /\ paretoStatus' = status
  /\ paretoUsed' = 0 /\ paretoRead' = 0 /\ paretoRun' = 0
  /\ paretoGroups' = EmptyMap /\ paretoSlots' = EmptyMap /\ paretoActive' = EmptyMap
  /\ paretoWafers' = <<>> /\ paretoAttempts' = <<>>

ParetoInit ==
  /\ paretoStatus = "reading"
  /\ paretoUsed = 0 /\ paretoRead = 0 /\ paretoRun = 0
  /\ paretoGroups = EmptyMap /\ paretoSlots = EmptyMap /\ paretoActive = EmptyMap
  /\ paretoWafers = <<>> /\ paretoAttempts = <<>>

\* Any error ends the command without a report.
ParetoFail == Blank("failed")

Cost(r) ==
  RecordCost + (IF r.kind = "FTR" THEN 2 * TestCost
                ELSE IF r.kind \in TestKind THEN TestCost
                ELSE IF r.kind = "PRR" THEN AttemptCost ELSE 0)

Refuses(r) ==
  \/ r.kind = "Malformed"
  \/ r.kind \in RunKind /\ DOMAIN paretoActive # {}
  \/ r.kind = "PIR" /\ At(r) \in DOMAIN paretoActive
  \/ r.kind = "MPR" /\ r.declared # r.carried
  \/ paretoUsed + Cost(r) > EvidenceLimit

ParetoMir(r) ==
  /\ r.kind = "MIR"
  /\ paretoRun' = paretoRun + 1
  /\ paretoSlots' = EmptyMap
  /\ paretoGroups' = EmptyMap
  /\ UNCHANGED <<paretoActive, paretoWafers, paretoAttempts>>

ParetoMrr(r) ==
  /\ r.kind = "MRR"
  /\ UNCHANGED <<paretoRun, paretoGroups, paretoSlots, paretoActive, paretoWafers,
                 paretoAttempts>>

ParetoSdr(r) ==
  /\ r.kind = "SDR"
  /\ paretoGroups' = PutAll(paretoGroups, {r.head} \X r.sites, r.group)
  /\ UNCHANGED <<paretoRun, paretoSlots, paretoActive, paretoWafers, paretoAttempts>>

ParetoWir(r) ==
  /\ r.kind = "WIR"
  /\ paretoWafers' = Append(paretoWafers, r.wafer)
  /\ paretoSlots' = Put(paretoSlots, GroupOf(r), Len(paretoWafers) + 1)
  /\ UNCHANGED <<paretoRun, paretoGroups, paretoActive, paretoAttempts>>

\* The slot of the record's group, or else of the whole head, is closed and named.
ParetoWrr(r) ==
  LET key == IF GroupOf(r) \in DOMAIN paretoSlots THEN GroupOf(r) ELSE <<r.head, AllSites>>
  IN /\ r.kind = "WRR"
     /\ paretoSlots' = Without(paretoSlots, key)
     /\ paretoWafers' = IF key \in DOMAIN paretoSlots /\ r.wafer # NoWafer
                        THEN [paretoWafers EXCEPT ![paretoSlots[key]] = r.wafer]
                        ELSE paretoWafers
     /\ UNCHANGED <<paretoRun, paretoGroups, paretoActive, paretoAttempts>>

selected_slot(open, pos) == WaferAt(paretoGroups, open, pos, 0)

Nameless(pos) ==
  /\ selected_slot(paretoSlots, pos) = 0
  /\ pos \in DOMAIN paretoGroups \/ OpenOn(paretoSlots, pos[1]) = {}

\* The first record of a position opens an attempt, its PRR closes it.
ParetoSide(r) ==
  LET pos == At(r)
      open == IF Nameless(pos)
              THEN Put(paretoSlots, <<pos[1], Get(paretoGroups, pos, AllSites)>>,
                       Len(paretoWafers) + 1)
              ELSE paretoSlots
      part == Get(paretoActive, pos, [run |-> paretoRun, slot |-> selected_slot(open, pos)])
  IN /\ r.kind \in PartKind \cup TestKind
     /\ paretoSlots' = open
     /\ paretoWafers' = IF Nameless(pos) THEN Append(paretoWafers, NoWafer) ELSE paretoWafers
     /\ \/ /\ r.kind = "PRR"
           /\ paretoActive' = Without(paretoActive, pos)
           /\ paretoAttempts' = Append(paretoAttempts, [run |-> part.run, slot |-> part.slot,
                                                        record |-> paretoRead + 1])
        \/ /\ r.kind # "PRR"
           /\ paretoActive' = Put(paretoActive, pos, part)
           /\ UNCHANGED paretoAttempts
     /\ UNCHANGED <<paretoRun, paretoGroups>>

ParetoStopped == paretoStatus # "reading" /\ UNCHANGED paretoVars

ParetoRead(r) ==
  \/ ParetoStopped
  \/ paretoStatus = "reading" /\ Refuses(r) /\ ParetoFail
  \/ /\ paretoStatus = "reading" /\ ~Refuses(r)
     /\ paretoUsed' = paretoUsed + Cost(r)
     /\ paretoRead' = paretoRead + 1
     /\ \/ ParetoMir(r) \/ ParetoMrr(r) \/ ParetoSdr(r) \/ ParetoWir(r) \/ ParetoWrr(r)
        \/ ParetoSide(r)
     /\ UNCHANGED paretoStatus

ParetoEnd ==
  \/ ParetoStopped
  \/ paretoStatus = "reading" /\ DOMAIN paretoActive # {} /\ ParetoFail
  \/ /\ paretoStatus = "reading" /\ DOMAIN paretoActive = {}
     /\ paretoStatus' = "finished"
     /\ UNCHANGED <<paretoUsed, paretoRead, paretoRun, paretoGroups, paretoSlots,
                    paretoActive, paretoWafers, paretoAttempts>>

ParetoCut ==
  \/ ParetoStopped
  \/ paretoStatus = "reading" /\ ParetoFail

ParetoNext == (\E r \in Record : ParetoRead(r)) \/ ParetoEnd \/ ParetoCut

ParetoSpec == ParetoInit /\ [][ParetoNext]_paretoVars
=============================================================================
