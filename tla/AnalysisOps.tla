---------------------------- MODULE AnalysisOps -----------------------------
(***************************************************************************)
(* The reductions of stdf-analytics: yields of attempts, the same by place *)
(* (site, lot or wafer), and the impact of retests, over the attempts of   *)
(* one source, within a scope and without excluded attempts; and the       *)
(* checks that a request passes before it is run.                          *)
(*                                                                         *)
(* An attempt keeps what the reductions branch on: flags of a PRR are the  *)
(* verdict they stand for, and a missing latest flag is "unresolved".      *)
(* Attempts are numbered from 1 in the order of the rows.                  *)
(***************************************************************************)
EXTENDS Naturals, Sequences, SequencesExt, FiniteSetsExt

CONSTANTS
  Device,     \* ECIDs
  NoDevice,   \* of an attempt whose identity is not resolved
  TestSite    \* head and site of an attempt

ASSUME DeviceAssumption == NoDevice \notin Device

Verdict == {"pass", "fail", "unknown"}
AttemptRecord ==
  [run : Nat, place : TestSite, verdict : Verdict, ecid : Device \cup {NoDevice},
   latest : {"true", "false", "unresolved"}]

Count == {"scoped", "eligible", "excluded", "pass", "fail", "unknown", "unresolved"}
ZeroCounts == [c \in Count |-> 0]
MergeCounts(a, b) == [c \in Count |-> a[c] + b[c]]

\* Mutant: an excluded attempt without identity still counts as unresolved.
DeltaUnresolved(row, excluded) ==
  [c \in Count |->
     CASE c = "scoped" -> 1
       [] c = "excluded" -> IF excluded THEN 1 ELSE 0
       [] c = "eligible" -> IF excluded THEN 0 ELSE 1
       [] c = "unresolved" -> IF row.ecid = NoDevice THEN 1 ELSE 0
       [] OTHER -> IF ~excluded /\ row.verdict = c THEN 1 ELSE 0]

\* What one attempt adds: an excluded one is in no eligible count.
Delta(row, excluded) ==
  [c \in Count |->
     CASE c = "scoped" -> 1
       [] c = "excluded" -> IF excluded THEN 1 ELSE 0
       [] c = "eligible" -> IF excluded THEN 0 ELSE 1
       [] c = "unresolved" -> IF ~excluded /\ row.ecid = NoDevice THEN 1 ELSE 0
       [] OTHER -> IF ~excluded /\ row.verdict = c THEN 1 ELSE 0]

(***************************************************************************)
(* Requests.  population is "all_attempts" or "latest_device"; a scope set *)
(* is empty when the request leaves it out; runs and excluded attempts are *)
(* named with their source.                                                *)
(***************************************************************************)
InPopulation(row, population) == population = "latest_device" => row.latest = "true"
InScope(row, source, scope) ==
  /\ scope.places # {} => row.place \in scope.places
  /\ scope.runs # {} => <<source, row.run>> \in scope.runs
Excluded(request, source, attempt) == <<source, attempt>> \in request.exclude

\* Only runs and attempts that the selected evidence holds may be named.
CompileRequest(request, runs, attempts) ==
  /\ \A named \in request.scope.runs : named[1] \in DOMAIN runs /\ named[2] \in runs[named[1]]
  /\ \A named \in request.exclude : named[1] \in DOMAIN attempts /\ named[2] \in 1 .. attempts[named[1]]

Scoped(rows, source, request) ==
  {i \in DOMAIN rows :
     InPopulation(rows[i], request.population) /\ InScope(rows[i], source, request.scope)}

\* The reductions take one row after the other: acc[n] is what the first n rows give.
accumulate_source(rows, source, request) ==
  LET acc[n \in 0 .. Len(rows)] ==
        IF n = 0 THEN ZeroCounts
        ELSE IF n \in Scoped(rows, source, request)
        THEN MergeCounts(acc[n - 1], Delta(rows[n], Excluded(request, source, n)))
        ELSE acc[n - 1]
  IN acc[Len(rows)]

CountAt(groups, key) == IF key \in DOMAIN groups THEN groups[key] ELSE ZeroCounts
merge_group_maps(into, from) ==
  [k \in DOMAIN into \cup DOMAIN from |-> MergeCounts(CountAt(into, k), CountAt(from, k))]

\* Each row is reduced to a map of one group and merged into the groups so far.
accumulate_groups(rows, source, request) ==
  LET acc[n \in 0 .. Len(rows)] ==
        IF n = 0 THEN [k \in {} |-> ZeroCounts]
        ELSE IF n \in Scoped(rows, source, request)
        THEN merge_group_maps(acc[n - 1], [k \in {rows[n].place} |->
                                             Delta(rows[n], Excluded(request, source, n))])
        ELSE acc[n - 1]
  IN acc[Len(rows)]

(***************************************************************************)
(* Retest impact: the history of each device in the order of its attempts. *)
(* first_ and latest_ count devices by the verdict at the ends of their    *)
(* history.                                                                *)
(***************************************************************************)
RetestCount ==
  {"unresolved", "devices", "retested", "extra", "changed", "first_fail", "recovered",
   "first_pass", "degraded", "latest_pass", "latest_fail"}

\* An excluded attempt leaves the population altogether.
CollectRetest(acc, row, i, source, request) ==
  IF ~InScope(row, source, request.scope) \/ Excluded(request, source, i) THEN acc
  ELSE IF row.ecid = NoDevice THEN [acc EXCEPT !.unresolved = @ + 1]
  ELSE [acc EXCEPT
         !.selected = IF row.latest = "true" THEN @ \cup {row.ecid} ELSE @,
         !.history = [d \in DOMAIN @ \cup {row.ecid} |->
                        IF d # row.ecid THEN @[d]
                        ELSE IF d \in DOMAIN @ THEN Append(@[d], row.verdict) ELSE <<row.verdict>>]]

DeviceHistories(rows, source, request) ==
  LET acc[n \in 0 .. Len(rows)] ==
        IF n = 0 THEN [unresolved |-> 0, history |-> [d \in {} |-> <<>>], selected |-> {}]
        ELSE CollectRetest(acc[n - 1], rows[n], n, source, request)
  IN acc[Len(rows)]

accumulate_retest(rows, source, request) ==
  LET scan == DeviceHistories(rows, source, request)
      history == scan.history
      kept == {d \in DOMAIN history : request.population = "latest_device" => d \in scan.selected}
      saw(d, verdict) == \E i \in DOMAIN history[d] : history[d][i] = verdict
      among(P(_)) == Cardinality({d \in kept : P(d)})
  IN [c \in RetestCount |->
        CASE c = "unresolved" -> scan.unresolved
          [] c = "devices" -> Cardinality(kept)
          [] c = "retested" -> among(LAMBDA d : Len(history[d]) > 1)
          [] c = "extra" -> SumFunction([d \in kept |-> Len(history[d]) - 1])
          [] c = "changed" -> among(LAMBDA d : saw(d, "pass") /\ saw(d, "fail"))
          [] c = "first_fail" -> among(LAMBDA d : Head(history[d]) = "fail")
          [] c = "recovered" -> among(LAMBDA d : Head(history[d]) = "fail" /\ Last(history[d]) = "pass")
          [] c = "first_pass" -> among(LAMBDA d : Head(history[d]) = "pass")
          [] c = "degraded" -> among(LAMBDA d : Head(history[d]) = "pass" /\ Last(history[d]) = "fail")
          [] c = "latest_pass" -> among(LAMBDA d : Last(history[d]) = "pass")
          [] c = "latest_fail" -> among(LAMBDA d : Last(history[d]) = "fail")]

\* The result of a request over one source, by operation.
Reduce(rows, source, request) ==
  CASE request.op = "yield" -> accumulate_source(rows, source, request)
    [] request.op = "groups" -> accumulate_groups(rows, source, request)
    [] request.op = "retest" -> accumulate_retest(rows, source, request)

\* Sources are reduced apart and added: a retest does not join devices of two sources.
AddResults(op, a, b) ==
  IF op = "groups" THEN merge_group_maps(a, b) ELSE [c \in DOMAIN a |-> a[c] + b[c]]

ZeroResult(op) ==
  CASE op = "yield" -> ZeroCounts
    [] op = "groups" -> [k \in {} |-> ZeroCounts]
    [] op = "retest" -> [c \in RetestCount |-> 0]
=============================================================================
