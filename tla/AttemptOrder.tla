---------------------------- MODULE AttemptOrder ----------------------------
(***************************************************************************)
(* Which attempt of a device is its latest: the rule of the viewer         *)
(* (viewer/ingest.rs, build_attempts), of the Pareto report                *)
(* (latest_pareto.rs, select_latest) and of traceability                   *)
(* (traceability/analysis.rs, cell), as functions of the attempts of one   *)
(* device.                                                                 *)
(*                                                                         *)
(* An attempt is a record [id, source, run, start, finish, sequence]:      *)
(* start and finish are those of its run, NoTime where the file has none;  *)
(* sequence is the order of the PRRs of a source, id that of the records   *)
(* that opened the attempts.  An Option compares as the code's does: None  *)
(* before every Some.                                                      *)
(***************************************************************************)
EXTENDS Naturals, Sequences, FiniteSets, SequencesExt

NoTime == 0
NoAttempt == 0

Sources(attempts) == {attempts[i].source : i \in DOMAIN attempts}

-----------------------------------------------------------------------------
(* The viewer: one pass over the attempts of one file, in order of id.     *)

NoSelection(run0) ==
  [first |-> <<>>, last |-> <<>>, run0 |-> run0, multirun |-> FALSE, missing |-> FALSE,
   tf |-> FALSE, tl |-> FALSE]

TakeFirst(s, row) ==
  LET f == s.first[1]
  IN CASE s.first = <<>> \/ row.start < f.start -> [s EXCEPT !.first = <<row>>, !.tf = FALSE]
       [] row.start = f.start /\ row.run # f.run -> [s EXCEPT !.tf = TRUE]
       [] row.start = f.start /\ row.run = f.run /\ row.sequence < f.sequence ->
            [s EXCEPT !.first = <<row>>]
       [] OTHER -> s

\* Mutant: a later start does not settle an earlier tie.
TakeLastKeepTie(s, row) ==
  LET l == s.last[1]
  IN CASE s.last = <<>> \/ row.start > l.start -> [s EXCEPT !.last = <<row>>]
       [] row.start = l.start /\ row.run # l.run -> [s EXCEPT !.tl = TRUE]
       [] row.start = l.start /\ row.run = l.run /\ row.sequence > l.sequence ->
            [s EXCEPT !.last = <<row>>]
       [] OTHER -> s

TakeLast(s, row) ==
  LET l == s.last[1]
  IN CASE s.last = <<>> \/ row.start > l.start -> [s EXCEPT !.last = <<row>>, !.tl = FALSE]
       [] row.start = l.start /\ row.run # l.run -> [s EXCEPT !.tl = TRUE]
       [] row.start = l.start /\ row.run = l.run /\ row.sequence > l.sequence ->
            [s EXCEPT !.last = <<row>>]
       [] OTHER -> s

Observe(s, row) ==
  TakeLast(TakeFirst([s EXCEPT !.multirun = @ \/ row.run # s.run0,
                               !.missing = @ \/ row.start = NoTime], row), row)

ObserveAll(attempts) == FoldLeft(Observe, NoSelection(attempts[1].run), attempts)

\* A device seen in several runs of which one has no start has neither; two runs with
\* the same start leave that end open.
Publish(s) ==
  LET ambiguous == s.multirun /\ s.missing
  IN [first |-> IF ambiguous \/ s.tf THEN NoAttempt ELSE s.first[1].id,
      latest |-> IF ambiguous \/ s.tl THEN NoAttempt ELSE s.last[1].id]

ViewerSelects(attempts) == Publish(ObserveAll(attempts))

-----------------------------------------------------------------------------
(* The Pareto report: the attempts of all files, in any order.             *)

Candidates(attempts) ==
  IF \A i \in DOMAIN attempts : attempts[i].start # NoTime
  THEN {i \in DOMAIN attempts : \A j \in DOMAIN attempts :
          attempts[j].start <= attempts[i].start}
  ELSE DOMAIN attempts

select_latest(attempts) ==
  LET candidates == Candidates(attempts)
      scopes == {<<attempts[i].source, attempts[i].run>> : i \in candidates}
      last == CHOOSE i \in candidates :
                \A j \in candidates : attempts[j].sequence <= attempts[i].sequence
  IN IF Cardinality(scopes) = 1 THEN attempts[last].id ELSE NoAttempt

-----------------------------------------------------------------------------
(* Traceability: the sources' sequences are merged by the starts of their  *)
(* runs; where runs of two sources overlap the order is unknown.           *)

\* The next attempt of every source that has one left, as indices.
Fronts(attempts, taken) ==
  {i \in DOMAIN attempts \ taken : \A j \in DOMAIN attempts \ taken :
     attempts[j].source = attempts[i].source => attempts[j].sequence >= attempts[i].sequence}

\* fronts is a set ordered by start, then source.
PopFirst(attempts, fronts) ==
  CHOOSE i \in fronts : \A j \in fronts :
    \/ attempts[i].start < attempts[j].start
    \/ attempts[i].start = attempts[j].start /\ attempts[i].source <= attempts[j].source

Chronological(attempts) ==
  LET take(order, k) == Append(order, PopFirst(attempts, Fronts(attempts, ToSet(order))))
  IN FoldLeft(take, <<>>, [k \in DOMAIN attempts |-> k])

Proper(a) == a.start # NoTime /\ a.finish # NoTime /\ a.start <= a.finish

\* The latest finish so far of every other source is compared with each start.
OrderUnknown(attempts) ==
  LET order == Chronological(attempts)
      endpoint(k, source) ==
        {attempts[order[i]].finish : i \in {j \in 1..k - 1 : attempts[order[j]].source = source}}
      clash(k) ==
        LET a == attempts[order[k]]
        IN \/ ~Proper(a)
           \/ \E s \in Sources(attempts) \ {a.source} :
                \E end \in endpoint(k, s) : end >= a.start
  IN Cardinality(Sources(attempts)) > 1 /\ \E k \in DOMAIN order : clash(k)

\* The attempt whose verdict is latest_passed.
LatestInCell(attempts) ==
  IF OrderUnknown(attempts) THEN NoAttempt ELSE attempts[Last(Chronological(attempts))].id

-----------------------------------------------------------------------------
(* What traceability says of a device at every step of a test flow         *)
(* (reduce): the steps are judged in order, and a step that stops the      *)
(* device on a failure decides about those after it.  flow[i] is           *)
(* [required, stop_on_fail]; cells[i] is what cell says of the attempts at *)
(* step i, [tests, latest, incomplete, changed].                           *)

TestedStatus(c) ==
  IF c.changed THEN "retest_different"
  ELSE IF c.incomplete THEN "indeterminate"
  ELSE IF c.tests > 1 THEN "retest_consistent" ELSE "tested"

Stops(c, unreliable) == c.latest = "fail" /\ ~unreliable /\ ~c.incomplete

StopUncertain(c) == c.latest = "unknown" \/ c.incomplete

UntestedStatus(step, s, unreliable, expected) ==
  IF ~step.required THEN "not_applicable"
  ELSE IF unreliable THEN "indeterminate"
  ELSE IF s.stopped THEN "not_applicable"
  ELSE IF s.stop_uncertain THEN "indeterminate"
  ELSE IF expected THEN "missing" ELSE "pending"

\* The statuses of all steps.  unreliable: the device or one of its attempts could not
\* be identified; closed: a closure names the device or its lot.
reduce(flow, cells, unreliable, closed) ==
  LET observed == {i \in DOMAIN cells : cells[i].tests > 0}
      judge(s, i) ==
        LET c == cells[i]
            expected == closed \/ \E k \in observed : k > i
        IN IF c.tests = 0
           THEN [s EXCEPT !.statuses = Append(@, UntestedStatus(flow[i], s, unreliable, expected))]
           ELSE IF flow[i].stop_on_fail
           THEN [statuses |-> Append(s.statuses, TestedStatus(c)),
                 stopped |-> s.stopped \/ Stops(c, unreliable),
                 stop_uncertain |-> s.stop_uncertain \/ StopUncertain(c)]
           ELSE [s EXCEPT !.statuses = Append(@, TestedStatus(c))]
  IN FoldLeft(judge, [statuses |-> <<>>, stopped |-> FALSE, stop_uncertain |-> FALSE],
              [i \in DOMAIN flow |-> i]).statuses
=============================================================================
