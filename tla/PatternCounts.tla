---------------------------- MODULE PatternCounts ---------------------------
(***************************************************************************)
(* The FTR pattern report (ftr_pareto.rs): counts of the functional test   *)
(* records of every scope, over files of which equal copies count once,    *)
(* within a limit on the number of groups.                                 *)
(*                                                                         *)
(* A file is a sequence of records [kind, scope, flags]: a MIR starts the  *)
(* next run, flags is a set of bits of TEST_FLG, and scope is pattern,     *)
(* head, site and test in one.  Two files are copies if they are equal.  A *)
(* file with a record that cannot be decoded ends the command and is left  *)
(* out.                                                                    *)
(***************************************************************************)
EXTENDS Naturals, Sequences, FiniteSets, SequencesExt, TLC

Flag == {"alarm", "not_executed", "doubtful", "failed"}

NoCounts == [attempts |-> 0, pass |-> 0, fail |-> 0, unknown |-> 0, not_executed |-> 0,
             alarms |-> 0]

Outcome(flags) ==
  IF "not_executed" \in flags THEN "not_executed"
  ELSE IF "doubtful" \in flags THEN "unknown"
  ELSE IF "failed" \in flags THEN "fail" ELSE "pass"

PushCount(c, flags) ==
  [c EXCEPT !.attempts = @ + 1, !.alarms = IF "alarm" \in flags THEN @ + 1 ELSE @,
            ![Outcome(flags)] = @ + 1]

NewScan == [ok |-> TRUE, run |-> 0, groups |-> [s \in {} |-> NoCounts]]

ScanPattern(s, r, max_groups) ==
  LET scope == <<s.run, r.scope>>
      fresh == scope \notin DOMAIN s.groups
      old == IF fresh THEN NoCounts ELSE s.groups[scope]
  IN CASE ~s.ok -> s
       [] s.ok /\ r.kind = "MIR" -> [s EXCEPT !.run = @ + 1]
       [] s.ok /\ r.kind = "FTR" ->
            IF fresh /\ Cardinality(DOMAIN s.groups) >= max_groups THEN [s EXCEPT !.ok = FALSE]
            ELSE [s EXCEPT !.groups = (scope :> PushCount(old, r.flags)) @@ @]
       [] OTHER -> s

ScanFile(file, max_groups) ==
  FoldLeft(LAMBDA s, r : ScanPattern(s, r, max_groups), NewScan, file)

\* analyze: a file whose bytes were seen adds a path and no counts.
AnalyzePatterns(files, max_groups) ==
  LET add(a, file) ==
        LET s == ScanFile(file, max_groups)
            total == a.total + Cardinality(DOMAIN s.groups)
        IN CASE ~a.ok \/ ~s.ok -> [a EXCEPT !.ok = FALSE]
             [] a.ok /\ s.ok /\ file \in DOMAIN a.sources -> a
             [] OTHER -> [ok |-> total <= max_groups, total |-> total,
                          sources |-> (file :> s.groups) @@ a.sources]
  IN FoldLeft(add, [ok |-> max_groups > 0, total |-> 0, sources |-> [f \in {} |-> NewScan.groups]],
              files)
=============================================================================
