---------------------------- MODULE StreamReaders ---------------------------
(***************************************************************************)
(* One file and the six programs that read it.  Each reads the same        *)
(* records in the same order and none reads what another wrote except the  *)
(* viewer, whose second pass (EavParts, with the rows stored as            *)
(* ViewerTables says) is compared with its first (ViewerScan); so reading  *)
(* in lock step, one record at a time, shows every result that separate    *)
(* passes over an unchanging file can have.                                *)
(*                                                                         *)
(* The file is any sequence of records of an alphabet, within a budget for *)
(* each kind: it starts with a MIR, and what follows is well-formed or     *)
(* not, complete or cut.  The FAR record that every reader sees first is   *)
(* left out: it counts as one record for all of them and does nothing.     *)
(***************************************************************************)
EXTENDS EavParts, ViewerScan, TraceRead, SanityScan, Validator, ParetoScan, FiniteSetsExt, ViewerTables

CONSTANTS
  Alphabet,      \* the records the file may hold
  RecordBudget,  \* how many of each group of kinds
  MaxRecords,    \* how many in all
  MaxRefused     \* how many once the viewer has given the file up, or before it is cut

ASSUME AlphabetAssumption == Alphabet \subseteq Record
ASSUME BudgetAssumption ==
  RecordBudget \in [{"run", "context", "part", "test", "malformed"} -> Nat]

VARIABLES
  ended,         \* the end of the file was reached
  budget,
  delivered,     \* history: result rows of the test records read so far
  renamed,       \* history: a WRR gave a wafer a name
  unclosed       \* history: head/group pairs with a WIR and no WRR yet, of any run

vars == <<eavVars, scanVars, traceVars, sanityVars, validatorVars, paretoVars,
          ended, budget, delivered, renamed, unclosed>>

Init ==
  /\ EavInit /\ ScanInit /\ TraceInit /\ SanityInit /\ ValidatorInit /\ ParetoInit
  /\ ended = FALSE /\ budget = RecordBudget
  /\ delivered = 0 /\ renamed = FALSE /\ unclosed = {}

Class(r) ==
  CASE r.kind \in RunKind -> "run"
    [] r.kind \in PartKind -> "part"
    [] r.kind \in TestKind -> "test"
    [] r.kind = "Malformed" -> "malformed"
    [] OTHER -> "context"

Spent == SumFunction([c \in DOMAIN budget |-> RecordBudget[c] - budget[c]])

Deliver(r) ==
  /\ ~ended
  /\ Spent = 0 => r.kind = "MIR"
  /\ budget[Class(r)] > 0
  /\ Spent < (IF scanStatus = "failed" THEN MaxRefused ELSE MaxRecords)
  /\ budget' = [budget EXCEPT ![Class(r)] = @ - 1]
  /\ delivered' = delivered + RowsOf(r)
  /\ renamed' = (renamed \/ (r.kind = "WRR" /\ r.wafer # NoWafer))
  /\ unclosed' = IF r.kind = "WIR" THEN unclosed \cup {GroupOf(r)}
                 ELSE IF r.kind = "WRR" THEN unclosed \ {GroupOf(r)}
                 ELSE unclosed
  /\ EavRead(r) /\ ScanRead(r) /\ TraceReadRecord(r) /\ SanityRead(r)
  /\ ValidateRecord(r) /\ ParetoRead(r)
  /\ UNCHANGED ended

EndOfFile ==
  /\ ~ended /\ ended' = TRUE
  /\ EavEnd /\ ScanEnd /\ TraceEnd /\ SanityEnd /\ ValidateEnd /\ ParetoEnd
  /\ UNCHANGED <<budget, delivered, renamed, unclosed>>

CutOff ==
  /\ ~ended /\ ended' = TRUE
  /\ Spent <= MaxRefused
  /\ EavCut /\ ScanCut /\ TraceCut /\ SanityCut /\ ValidateCut /\ ParetoCut
  /\ UNCHANGED <<budget, delivered, renamed, unclosed>>

Next == (\E r \in Alphabet : Deliver(r)) \/ EndOfFile \/ CutOff

Spec == Init /\ [][Next]_vars

-----------------------------------------------------------------------------
(***************************************************************************)
(* Properties.                                                             *)
(***************************************************************************)

\* The converter's totals are the sums of the charges of the parts it holds, and of
\* the metadata, over any file; and they stay within the limits (bounded.rs, retain
\* and push).
ChargesBalance ==
  eavStatus = "reading" =>
    /\ tests = SumFunction([p \in DOMAIN pending |-> pending[p].tests])
    /\ bytes = Reserve + MetadataCharge * Cardinality(metadata_keys)
                 + SumFunction([p \in DOMAIN pending |-> pending[p].bytes])
    /\ tests <= MaxPendingTests /\ bytes <= MaxMemory

\* No test result is lost or repeated on the way to the rows: while a file converts,
\* the rows handed out and those pending are the results read, and a conversion that
\* ends without an error has handed out all of them.
NoRowLost ==
  LET written == SumFunction([i \in DOMAIN batches |-> batches[i].rows])
      held == SumFunction([p \in DOMAIN active_parts |-> active_parts[p].tests])
  IN eavStatus \in {"reading", "finished"} => written + held = delivered

\* The readers number the attempts of a file alike and agree on which are open, as
\* long as each of them goes on reading: PIR, an orphan test and a PRR alone open an
\* attempt in every one, or stop the reader.
AttemptsAgree ==
  /\ eavStatus = "reading" /\ scanStatus = "reading" =>
       /\ part_seq = next_id
       /\ DOMAIN active_parts = DOMAIN active
       /\ \A p \in DOMAIN active : active_parts[p].part_seq = active[p].id
  /\ scanStatus = "reading" /\ traceStatus = "reading" =>
       /\ next_id = sequence
       /\ DOMAIN active = DOMAIN open_parts
       /\ \A p \in DOMAIN active : active[p].id = open_parts[p].sequence
  /\ traceStatus = "reading" =>
       /\ sequence = Len(units)
       /\ DOMAIN open_parts = DOMAIN in_progress
       /\ \A p \in DOMAIN in_progress : open_parts[p].sequence = in_progress[p]
  /\ scanStatus # "failed" /\ paretoStatus # "failed" =>
       /\ [p \in DOMAIN active |-> active[p].slot] = [p \in DOMAIN paretoActive |-> paretoActive[p].slot]
       /\ Range(raw_attempts) = ToSet(paretoAttempts)
       /\ Len(paretoAttempts) = Cardinality(DOMAIN raw_attempts)
  /\ paretoStatus = "finished" => scanStatus = "finished"

\* The viewer's second pass finds every row where the first pass put its record:
\* a batch has one origin per row, and the index gives each origin's record the
\* attempt the row has ("EAV provenance ... mismatch" in convert never happens).
RowsNameTheirAttempt ==
  scanStatus # "failed" =>
    \A i \in DOMAIN batches :
      LET b == batches[i]
      IN /\ Len(b.origins) = b.rows
         /\ \A j \in DOMAIN b.origins : evidence[b.origins[j][1]] = b.part_sequence
         /\ b.part_sequence \in DOMAIN raw_attempts

\* The wafer traceability recorded for an attempt, open or closed.
TracedWafers ==
  {<<open_parts[p].sequence, open_parts[p].wafer>> : p \in DOMAIN open_parts}
    \cup {<<attempts[i].sequence, attempts[i].wafer>> : i \in DOMAIN attempts}

\* Within one run, whatever the sites do, a part has the wafer that was open for it
\* when it started: the converter and traceability name the same one, and neither
\* the viewer nor the sanity report names a different one.  (The viewer lets a WRR
\* without a WIR of its group close the whole head's wafer, and takes a name from WRR.)
WafersAgree ==
  traceStatus # "failed" /\ "run_context" \notin issues =>
    /\ eavStatus \in {"reading", "finished"} /\ run_number <= 1 =>
         /\ \A p \in DOMAIN active_parts :
              <<active_parts[p].part_seq, active_parts[p].wafer_id>> \in TracedWafers
         /\ \A i \in DOMAIN batches :
              <<batches[i].part_sequence, batches[i].wafer_id>> \in TracedWafers
    /\ \A i \in DOMAIN units :
         units[i].wafer # NoWafer => <<i, units[i].wafer>> \in TracedWafers
    /\ scanStatus # "failed" /\ ~renamed /\ "wafer_pair" \notin issues =>
         \A id \in DOMAIN raw_attempts :
           LET name == DeviceWafer(raw_attempts[id].slot)
           IN name # NoWafer => <<id, name>> \in TracedWafers

\* A query for an attempt is shown every row of it: the index names the fragments with
\* rows of the attempt, and no other, however the attempts and fragments overlap; and
\* the rows are numbered without gap, each stored once.
LookupFindsRows ==
  scanStatus = "finished" /\ eavStatus = "finished" =>
    LET stored == Converted(batches)
        t == stored.table
        holds(i, a) == \E j \in DOMAIN t.fragments[i] : t.fragments[i][j].attempt = a
        all == FlattenSeq(t.fragments)
    IN /\ \A a \in DOMAIN raw_attempts :
            Get(t.lookup, a, {}) = {i \in DOMAIN t.fragments : holds(i, a)}
       /\ DOMAIN t.lookup \subseteq DOMAIN raw_attempts
       /\ [i \in DOMAIN all |-> all[i].id] = [i \in 1..stored.measurements |-> i]
       /\ stored.measurements = delivered

\* The sanity rules that are about pairs, and so are the validator's.
PairRules == {"part_pair", "unclosed_unit", "wafer_overlap", "wafer_pair", "wafer_closure",
              "framing"}

\* Two judges of one file: where the sanity report sees a single run and every part in
\* it, validation finds an error exactly if the sanity report finds one of the pairing
\* rules broken; and it warns of a missing MRR exactly if the run was left open.
ValidatorAgrees ==
  ended /\ runs <= 1 /\ issues \cap {"decode", "part_context"} = {} =>
    /\ HasErrors <=> issues \cap PairRules # {}
    /\ "NO_MRR" \in findings <=> "run_closure" \in issues

\* A file the sanity report finds nothing wrong with can be read by every command:
\* nothing but a limit, or an MPR without its arrays, can stop the conversion.  A
\* definition kept at run level is the exception: the others take it for a test.
CleanFileIsReadable ==
  ended /\ Clean /\ ~definitions =>
    /\ traceStatus = "finished"
    /\ scanStatus = "finished"
    /\ eavStatus \in {"finished", "limit", "expansion"}

\* docs/sanity.md lists wafer closure among the full-file diagnostics: a file that
\* leaves a wafer open is not reported clean.
UnclosedWafersReported == ended /\ unclosed # {} => ~Clean
=============================================================================
