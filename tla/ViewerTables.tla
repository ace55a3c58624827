---------------------------- MODULE ViewerTables ----------------------------
(***************************************************************************)
(* How the viewer's second pass stores its rows (viewer/store.rs,          *)
(* TableWriter, and viewer/ingest.rs, convert): rows go to fragments of a  *)
(* bounded number of rows, and an index names, for every attempt, the      *)
(* fragments that hold its rows.  Queries for a few attempts open only     *)
(* those fragments (scan_selected).                                        *)
(*                                                                         *)
(* A table is a value: convert builds it alone in its staging directory    *)
(* and nobody reads it before the directory is published.                  *)
(***************************************************************************)
EXTENDS StdfStream, SequencesExt

CONSTANT FragmentRows   \* rows that fill a fragment
ASSUME FragmentAssumption == FragmentRows \in Nat \ {0}

NewTable ==
  [rows |-> <<>>, fragments |-> <<>>, lookup_attempt |-> 0, lookup_fragments |-> {},
   lookup |-> EmptyMap]

\* The fragments of the current attempt are written over what the index had for it.
Indexed(t) ==
  IF t.lookup_attempt = 0 THEN t
  ELSE [t EXCEPT !.lookup = Put(@, t.lookup_attempt, t.lookup_fragments)]

Flush(t) ==
  IF t.rows = <<>> THEN Indexed(t)
  ELSE [Indexed(t) EXCEPT !.fragments = Append(@, t.rows), !.rows = <<>>]

PushRow(t, row) ==
  LET current == IF t.lookup_attempt = row.attempt THEN t
                 ELSE [Indexed(t) EXCEPT !.lookup_attempt = row.attempt,
                                         !.lookup_fragments = {}]
      pushed == [current EXCEPT !.lookup_fragments = @ \cup {Len(t.fragments) + 1},
                                !.rows = Append(@, row)]
  IN IF Len(pushed.rows) >= FragmentRows THEN Flush(pushed) ELSE pushed

\* The rows of one batch, numbered on over the batches.  origins[j] is <<record,
\* expansion index>>; the attempt is the batch's, which the index is checked against.
RowsOfBatch(batch, before) ==
  [j \in DOMAIN batch.origins |->
     [id |-> before + j, attempt |-> batch.part_sequence, record |-> batch.origins[j][1]]]

Converted(batches) ==
  LET step(acc, batch) ==
        LET rows == RowsOfBatch(batch, acc.measurements)
        IN [measurements |-> acc.measurements + Len(rows),
            table |-> FoldLeft(PushRow, acc.table, rows)]
      all == FoldLeft(step, [measurements |-> 0, table |-> NewTable], batches)
  IN [all EXCEPT !.table = Flush(@)]

=============================================================================
