------------------------ MODULE ReportChecks_proofs -------------------------
(***************************************************************************)
(* The two invariants of ReportChecks that join what a reader does with    *)
(* the records of a file (StreamReaders_proofs) to what is made of the     *)
(* file before and after (FileChecks_proofs).                              *)
(***************************************************************************)
EXTENDS ReportChecks, StreamReaders_proofs, FileChecks_proofs

\* Every row is stored once and found again under the attempt it is of: by a conversion in
\* the fragments of its partition, by the viewer in those its index names, and in those of
\* a dataset at an address of its own.
THEOREM RowsAreStoredOnce == Spec => []RowsStoredOnce
<1>1. FragmentsHoldRows /\ ReusedRowsAreSame
  BY FragmentsHold, ReusedRowsAre
<1>2. RowsNameTheirAttempt /\ LookupFindsRows => RowsStoredOnce
  BY <1>1, Zenon DEF RowsStoredOnce
<1> QED
  BY <1>2, RowsFoundInIndex, LookupsFindRows, PTL

\* However a file is cut and its bytes arrive, the buffer walk and the stream frame the same
\* records, those that were written and are whole, with one error for what is left; the
\* summaries count them alike; and what is no STDF file is refused by all openers.
THEOREM FramersAlwaysAgree == Spec => []FramersAgree
<1>1. FramersAgree
  BY FilesAlwaysFramed, Zenon DEF FramersAgree
<1> QED
  BY <1>1, PTL
=============================================================================
