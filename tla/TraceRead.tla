----------------------------- MODULE TraceRead ------------------------------
(***************************************************************************)
(* Traceability's pass over one file (traceability/ingest.rs, read).  It   *)
(* is the strictest of the four readers: records belong to a run, tests to *)
(* an open PIR, and every run and attempt must be closed.                  *)
(***************************************************************************)
EXTENDS StdfStream

VARIABLES
  traceStatus,
  sites, wafers,        \* site group of a head and site; open wafer of a head and group
  open_parts,           \* `active`
  sequence, run_number,
  run_key,              \* whether a run is open
  attempts              \* the attempts pushed to the store, in file order

traceVars == <<traceStatus, sites, wafers, open_parts, sequence, run_number, run_key, attempts>>

TraceInit ==
  /\ traceStatus = "reading"
  /\ sites = EmptyMap /\ wafers = EmptyMap /\ open_parts = EmptyMap
  /\ sequence = 0 /\ run_number = 0 /\ run_key = FALSE
  /\ attempts = <<>>

\* Any error ends the command; nothing it pushed is used.
TraceFail ==
  /\ traceStatus' = "failed"
  /\ sites' = EmptyMap /\ wafers' = EmptyMap /\ open_parts' = EmptyMap
  /\ sequence' = 0 /\ run_number' = 0 /\ run_key' = FALSE
  /\ attempts' = <<>>

TraceMir(r) ==
  /\ r.kind = "MIR"
  /\ \/ (DOMAIN open_parts # {} \/ run_key) /\ TraceFail
     \/ /\ DOMAIN open_parts = {} /\ ~run_key
        /\ sites' = EmptyMap
        /\ wafers' = EmptyMap
        /\ run_number' = run_number + 1
        /\ run_key' = TRUE
        /\ UNCHANGED <<traceStatus, open_parts, sequence, attempts>>

TraceMrr(r) ==
  /\ r.kind = "MRR"
  /\ \/ (DOMAIN open_parts # {} \/ ~run_key) /\ TraceFail
     \/ /\ DOMAIN open_parts = {} /\ run_key
        /\ run_key' = FALSE
        /\ UNCHANGED <<traceStatus, sites, wafers, open_parts, sequence, run_number, attempts>>

TraceSdr(r) ==
  /\ r.kind = "SDR"
  /\ sites' = PutAll(sites, {r.head} \X r.sites, r.group)
  /\ UNCHANGED <<traceStatus, wafers, open_parts, sequence, run_number, run_key, attempts>>

TraceWir(r) ==
  /\ r.kind = "WIR"
  /\ wafers' = Put(wafers, GroupOf(r), r.wafer)
  /\ UNCHANGED <<traceStatus, sites, open_parts, sequence, run_number, run_key, attempts>>

TraceWrr(r) ==
  /\ r.kind = "WRR"
  /\ wafers' = Without(wafers, GroupOf(r))
  /\ UNCHANGED <<traceStatus, sites, open_parts, sequence, run_number, run_key, attempts>>

wafer(pos) == WaferAt(sites, wafers, pos, NoWafer)

\* Mutant: the part takes the number of the one before.
OpenPartEarlier(pos) == [sequence |-> sequence, wafer |-> wafer(pos)]

OpenPart(pos) == [sequence |-> sequence + 1, wafer |-> wafer(pos)]

TracePir(r) ==
  /\ r.kind = "PIR"
  /\ \/ (~run_key \/ At(r) \in DOMAIN open_parts) /\ TraceFail
     \/ /\ run_key /\ At(r) \notin DOMAIN open_parts
        /\ sequence' = sequence + 1
        /\ open_parts' = Put(open_parts, At(r), OpenPart(At(r)))
        /\ UNCHANGED <<traceStatus, sites, wafers, run_number, run_key, attempts>>

TraceTest(r) ==
  /\ r.kind \in TestKind
  /\ \/ At(r) \notin DOMAIN open_parts /\ TraceFail
     \/ At(r) \in DOMAIN open_parts /\ UNCHANGED traceVars

\* A PRR alone is an attempt too.
TracePrr(r) ==
  LET part == Get(open_parts, At(r), OpenPart(At(r)))
  IN /\ r.kind = "PRR"
     /\ \/ ~run_key /\ TraceFail
        \/ /\ run_key
           /\ sequence' = IF At(r) \in DOMAIN open_parts THEN sequence ELSE sequence + 1
           /\ open_parts' = Without(open_parts, At(r))
           /\ attempts' = Append(attempts, [position |-> At(r), sequence |-> part.sequence,
                                            wafer |-> part.wafer, run |-> run_number])
           /\ UNCHANGED <<traceStatus, sites, wafers, run_number, run_key>>

TraceMalformed(r) == r.kind = "Malformed" /\ TraceFail

TraceStopped == traceStatus # "reading" /\ UNCHANGED traceVars

TraceReadRecord(r) ==
  \/ TraceStopped
  \/ /\ traceStatus = "reading"
     /\ \/ TraceMir(r) \/ TraceMrr(r) \/ TraceSdr(r) \/ TraceWir(r) \/ TraceWrr(r)
        \/ TracePir(r) \/ TraceTest(r) \/ TracePrr(r) \/ TraceMalformed(r)

TraceEnd ==
  LET closed == DOMAIN open_parts = {} /\ ~run_key /\ run_number > 0
  IN \/ TraceStopped
     \/ traceStatus = "reading" /\ ~closed /\ TraceFail
     \/ /\ traceStatus = "reading" /\ closed
        /\ traceStatus' = "finished"
        /\ UNCHANGED <<sites, wafers, open_parts, sequence, run_number, run_key, attempts>>

TraceCut ==
  \/ TraceStopped
  \/ traceStatus = "reading" /\ TraceFail

TraceNext == (\E r \in Record : TraceReadRecord(r)) \/ TraceEnd \/ TraceCut

TraceSpec == TraceInit /\ [][TraceNext]_traceVars
=============================================================================
