----------------------------- MODULE ViewerScan -----------------------------
(***************************************************************************)
(* The viewer's first pass over a spooled file (viewer/ingest.rs, scan):   *)
(* it numbers the test attempts, gives each the slot of a wafer whose      *)
(* final name may come later, and writes, for every record, which attempt  *)
(* it belongs to.  The second pass (convert) runs EavParts over the same   *)
(* bytes and looks every row up in what this pass wrote.                   *)
(***************************************************************************)
EXTENDS StdfStream

VARIABLES
  scanStatus,
  run, next_id,         \* `run` and `next`
  groups,               \* site group of a head and site
  slots,                \* open wafer of a head and group: an index of manifest_wafers
  active,               \* the open attempts
  manifest_wafers,      \* cache.manifest.wafers
  evidence,             \* records.idx: the attempt of every record, 0 for none
  raw_attempts          \* raw_attempts.idx: closed attempts by number

scanVars == <<scanStatus, run, next_id, groups, slots, active, manifest_wafers,
              evidence, raw_attempts>>

ScanInit ==
  /\ scanStatus = "reading"
  /\ run = 0 /\ next_id = 0
  /\ groups = EmptyMap /\ slots = EmptyMap /\ active = EmptyMap
  /\ manifest_wafers = <<>> /\ evidence = <<>> /\ raw_attempts = EmptyMap

\* Any error ends the index; prepare removes the staging directory with all files.
ScanFail ==
  /\ scanStatus' = "failed"
  /\ run' = 0 /\ next_id' = 0
  /\ groups' = EmptyMap /\ slots' = EmptyMap /\ active' = EmptyMap
  /\ manifest_wafers' = <<>> /\ evidence' = <<>> /\ raw_attempts' = EmptyMap

\* The record is written to the index with the attempt it belongs to.
Index(attempt) ==
  /\ evidence' = Append(evidence, attempt)
  /\ UNCHANGED scanStatus

ScanMir(r) ==
  /\ r.kind = "MIR"
  /\ \/ DOMAIN active # {} /\ ScanFail
     \/ /\ DOMAIN active = {}
        /\ run' = run + 1
        /\ groups' = EmptyMap
        /\ slots' = EmptyMap
        /\ Index(0)
        /\ UNCHANGED <<next_id, active, manifest_wafers, raw_attempts>>

ScanMrr(r) ==
  /\ r.kind = "MRR"
  /\ \/ DOMAIN active # {} /\ ScanFail
     \/ /\ DOMAIN active = {}
        /\ Index(0)
        /\ UNCHANGED <<run, next_id, groups, slots, active, manifest_wafers, raw_attempts>>

ScanSdr(r) ==
  /\ r.kind = "SDR"
  /\ groups' = PutAll(groups, {r.head} \X r.sites, r.group)
  /\ Index(0)
  /\ UNCHANGED <<run, next_id, slots, active, manifest_wafers, raw_attempts>>

ScanWir(r) ==
  /\ r.kind = "WIR"
  /\ manifest_wafers' = Append(manifest_wafers, r.wafer)
  /\ slots' = Put(slots, GroupOf(r), Len(manifest_wafers) + 1)
  /\ Index(0)
  /\ UNCHANGED <<run, next_id, groups, active, raw_attempts>>

\* The slot that a WRR closes is its own group's, or else the whole head's.
Closed(r) == IF GroupOf(r) \in DOMAIN slots THEN GroupOf(r) ELSE <<r.head, AllSites>>

\* WRR closes a slot and may give its wafer another name.
ScanWrr(r) ==
  /\ r.kind = "WRR"
  /\ slots' = Without(slots, Closed(r))
  /\ manifest_wafers' =
       IF Closed(r) \in DOMAIN slots /\ r.wafer # NoWafer
       THEN [manifest_wafers EXCEPT ![slots[Closed(r)]] = r.wafer]
       ELSE manifest_wafers
  /\ Index(0)
  /\ UNCHANGED <<run, next_id, groups, active, raw_attempts>>

slot(open, pos) == WaferAt(groups, open, pos, 0)

\* A head without a wafer, or a grouped site without one, gets a nameless slot.
NeedsSlot(pos) ==
  /\ slot(slots, pos) = 0
  /\ pos \in DOMAIN groups \/ OpenOn(slots, pos[1]) = {}

SlotsFor(pos) ==
  IF NeedsSlot(pos)
  THEN Put(slots, <<pos[1], Get(groups, pos, AllSites)>>, Len(manifest_wafers) + 1)
  ELSE slots

\* PIR, a test or PRR: the first of them at a position opens an attempt, PRR closes it.
ScanSide(r) ==
  LET pos == At(r)
      attempt == Get(active, pos,
                     [id |-> next_id + 1, run |-> run, slot |-> slot(SlotsFor(pos), pos)])
  IN /\ r.kind \in PartKind \cup TestKind
     /\ \/ r.kind = "PIR" /\ pos \in DOMAIN active /\ ScanFail
        \/ /\ ~(r.kind = "PIR" /\ pos \in DOMAIN active)
           /\ slots' = SlotsFor(pos)
           /\ manifest_wafers' = IF NeedsSlot(pos) THEN Append(manifest_wafers, NoWafer)
                                 ELSE manifest_wafers
           /\ next_id' = IF pos \in DOMAIN active THEN next_id ELSE next_id + 1
           /\ active' = IF r.kind = "PRR" THEN Without(active, pos)
                        ELSE Put(active, pos, attempt)
           /\ raw_attempts' = IF r.kind = "PRR"
                              THEN Put(raw_attempts, attempt.id,
                                       [run |-> attempt.run, slot |-> attempt.slot,
                                        record |-> Len(evidence) + 1])
                              ELSE raw_attempts
           /\ Index(attempt.id)
           /\ UNCHANGED <<run, groups>>

ScanMalformed(r) == r.kind = "Malformed" /\ ScanFail

ScanStopped == scanStatus # "reading" /\ UNCHANGED scanVars

ScanRead(r) ==
  \/ ScanStopped
  \/ /\ scanStatus = "reading"
     /\ \/ ScanMir(r) \/ ScanMrr(r) \/ ScanSdr(r) \/ ScanWir(r) \/ ScanWrr(r)
        \/ ScanSide(r) \/ ScanMalformed(r)

ScanEnd ==
  \/ ScanStopped
  \/ scanStatus = "reading" /\ DOMAIN active # {} /\ ScanFail
  \/ /\ scanStatus = "reading" /\ DOMAIN active = {}
     /\ scanStatus' = "finished"
     /\ UNCHANGED <<run, next_id, groups, slots, active, manifest_wafers, evidence,
                    raw_attempts>>

ScanCut ==
  \/ ScanStopped
  \/ scanStatus = "reading" /\ ScanFail

\* build_attempts: an attempt's wafer is looked up when the whole file was read.
DeviceWafer(slotOf) == IF slotOf = 0 THEN NoWafer ELSE manifest_wafers[slotOf]

ScanNext == (\E r \in Record : ScanRead(r)) \/ ScanEnd \/ ScanCut

ScanSpec == ScanInit /\ [][ScanNext]_scanVars
=============================================================================
