------------------------------ MODULE EavParts ------------------------------
(***************************************************************************)
(* Record-to-row conversion: StdfContext (context.rs) follows the lot,     *)
(* wafer and open part of every head and site, and BoundedRecordBatchIter  *)
(* (bounded.rs) charges what is retained against two limits, remembers     *)
(* which record every row comes from, and emits one batch per closed part. *)
(*                                                                         *)
(* Bytes are counted in units of 2048; the text of names and units is not  *)
(* charged.  The lot is snapshot exactly where the wafer is and left out.  *)
(***************************************************************************)
EXTENDS StdfStream

CONSTANTS
  MaxPendingTests,   \* BatchLimits.max_pending_tests
  MaxMemory          \* BatchLimits.max_memory_bytes, in units of 2048 bytes

Reserve == 64
MetadataCharge == 1
PartCharge == 2
TestCharge == 2

ASSUME LimitAssumption ==
  /\ MaxPendingTests \in Nat \ {0}
  /\ MaxMemory \in Nat /\ MaxMemory >= Reserve

VARIABLES
  eavStatus,        \* what `finished` and the last error say
  wafer_ids, site_groups, active_parts, part_seq,               \* StdfContext
  pending, metadata_keys, tests, bytes, provenance, record_sequence,
  batches           \* the batches handed out, in order

context == <<wafer_ids, site_groups, active_parts, part_seq>>
charges == <<pending, metadata_keys, tests, bytes>>
eavVars == <<eavStatus, context, charges, provenance, record_sequence, batches>>

EavInit ==
  /\ eavStatus = "reading"
  /\ wafer_ids = EmptyMap /\ site_groups = EmptyMap /\ active_parts = EmptyMap /\ part_seq = 0
  /\ pending = EmptyMap /\ metadata_keys = {} /\ tests = 0 /\ bytes = Reserve
  /\ provenance = EmptyMap /\ record_sequence = 0
  /\ batches = <<>>

(***************************************************************************)
(* An error ends the iterator: the context and the pending parts go.       *)
(***************************************************************************)
Discard ==
  /\ wafer_ids' = EmptyMap /\ site_groups' = EmptyMap /\ active_parts' = EmptyMap /\ part_seq' = 0
  /\ pending' = EmptyMap
  /\ UNCHANGED <<metadata_keys, tests, bytes, provenance, batches>>

EavFail(reason) ==
  /\ eavStatus' = reason
  /\ Discard

EavRefuse(reason) ==
  /\ EavFail(reason)
  /\ record_sequence' = record_sequence + 1

EavAccept ==
  /\ record_sequence' = record_sequence + 1
  /\ UNCHANGED eavStatus

(***************************************************************************)
(* Charges.                                                                *)
(***************************************************************************)
PartFee(pos) == IF pos \in DOMAIN pending THEN 0 ELSE PartCharge

Fits(pos, count) ==
  /\ tests + count <= MaxPendingTests
  /\ bytes + count * TestCharge + PartFee(pos) <= MaxMemory

\* Mutant: the charge of a part's earlier records is forgotten.
retainLatest(pos, count) ==
  LET charge == count * TestCharge + PartFee(pos)
  IN /\ pending' = Put(pending, pos, [tests |-> count, bytes |-> charge])
     /\ tests' = tests + count
     /\ bytes' = bytes + charge
     /\ UNCHANGED metadata_keys

\* Mutant: the fixed charge of a part is not counted into the total.
retainUncounted(pos, count) ==
  LET charge == count * TestCharge + PartFee(pos)
      entry == Get(pending, pos, [tests |-> 0, bytes |-> 0])
  IN /\ pending' = Put(pending, pos, [tests |-> entry.tests + count,
                                      bytes |-> entry.bytes + charge])
     /\ tests' = tests + count
     /\ bytes' = bytes + count * TestCharge
     /\ UNCHANGED metadata_keys

retain(pos, count) ==
  LET charge == count * TestCharge + PartFee(pos)
      entry == Get(pending, pos, [tests |-> 0, bytes |-> 0])
  IN /\ pending' = Put(pending, pos, [tests |-> entry.tests + count,
                                      bytes |-> entry.bytes + charge])
     /\ tests' = tests + count
     /\ bytes' = bytes + charge
     /\ UNCHANGED metadata_keys

\* Metadata is charged once per key and never given back.
NewKeys(keys) == keys \ metadata_keys
MetadataFits(keys) == bytes + MetadataCharge * Cardinality(NewKeys(keys)) <= MaxMemory

metadata(keys) ==
  /\ metadata_keys' = metadata_keys \cup keys
  /\ bytes' = bytes + MetadataCharge * Cardinality(NewKeys(keys))
  /\ UNCHANGED <<pending, tests>>

(***************************************************************************)
(* The open parts.                                                         *)
(***************************************************************************)
\* Mutant: the site's group is not looked at.
wafer_forHead(pos) == Get(wafer_ids, <<pos[1], AllSites>>, NoWafer)

wafer_for(pos) == WaferAt(site_groups, wafer_ids, pos, NoWafer)

NewPart(pos) == [part_seq |-> part_seq + 1, wafer_id |-> wafer_for(pos), tests |-> 0]

Reserved(r) == IF r.kind = "MPR" THEN r.declared + 1 ELSE 1

\* with_provenance: every row of the record, in the order the rows are expanded.
Origins(r) == [i \in 1..Reserved(r) |-> <<record_sequence + 1, i - 1>>]

EavMir(r) ==
  /\ r.kind = "MIR"
  /\ EavAccept
  /\ UNCHANGED <<context, charges, provenance, batches>>

EavMrr(r) ==
  /\ r.kind = "MRR"
  /\ EavAccept
  /\ UNCHANGED <<context, charges, provenance, batches>>

\* The charges made before the refused one stay, but nothing reads them after an error.
EavSdr(r) ==
  LET keys == {<<1, r.head, s>> : s \in r.sites}
  IN /\ r.kind = "SDR"
     /\ \/ /\ ~MetadataFits(keys)
           /\ EavRefuse("limit")
        \/ /\ MetadataFits(keys)
           /\ EavAccept
           /\ metadata(keys)
           /\ site_groups' = PutAll(site_groups, {r.head} \X r.sites, r.group)
           /\ UNCHANGED <<wafer_ids, active_parts, part_seq, provenance, batches>>

EavWir(r) ==
  LET keys == {<<0, r.head, r.group>>}
  IN /\ r.kind = "WIR"
     /\ \/ /\ ~MetadataFits(keys)
           /\ EavRefuse("limit")
        \/ /\ MetadataFits(keys)
           /\ EavAccept
           /\ metadata(keys)
           /\ wafer_ids' = Put(wafer_ids, GroupOf(r), r.wafer)
           /\ UNCHANGED <<site_groups, active_parts, part_seq, provenance, batches>>

EavWrr(r) ==
  /\ r.kind = "WRR"
  /\ EavAccept
  /\ wafer_ids' = Without(wafer_ids, GroupOf(r))
  /\ UNCHANGED <<site_groups, active_parts, part_seq, charges, provenance, batches>>

EavPir(r) ==
  /\ r.kind = "PIR"
  /\ \/ /\ At(r) \in DOMAIN pending
        /\ EavRefuse("pairing")
     \/ /\ At(r) \notin DOMAIN pending
        /\ ~Fits(At(r), 0)
        /\ EavRefuse("limit")
     \/ /\ At(r) \notin DOMAIN pending
        /\ Fits(At(r), 0)
        /\ EavAccept
        /\ retain(At(r), 0)
        /\ part_seq' = part_seq + 1
        /\ active_parts' = Put(active_parts, At(r), NewPart(At(r)))
        /\ UNCHANGED <<wafer_ids, site_groups, provenance, batches>>

\* A test result before any PIR opens its part; validate_expansion looks at an
\* MPR between the check of the test limit and the check of both limits.
EavTest(r) ==
  LET pos == At(r)
      part == Get(active_parts, pos, NewPart(pos))
  IN /\ r.kind \in TestKind
     /\ \/ /\ tests + Reserved(r) > MaxPendingTests
           /\ EavRefuse("limit")
        \/ /\ tests + Reserved(r) <= MaxPendingTests
           /\ r.carried # r.declared
           /\ EavRefuse("expansion")
        \/ /\ r.carried = r.declared
           /\ ~Fits(pos, Reserved(r))
           /\ tests + Reserved(r) <= MaxPendingTests
           /\ EavRefuse("limit")
        \/ /\ r.carried = r.declared
           /\ Fits(pos, Reserved(r))
           /\ EavAccept
           /\ retain(pos, Reserved(r))
           /\ part_seq' = IF pos \in DOMAIN active_parts THEN part_seq ELSE part_seq + 1
           /\ active_parts' = Put(active_parts, pos,
                                  [part EXCEPT !.tests = @ + RowsOf(r)])
           /\ provenance' = Put(provenance, pos, Get(provenance, pos, <<>>) \o Origins(r))
           /\ UNCHANGED <<wafer_ids, site_groups, batches>>

\* Mutant: a part with one row only is taken for an empty one.
EmitMany(batch) == IF batch.rows > 1 THEN Append(batches, batch) ELSE batches

\* A part without rows gives no batch.
Emit(batch) == IF batch.rows > 0 THEN Append(batches, batch) ELSE batches

\* PRR: finish_part takes the open part, or makes one, and its charge is released.
EavPrr(r) ==
  LET pos == At(r)
      part == Get(active_parts, pos, NewPart(pos))
      charge == Get(pending, pos, [tests |-> 0, bytes |-> 0])
      batch == [position |-> pos, part_sequence |-> part.part_seq,
                wafer_id |-> part.wafer_id, rows |-> part.tests,
                origins |-> Get(provenance, pos, <<>>)]
  IN /\ r.kind = "PRR"
     /\ EavAccept
     /\ part_seq' = IF pos \in DOMAIN active_parts THEN part_seq ELSE part_seq + 1
     /\ active_parts' = Without(active_parts, pos)
     /\ provenance' = Without(provenance, pos)
     /\ pending' = Without(pending, pos)
     /\ tests' = tests - charge.tests
     /\ bytes' = bytes - charge.bytes
     /\ batches' = Emit(batch)
     /\ UNCHANGED <<wafer_ids, site_groups, metadata_keys>>

\* The reader hands an undecodable record of a known type over as Unknown; only
\* eight types are refused here, WRR and MRR are not among them.
Strict == {"MIR", "SDR", "WIR", "PIR", "PRR"} \cup TestKind

EavMalformed(r) ==
  /\ r.kind = "Malformed"
  /\ \/ /\ r.of \in Strict
        /\ EavRefuse("malformed")
     \/ /\ r.of \notin Strict
        /\ EavAccept
        /\ UNCHANGED <<context, charges, provenance, batches>>

EavStopped == eavStatus # "reading" /\ UNCHANGED eavVars

EavRead(r) ==
  \/ EavStopped
  \/ /\ eavStatus = "reading"
     /\ \/ EavMir(r) \/ EavMrr(r) \/ EavSdr(r) \/ EavWir(r) \/ EavWrr(r)
        \/ EavPir(r) \/ EavTest(r) \/ EavPrr(r) \/ EavMalformed(r)

\* End of input: parts without a PRR are reported, never emitted.
EavEnd ==
  \/ EavStopped
  \/ /\ eavStatus = "reading"
     /\ EavFail(IF DOMAIN pending = {} THEN "finished" ELSE "pairing")
     /\ UNCHANGED record_sequence

\* The file is cut inside a record, or cannot be read.
EavCut ==
  \/ EavStopped
  \/ /\ eavStatus = "reading"
     /\ EavFail("framing")
     /\ UNCHANGED record_sequence

EavNext == (\E r \in Record : EavRead(r)) \/ EavEnd \/ EavCut

EavSpec == EavInit /\ [][EavNext]_eavVars

-----------------------------------------------------------------------------
\* What the converter holds is what it was charged for: the same parts are pending
\* and open, and each of their tests was charged once and has its origin (bounded.rs
\* and context.rs keep these four maps independently).
PartsCharged ==
  eavStatus = "reading" =>
    /\ DOMAIN pending = DOMAIN active_parts
    /\ \A p \in DOMAIN pending :
         /\ pending[p].tests = active_parts[p].tests
         /\ pending[p].tests = Len(Get(provenance, p, <<>>))
=============================================================================
