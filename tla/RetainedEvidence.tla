-------------------------- MODULE RetainedEvidence --------------------------
(***************************************************************************)
(* viewer/evidence.rs: evidence retained beside a dataset.  To retain is   *)
(* to index the source file of a snapshot's source again, to compare the   *)
(* rows with those of the catalog as multisets, and to rename the indexed  *)
(* directory to the name of its content.  To open is to do all of it again *)
(* from the retained bytes, and to read under the lock.                    *)
(*                                                                         *)
(* All of it happens under one lock of the operating system, which is only *)
(* tried, never waited for, and which a killed process gives up; what a    *)
(* killed process staged stays in the workspace, and counts.  A bundle, or *)
(* a directory that becomes one, is one unit of the workspace's disk.      *)
(***************************************************************************)
EXTENDS ViewerCache, SpillStore

CONSTANTS
  Catalog,       \* snapshot -> [complete, sources : source -> [file, rows]], rows as keys
  MeasuredRows,  \* body -> keys of the rows that indexing makes of it
  SpillLimits,   \* disk budgets a comparison may be left with
  DiskLimit      \* EvidenceLimits.disk_limit_mib, in units

ASSUME EvidenceAssumption ==
  /\ MeasuredRows \in [Body -> Seq(Key)]
  /\ \A snapshot \in DOMAIN Catalog : \A source \in DOMAIN Catalog[snapshot].sources :
       /\ Catalog[snapshot].sources[source].file \in File
       /\ Catalog[snapshot].sources[source].rows \in Seq(Key)
  /\ SpillLimits \subseteq Nat \ {0} /\ DiskLimit \in Nat

VARIABLES
  guard,      \* the process that holds .evidence.guard
  bundles,    \* published bundles: evidence id -> intact
  abandoned   \* staged directories left by killed processes

evidenceVars == <<guard, bundles, abandoned>>

SourcesIn(snapshot) == DOMAIN Catalog[snapshot].sources
EvidenceId ==
  {id \in [snapshot : DOMAIN Catalog, source : UNION {SourcesIn(s) : s \in DOMAIN Catalog},
           file : File, body : Body] : id.source \in SourcesIn(id.snapshot)}
CatalogSource(id) == Catalog[id.snapshot].sources[id.source]

Managed == Cardinality(DOMAIN bundles) + abandoned + Cardinality({p \in Proc : job[p].staged})
Room == Managed < DiskLimit

\* A command ends, well or not: its store, its stage and its lock are dropped in this order.
Return(p) ==
  /\ Leave(p)
  /\ guard' = IF guard = p THEN None ELSE guard
  /\ IF guard = p THEN SpillDrop ELSE UNCHANGED spillVars
  /\ UNCHANGED <<cacheVars, bundles, abandoned>>

(***************************************************************************)
(* retain.                                                                 *)
(***************************************************************************)
Retains(p) == Running(p) /\ job[p].cmd.op = "retain"
Asked(p) == CatalogSource(job[p].cmd)

StartRetain(p, snapshot, source) ==
  /\ ~Running(p)
  /\ job' = [job EXCEPT ![p] =
               [NoJob EXCEPT !.cmd = [op |-> "retain", snapshot |-> snapshot, source |-> source],
                             !.pc = "bind"]]
  /\ UNCHANGED <<cacheVars, spillVars, evidenceVars>>

BindSource(p) ==
  /\ At(p, "bind") /\ file = Asked(p).file
  /\ Go(p, "lock") /\ UNCHANGED <<cacheVars, spillVars, evidenceVars>>

\* Evidence is opened by name; a bundle that is not there fails before the lock.
Opening(p) == IF job[p].cmd.op = "verify" THEN job[p].cmd.id ELSE Head(job[p].left)
\* Mutant: the lock is not exclusive.
LocksShared(p) == ~Retains(p) => Opening(p) \in DOMAIN bundles
Locks(p) == guard = None /\ (~Retains(p) => Opening(p) \in DOMAIN bundles)

Acquire(p) ==
  /\ At(p, "lock") /\ Locks(p)
  /\ guard' = p /\ Go(p, IF Retains(p) THEN "room" ELSE "envelope")
  /\ UNCHANGED <<cacheVars, spillVars, bundles, abandoned>>

\* The stage is made and its budget is what the workspace has left; then prepare begins.
StageRetention(p) ==
  /\ At(p, "room") /\ Room
  /\ job' = [job EXCEPT ![p].staged = TRUE, ![p].pc = "hash"]
  /\ UNCHANGED <<cacheVars, spillVars, evidenceVars>>

\* Mutant: the index is taken whatever file it was made of.
BindAnyIndex(p) ==
  /\ At(p, "publish") /\ Retains(p)
  /\ job' = [job EXCEPT ![p].feed = Asked(p).rows, ![p].pc = "compare"]
  /\ UNCHANGED <<cacheVars, spillVars, evidenceVars>>

BindIndex(p) ==
  /\ At(p, "publish") /\ Retains(p) /\ job[p].hash = Asked(p).file
  /\ job' = [job EXCEPT ![p].feed = Asked(p).rows, ![p].pc = "compare"]
  /\ UNCHANGED <<cacheVars, spillVars, evidenceVars>>

\* compare_catalog: the catalog's rows and the native ones are digested one after the other.
OpenDigest(p) ==
  /\ At(p, "compare") /\ \E limit \in SpillLimits : SpillOpen(limit)
  /\ Go(p, "push") /\ UNCHANGED <<cacheVars, evidenceVars>>

PushRow(p) ==
  /\ At(p, "push") /\ job[p].feed # <<>> /\ SpillPush(Head(job[p].feed))
  /\ job' = [job EXCEPT ![p].feed = Tail(@)] /\ UNCHANGED <<cacheVars, evidenceVars>>

FinishRows(p) ==
  /\ At(p, "push") /\ job[p].feed = <<>> /\ SpillFinish
  /\ Go(p, "merge") /\ UNCHANGED <<cacheVars, evidenceVars>>

MergeRows(p) ==
  /\ At(p, "merge") /\ SpillMerge /\ UNCHANGED <<job, cacheVars, evidenceVars>>

\* Mutant: equal rows are digested once.
KeysSeen(records) == {records[i].key : i \in DOMAIN records}
KeysOf(records) == [i \in DOMAIN records |-> records[i].key]

FirstDigest(p) ==
  /\ At(p, "merge") /\ spill = "sorted" /\ job[p].digest = <<>> /\ SpillDrop
  /\ job' = [job EXCEPT ![p].digest = <<KeysOf(Replay)>>, ![p].feed = MeasuredRows[job[p].body],
                        ![p].pc = "compare"]
  /\ UNCHANGED <<cacheVars, evidenceVars>>

CompareDigests(p) ==
  /\ At(p, "merge") /\ spill = "sorted" /\ job[p].digest = <<KeysOf(Replay)>> /\ SpillDrop
  /\ job' = [job EXCEPT ![p].pc = "seal", ![p].digest = <<>>] /\ UNCHANGED <<cacheVars, evidenceVars>>

NewId(p) ==
  [snapshot |-> job[p].cmd.snapshot, source |-> job[p].cmd.source,
   file |-> job[p].hash, body |-> job[p].body]

SealBundle(p) ==
  /\ At(p, "seal") /\ NewId(p) \notin DOMAIN bundles /\ Managed <= DiskLimit
  /\ Go(p, "recheck") /\ UNCHANGED <<cacheVars, spillVars, evidenceVars>>

RecheckSource(p) ==
  /\ At(p, "recheck") /\ file = Asked(p).file
  /\ Go(p, "rename") /\ UNCHANGED <<cacheVars, spillVars, evidenceVars>>

PublishBundle(p) ==
  /\ At(p, "rename") /\ NewId(p) \notin DOMAIN bundles
  /\ bundles' = [id \in DOMAIN bundles \cup {NewId(p)} |-> IF id = NewId(p) THEN TRUE ELSE bundles[id]]
  /\ guard' = None /\ Leave(p)
  /\ UNCHANGED <<cacheVars, spillVars, abandoned>>

RetainStep(p) ==
  \/ BindSource(p) \/ Acquire(p) \/ StageRetention(p) \/ BindIndex(p)
  \/ OpenDigest(p) \/ PushRow(p) \/ FinishRows(p) \/ MergeRows(p) \/ FirstDigest(p)
  \/ CompareDigests(p) \/ SealBundle(p) \/ RecheckSource(p) \/ PublishBundle(p)

\* The checks that end a retention; an id that exists is returned if it is intact and
\* refused if it is not, and is left as it is.
RetentionRefused(p) ==
  \/ At(p, "bind") /\ file # Asked(p).file
  \/ At(p, "lock") /\ ~Locks(p)
  \/ At(p, "room") /\ ~Room
  \/ At(p, "rehash") /\ Retains(p) /\ file # job[p].hash
  \/ At(p, "publish") /\ Retains(p) /\ job[p].hash # Asked(p).file
  \/ At(p, "push") /\ IF job[p].feed = <<>> THEN ~CanFinish ELSE ~CanPush
  \/ At(p, "merge") /\ spill = "merging" /\ ~CanMerge
  \/ At(p, "merge") /\ spill = "sorted" /\ job[p].digest \notin {<<>>, <<KeysOf(Replay)>>}
  \/ At(p, "seal") /\ (NewId(p) \in DOMAIN bundles \/ Managed > DiskLimit)
  \/ At(p, "recheck") /\ file # Asked(p).file
  \/ At(p, "rename") /\ NewId(p) \in DOMAIN bundles

(***************************************************************************)
(* open_attempts.  Regeneration and comparison read bytes that are private *)
(* to the lock's holder, and are one step here.                            *)
(***************************************************************************)
StartVerify(p, id) ==
  /\ ~Running(p) /\ id \in DOMAIN bundles
  /\ job' = [job EXCEPT ![p] = [NoJob EXCEPT !.cmd = [op |-> "verify", id |-> id], !.pc = "lock"]]
  /\ UNCHANGED <<cacheVars, spillVars, evidenceVars>>

EnvelopeHolds(id) == bundles[id] /\ id.file = CatalogSource(id).file

CheckEnvelope(p) ==
  /\ At(p, "envelope") /\ EnvelopeHolds(Opening(p)) /\ Room
  /\ job' = [job EXCEPT ![p].staged = TRUE, ![p].pc = "regenerate"]
  /\ UNCHANGED <<cacheVars, spillVars, evidenceVars>>

SameRows(s, t) ==
  Len(s) = Len(t) /\ SortSeq(s, LAMBDA a, b : a < b) = SortSeq(t, LAMBDA a, b : a < b)

\* The lock lives on in the reader.
Regenerate(p) ==
  /\ At(p, "regenerate")
  /\ SameRows(MeasuredRows[Opening(p).body], CatalogSource(Opening(p)).rows)
  /\ job' = [job EXCEPT ![p].staged = FALSE, ![p].pc = "opened"]
  /\ UNCHANGED <<cacheVars, spillVars, evidenceVars>>

EndVerify(p) == At(p, "opened") /\ job[p].cmd.op = "verify" /\ Return(p)

OpenStep(p) == CheckEnvelope(p) \/ Regenerate(p) \/ EndVerify(p)

\* Mutant: evidence that fails its checks is read again until it passes them.
OpenRetried(p) ==
  /\ At(p, "regenerate")
  /\ ~SameRows(MeasuredRows[Opening(p).body], CatalogSource(Opening(p)).rows)

OpenRefused(p) ==
  \/ At(p, "envelope") /\ ~(EnvelopeHolds(Opening(p)) /\ Room)
  \/ At(p, "regenerate")
     /\ ~SameRows(MeasuredRows[Opening(p).body], CatalogSource(Opening(p)).rows)

\* A bundle is damaged while nobody reads it; a process that does is owed its bytes.
DamageBundle(id) ==
  /\ guard = None /\ id \in DOMAIN bundles /\ bundles[id]
  /\ bundles' = [bundles EXCEPT ![id] = FALSE]
  /\ UNCHANGED <<job, cacheVars, spillVars, guard, abandoned>>
=============================================================================
