----------------------------- MODULE SpillStore -----------------------------
(***************************************************************************)
(* The external sort of stdf-analytics: records pushed under opaque keys   *)
(* are kept in memory up to a budget, spilled as sorted runs, merged by a  *)
(* bounded number of runs at a time, and replayed in order.  The viewer    *)
(* uses it to compare two tables as multisets of rows.                     *)
(*                                                                         *)
(* Every record has the same size, one unit of memory and one of disk; a   *)
(* value is the record's place in the input, which the sort must keep      *)
(* among equal keys.  One store is open at a time.                         *)
(***************************************************************************)
EXTENDS Naturals, Sequences, SequencesExt, FiniteSetsExt

CONSTANTS
  Key,           \* keys, numbers so that they have an order
  MemoryRecords, \* Limits.memory_bytes, in records
  FanIn          \* Limits.merge_fan_in

ASSUME KeyAssumption == Key \subseteq Nat
\* SpillStore::new refuses other limits: memory must fit the merge fronts and one output.
ASSUME SpillAssumption == FanIn \in 2..64 /\ MemoryRecords \in Nat /\ MemoryRecords > FanIn

VARIABLES
  spill,      \* "none", "filling", "merging" or "sorted"
  chunk,      \* records in memory; its length is what is charged
  sequence,   \* records pushed
  spilled,    \* the run files that exist: run id -> records
  next_run,
  pass,       \* the merge pass: runs from..to-1 are merged, those before at already are
  disk,       \* bytes charged for run files
  disk_limit  \* Limits.disk_bytes of the open store

spillVars == <<spill, chunk, sequence, spilled, next_run, pass, disk, disk_limit>>

SpillRecord == [key : Key, sequence : Nat]
Before(a, b) == a.key < b.key \/ (a.key = b.key /\ a.sequence < b.sequence)
RecordsOf(s) == {s[i] : i \in DOMAIN s}
\* The records as a run: no two are equal, for each has a sequence of its own.
InOrder(records) ==
  [n \in 1 .. Cardinality(records) |->
     CHOOSE r \in records : Cardinality({q \in records : Before(q, r)}) = n - 1]
NoPass == [from |-> 0, to |-> 0, at |-> 0]

SpillInit ==
  /\ spill = "none" /\ chunk = <<>> /\ sequence = 0
  /\ spilled = <<>> /\ next_run = 0 /\ pass = NoPass
  /\ disk = 0 /\ disk_limit = 0

SpillOpen(limit) ==
  /\ spill = "none" /\ limit > 0
  /\ spill' = "filling" /\ disk_limit' = limit
  /\ UNCHANGED <<chunk, sequence, spilled, next_run, pass, disk>>

\* Dropping the store, or its replay, removes the workspace.
SpillDrop ==
  /\ spill' = "none" /\ chunk' = <<>> /\ sequence' = 0
  /\ spilled' = <<>> /\ next_run' = 0 /\ pass' = NoPass
  /\ disk' = 0 /\ disk_limit' = 0

Reserve(records) == disk + records <= disk_limit

\* The run file that a flush of the chunk writes, after those on disk.
Flushed ==
  [i \in DOMAIN spilled \cup {next_run} |-> IF i = next_run THEN InOrder(RecordsOf(chunk)) ELSE spilled[i]]

MustFlush == Len(chunk) >= MemoryRecords
\* Mutant: the run that a push flushes is not reserved.
CanPushAlways == spill = "filling"
CanPush == MustFlush => Reserve(Len(chunk))

SpillPush(key) ==
  /\ spill = "filling" /\ CanPush
  /\ LET record == [key |-> key, sequence |-> sequence]
     IN IF MustFlush
        THEN /\ spilled' = Flushed /\ next_run' = next_run + 1
             /\ disk' = disk + Len(chunk) /\ chunk' = <<record>>
        ELSE chunk' = Append(chunk, record) /\ UNCHANGED <<spilled, next_run, disk>>
  /\ sequence' = sequence + 1
  /\ UNCHANGED <<spill, pass, disk_limit>>

CanFinish == Reserve(Len(chunk))

SpillFinish ==
  /\ spill = "filling" /\ CanFinish
  /\ LET flushes == chunk # <<>>
     IN /\ spilled' = IF flushes THEN Flushed ELSE spilled
        /\ next_run' = IF flushes THEN next_run + 1 ELSE next_run
  /\ disk' = disk + Len(chunk) /\ chunk' = <<>>
  /\ pass' = [from |-> 0, to |-> next_run', at |-> 0]
  /\ spill' = IF next_run' > 1 THEN "merging" ELSE "sorted"
  /\ UNCHANGED <<sequence, disk_limit>>

\* The next group of a pass: up to FanIn runs from pass.at on.
Group == pass.at .. (IF pass.at + FanIn < pass.to THEN pass.at + FanIn ELSE pass.to) - 1
RunBytes == [i \in DOMAIN spilled |-> Len(spilled[i])]
GroupBytes == SumFunctionOnSet(RunBytes, Group)

\* Taking the least of the fronts again and again gives the runs, which are in order, as one.
Merged == InOrder(UNION {RecordsOf(spilled[i]) : i \in Group})

CanMerge == Reserve(GroupBytes)

\* The inputs and the output exist side by side until the inputs are removed.
SpillMerge ==
  /\ spill = "merging" /\ CanMerge
  /\ spilled' = [i \in (DOMAIN spilled \ Group) \cup {next_run} |->
                   IF i = next_run THEN Merged ELSE spilled[i]]
  /\ next_run' = next_run + 1
  /\ disk' = (disk + Len(spilled'[next_run])) - GroupBytes
  /\ LET after == pass.at + Cardinality(Group)
     IN IF after < pass.to
        THEN pass' = [pass EXCEPT !.at = after] /\ spill' = spill
        ELSE /\ pass' = [from |-> pass.to, to |-> next_run', at |-> pass.to]
             /\ spill' = IF next_run' - pass.to > 1 THEN "merging" ELSE "sorted"
  /\ UNCHANGED <<chunk, sequence, disk_limit>>

\* What the replay hands out.
Replay == IF pass.from < pass.to THEN spilled[pass.from] ELSE <<>>

SpillNext ==
  \/ \E limit \in Nat : SpillOpen(limit)
  \/ \E key \in Key : SpillPush(key)
  \/ SpillFinish \/ SpillMerge \/ SpillDrop

SpillSpec == SpillInit /\ [][SpillNext]_spillVars

-----------------------------------------------------------------------------
OnDisk == UNION {RecordsOf(spilled[i]) : i \in DOMAIN spilled}
Ordered(s) == \A i, j \in DOMAIN s : i < j => Before(s[i], s[j])

\* The disk charge is what the run files hold and never exceeds its limit, and memory
\* holds no more records than its budget: a charge given back twice, or not at all,
\* would let a long merge outgrow the disk, or refuse it with room to spare.
SpillAccounts ==
  /\ disk = SumFunction(RunBytes)
  /\ disk <= disk_limit
  /\ Len(chunk) <= MemoryRecords

\* No record is lost or repeated by flushing and merging, every run is in order, and
\* equal keys keep the order in which they were pushed.
SortLosesNothing ==
  /\ \A i \in DOMAIN spilled : Ordered(spilled[i])
  /\ {r.sequence : r \in OnDisk \cup RecordsOf(chunk)} = 0 .. sequence - 1
  /\ disk + Len(chunk) = sequence
  /\ spill = "sorted" => Len(Replay) = sequence
=============================================================================
