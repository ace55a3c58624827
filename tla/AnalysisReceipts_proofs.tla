----------------------- MODULE AnalysisReceipts_proofs ----------------------
(***************************************************************************)
(* Retained evidence is what it is named for, whatever the processes that  *)
(* share it do and wherever they are killed.                               *)
(*                                                                         *)
(* Each command's program counter tells whether it holds the lock (Guards) *)
(* and whether it has a stage (Stages); what it has read of the source is  *)
(* tied to the hash it took (SourceRead), and what it has pushed into its  *)
(* store to the rows it compares (RowsFed).                                *)
(*                                                                         *)
(* Analyses implement EvidenceArchive: the numbers that a reduction makes  *)
(* are those of sets of attempts, and what an analysis has added up so far *)
(* (AnalysisSound) are those of the pieces that it has been through.       *)
(***************************************************************************)
EXTENDS AnalysisReceipts, DataFacts

-----------------------------------------------------------------------------
(***************************************************************************)
(* The external sort loses, repeats and disorders nothing, and its charge  *)
(* for disk is right, whatever is pushed and however small its budgets.    *)
(***************************************************************************)

Below(R, r) == {q \in R : Before(q, r)}
\* A sequence belongs to one record.
Apart(R) == \A a, b \in R : a.sequence = b.sequence => a = b

LEMMA BeforeIsOrder ==
  ASSUME NEW a \in SpillRecord, NEW b \in SpillRecord
  PROVE  /\ ~Before(a, a)
         /\ ~(Before(a, b) /\ Before(b, a))
         /\ a.sequence # b.sequence => Before(a, b) \/ Before(b, a)
         /\ \A c \in SpillRecord : Before(a, b) /\ Before(b, c) => Before(a, c)
<1>1. a.key \in Nat /\ b.key \in Nat /\ \A c \in SpillRecord : c.key \in Nat /\ c.sequence \in Nat
  BY KeyAssumption DEF SpillRecord
<1> QED
  BY <1>1 DEF Before

LEMMA RankGrows ==
  ASSUME NEW R \in SUBSET SpillRecord, IsFiniteSet(R), NEW a \in R, NEW b \in R, Before(a, b)
  PROVE  /\ Cardinality(Below(R, a)) \in Nat /\ Cardinality(Below(R, b)) \in Nat
         /\ Cardinality(Below(R, a)) < Cardinality(Below(R, b))
<1>1. Below(R, a) \subseteq Below(R, b)
  BY BeforeIsOrder DEF Below
<1>2. a \in Below(R, b) /\ a \notin Below(R, a)
  BY BeforeIsOrder DEF Below
<1>3. IsFiniteSet(Below(R, b)) /\ IsFiniteSet(Below(R, a))
  BY FS_Subset DEF Below
<1>4. /\ Cardinality(Below(R, a)) \in Nat /\ Cardinality(Below(R, b)) \in Nat
  BY <1>3, FS_CardinalityType
<1>5. Cardinality(Below(R, a)) <= Cardinality(Below(R, b))
  BY <1>1, <1>3, FS_Subset
<1>6. Cardinality(Below(R, a)) # Cardinality(Below(R, b))
  BY <1>1, <1>2, <1>3, FS_Subset
<1> QED
  BY <1>4, <1>5, <1>6

LEMMA RanksAreAll ==
  ASSUME NEW R \in SUBSET SpillRecord, IsFiniteSet(R), Apart(R)
  PROVE  /\ Cardinality(R) \in Nat
         /\ \A n \in 1 .. Cardinality(R) : \E r \in R : Cardinality(Below(R, r)) = n - 1
<1> DEFINE size == Cardinality(R)
           rank == [r \in R |-> Cardinality(Below(R, r)) + 1]
           ranks == {rank[r] : r \in R}
<1>1. size \in Nat
  BY FS_CardinalityType
<1>2. ASSUME NEW r \in R PROVE rank[r] \in 1 .. size
  <2>1. Below(R, r) \subseteq R /\ r \notin Below(R, r)
    BY BeforeIsOrder DEF Below
  <2>2. /\ IsFiniteSet(Below(R, r)) /\ Cardinality(Below(R, r)) <= size
        /\ Cardinality(Below(R, r)) # size
    BY <2>1, FS_Subset
  <2>3. Cardinality(Below(R, r)) \in Nat
    BY <2>2, FS_CardinalityType
  <2> QED
    BY <1>1, <2>2, <2>3
<1>3. ASSUME NEW a \in R, NEW b \in R, rank[a] = rank[b] PROVE a = b
  <2> SUFFICES ASSUME a # b PROVE FALSE
    OBVIOUS
  <2>1. Before(a, b) \/ Before(b, a)
    BY BeforeIsOrder DEF Apart
  <2>2. Cardinality(Below(R, a)) # Cardinality(Below(R, b))
    BY <2>1, RankGrows
  <2>3. Cardinality(Below(R, a)) \in Nat /\ Cardinality(Below(R, b)) \in Nat
    BY <2>1, RankGrows
  <2> QED
    BY <1>3, <2>2, <2>3
<1>4. ExistsBijection(R, ranks)
  <2>1. rank \in Bijection(R, ranks)
    BY <1>3 DEF Bijection, Injection, Surjection, IsInjective
  <2> QED
    BY <2>1 DEF ExistsBijection
<1>5. ranks \subseteq 1 .. size
  BY <1>2
<1> HIDE DEF ranks, size
<1>6. Cardinality(ranks) = size
  BY <1>4, FS_Bijection DEF size
<1>7. IsFiniteSet(1 .. size) /\ Cardinality(1 .. size) = size
  <2>1. IsFiniteSet(1 .. size) /\ Cardinality(1 .. size) = IF 1 > size THEN 0 ELSE size - 1 + 1
    BY <1>1, FS_Interval
  <2> QED
    BY <1>1, <2>1
<1>8. ranks = 1 .. size
  BY <1>5, <1>6, <1>7, FS_Subset
<1>9. ASSUME NEW n \in 1 .. size PROVE \E r \in R : Cardinality(Below(R, r)) = n - 1
  <2>1. PICK r \in R : rank[r] = n
    BY <1>8 DEF ranks
  <2>2. IsFiniteSet(Below(R, r))
    BY FS_Subset DEF Below
  <2>3. Cardinality(Below(R, r)) \in Nat
    BY <2>2, FS_CardinalityType
  <2> QED
    BY <1>1, <2>1, <2>3
<1> QED
  BY <1>1, <1>9 DEF size

\* Records of different sequences are put in order, each in one place.
LEMMA InOrderSorts ==
  ASSUME NEW R \in SUBSET SpillRecord, IsFiniteSet(R), Apart(R)
  PROVE  /\ InOrder(R) \in Seq(SpillRecord) /\ Len(InOrder(R)) = Cardinality(R)
         /\ RecordsOf(InOrder(R)) = R /\ Ordered(InOrder(R))
<1> DEFINE s == InOrder(R)
<1>1. Cardinality(R) \in Nat
  BY FS_CardinalityType
<1>2. ASSUME NEW n \in 1 .. Cardinality(R)
      PROVE  s[n] \in R /\ Cardinality(Below(R, s[n])) = n - 1
  <2>1. s[n] = CHOOSE r \in R : Cardinality(Below(R, r)) = n - 1
    BY DEF InOrder, Below
  <2>2. \E r \in R : Cardinality(Below(R, r)) = n - 1
    BY RanksAreAll
  <2> QED
    BY <2>1, <2>2
<1>3. DOMAIN s = 1 .. Cardinality(R)
  BY DEF InOrder
<1>4. s \in Seq(SpillRecord) /\ Len(s) = Cardinality(R)
  <2> DEFINE v(n) == CHOOSE r \in R : Cardinality({q \in R : Before(q, r)}) = n - 1
  <2>1. s = [n \in 1 .. Cardinality(R) |-> v(n)]
    BY Zenon DEF InOrder
  <2>2. ASSUME NEW n \in 1 .. Cardinality(R) PROVE v(n) \in SpillRecord
    <3>1. s[n] = v(n)
      BY <2>1 DEF InOrder
    <3> QED
      BY <1>2, <3>1
  <2> HIDE DEF s, v
  <2> QED
    BY <1>1, <2>1, <2>2
<1> HIDE DEF s
<1>5. \A a, b \in R : Cardinality(Below(R, a)) = Cardinality(Below(R, b)) => a = b
  <2> SUFFICES ASSUME NEW a \in R, NEW b \in R, a # b,
                      Cardinality(Below(R, a)) = Cardinality(Below(R, b))
               PROVE  FALSE
    OBVIOUS
  <2>1. Before(a, b) \/ Before(b, a)
    BY BeforeIsOrder DEF Apart
  <2> QED
    BY <2>1, RankGrows
<1>6. R \subseteq RecordsOf(s)
  <2> SUFFICES ASSUME NEW r \in R PROVE r \in RecordsOf(s)
    OBVIOUS
  <2> DEFINE n == Cardinality(Below(R, r)) + 1
  <2>1. Below(R, r) \subseteq R /\ r \notin Below(R, r)
    BY BeforeIsOrder DEF Below
  <2>2. /\ IsFiniteSet(Below(R, r)) /\ Cardinality(Below(R, r)) <= Cardinality(R)
        /\ Cardinality(Below(R, r)) # Cardinality(R)
    BY <2>1, FS_Subset
  <2>3. Cardinality(Below(R, r)) \in Nat
    BY <2>2, FS_CardinalityType
  <2>4. n \in 1 .. Cardinality(R) /\ n - 1 = Cardinality(Below(R, r))
    BY <1>1, <2>2, <2>3
  <2> HIDE DEF n
  <2>5. s[n] = r
    BY <1>2, <1>5, <2>4
  <2> QED
    BY <1>3, <2>4, <2>5 DEF RecordsOf
<1>7. RecordsOf(s) \subseteq R
  BY <1>2, <1>3 DEF RecordsOf
<1>8. Ordered(s)
  <2> SUFFICES ASSUME NEW i \in 1 .. Cardinality(R), NEW j \in 1 .. Cardinality(R), i < j
               PROVE  Before(s[i], s[j])
    BY <1>3 DEF Ordered
  <2>1. /\ s[i] \in R /\ Cardinality(Below(R, s[i])) = i - 1
        /\ s[j] \in R /\ Cardinality(Below(R, s[j])) = j - 1
    BY <1>2
  <2>2. s[i] # s[j]
    BY <1>1, <2>1
  <2>3. Before(s[i], s[j]) \/ Before(s[j], s[i])
    BY <2>1, <2>2, BeforeIsOrder DEF Apart
  <2>4. ~Before(s[j], s[i])
    BY <1>1, <2>1, RankGrows
  <2> QED
    BY <2>3, <2>4
<1> QED
  BY <1>4, <1>6, <1>7, <1>8 DEF s

-----------------------------------------------------------------------------
(***************************************************************************)
(* The inductive invariant: which run files exist in each phase, and that  *)
(* they and the chunk hold the records pushed, each once and each run in   *)
(* order.                                                                  *)
(***************************************************************************)
Held == OnDisk \cup RecordsOf(chunk)

SpillTypes ==
  /\ spill \in {"none", "filling", "merging", "sorted"}
  /\ chunk \in Seq(SpillRecord) /\ sequence \in Nat /\ next_run \in Nat
  /\ pass \in [from : Nat, to : Nat, at : Nat]
  /\ disk \in Nat /\ disk_limit \in Nat
  /\ \A i \in DOMAIN spilled : spilled[i] \in Seq(SpillRecord)

RunsPresent ==
  /\ spill = "none" =>
       DOMAIN spilled = {} /\ chunk = <<>> /\ sequence = 0 /\ next_run = 0 /\ disk_limit = 0
  /\ spill = "filling" => DOMAIN spilled = 0 .. next_run - 1
  /\ spill = "merging" =>
       /\ chunk = <<>> /\ pass.at < pass.to /\ pass.to <= next_run
       /\ DOMAIN spilled = pass.at .. next_run - 1
  /\ spill = "sorted" =>
       /\ chunk = <<>> /\ pass.from <= pass.to /\ pass.to <= pass.from + 1
       /\ DOMAIN spilled = pass.from .. pass.to - 1

RunsSound ==
  /\ \A i \in DOMAIN spilled : Ordered(spilled[i]) /\ RecordsOf(spilled[i]) \cap RecordsOf(chunk) = {}
  /\ \A i, j \in DOMAIN spilled : i # j => RecordsOf(spilled[i]) \cap RecordsOf(spilled[j]) = {}
  /\ \A m, n \in DOMAIN chunk : chunk[m] = chunk[n] => m = n
  /\ Apart(Held)
  /\ {r.sequence : r \in Held} = 0 .. sequence - 1

Charged ==
  /\ disk = SumFunctionOnSet(RunBytes, DOMAIN spilled)
  /\ disk + Len(chunk) = sequence
  /\ disk <= disk_limit /\ Len(chunk) <= MemoryRecords

SpillInv == SpillTypes /\ RunsPresent /\ RunsSound /\ Charged

LEMMA RunsAreFinite ==
  ASSUME SpillInv
  PROVE  /\ IsFiniteSet(DOMAIN spilled) /\ DOMAIN spilled \subseteq Nat
         /\ RunBytes \in [DOMAIN spilled -> Nat]
<1>1. \A a, b \in Nat : IsFiniteSet(a .. b - 1) /\ a .. b - 1 \subseteq Nat
  BY FS_Interval
<1>2. CASE spill = "none"
  BY <1>2, FS_EmptySet DEF SpillInv, SpillTypes, RunsPresent, RunBytes
<1>3. CASE spill # "none"
  <2>1. \E a, b \in Nat : DOMAIN spilled = a .. b - 1
    <3>1. next_run \in Nat /\ pass.at \in Nat /\ pass.from \in Nat /\ pass.to \in Nat
      BY DEF SpillInv, SpillTypes
    <3> QED
      BY <1>3, <3>1 DEF SpillInv, SpillTypes, RunsPresent
  <2>2. \A i \in DOMAIN spilled : Len(spilled[i]) \in Nat
    BY DEF SpillInv, SpillTypes
  <2> QED
    BY <1>1, <2>1, <2>2 DEF RunBytes
<1> QED
  BY <1>2, <1>3

\* A run in order repeats no record.
LEMMA OrderedIsDistinct ==
  ASSUME NEW s \in Seq(SpillRecord), Ordered(s)
  PROVE  /\ IsFiniteSet(RecordsOf(s)) /\ Cardinality(RecordsOf(s)) = Len(s)
         /\ RecordsOf(s) \subseteq SpillRecord
<1>1. \A i, j \in DOMAIN s : s[i] = s[j] => i = j
  <2> SUFFICES ASSUME NEW i \in DOMAIN s, NEW j \in DOMAIN s, s[i] = s[j], i < j PROVE FALSE
    OBVIOUS
  <2>1. Before(s[i], s[j])
    BY DEF Ordered
  <2>2. s[i] \in SpillRecord
    OBVIOUS
  <2> QED
    BY <2>1, <2>2, BeforeIsOrder
<1> QED
  BY <1>1, DistinctSize DEF RecordsOf

LEMMA InvMeansSound ==
  ASSUME SpillInv
  PROVE  SpillAccounts /\ SortLosesNothing
<1>1. SpillAccounts
  BY DEF SpillInv, Charged, SpillAccounts, SumFunction, RunBytes
<1>2. spill = "sorted" => Len(Replay) = sequence
  <2> SUFFICES ASSUME spill = "sorted" PROVE Len(Replay) = sequence
    OBVIOUS
  <2>1. /\ chunk = <<>> /\ pass.from \in Nat /\ pass.to \in Nat
        /\ pass.from <= pass.to /\ pass.to <= pass.from + 1
        /\ DOMAIN spilled = pass.from .. pass.to - 1
    BY DEF SpillInv, SpillTypes, RunsPresent
  <2>2. sequence = SumFunctionOnSet(RunBytes, DOMAIN spilled)
    BY <2>1 DEF SpillInv, SpillTypes, Charged
  <2>3. CASE pass.from < pass.to
    <3>1. DOMAIN spilled = {pass.from} /\ pass.to = pass.from + 1
      BY <2>1, <2>3
    <3>2. IsFiniteSet(DOMAIN spilled) /\ \A i \in DOMAIN spilled : RunBytes[i] \in Nat
      BY RunsAreFinite
    <3>3. SumFunctionOnSet(RunBytes, DOMAIN spilled)
            = RunBytes[pass.from] + SumFunctionOnSet(RunBytes, DOMAIN spilled \ {pass.from})
      BY <3>1, <3>2, SumTake
    <3>4. SumFunctionOnSet(RunBytes, DOMAIN spilled \ {pass.from}) = 0
      BY <3>1, SumEmpty
    <3>5. RunBytes[pass.from] = Len(spilled[pass.from]) /\ RunBytes[pass.from] \in Nat
      BY <3>1, <3>2 DEF RunBytes
    <3> QED
      BY <2>2, <2>3, <3>3, <3>4, <3>5 DEF Replay
  <2>4. CASE ~(pass.from < pass.to)
    <3>1. DOMAIN spilled = {}
      BY <2>1, <2>4
    <3> QED
      BY <2>2, <2>4, <3>1, SumEmpty DEF Replay
  <2> QED
    BY <2>3, <2>4
<1>3. disk + Len(chunk) = sequence
  BY DEF SpillInv, Charged
<1>4. /\ \A i \in DOMAIN spilled : Ordered(spilled[i])
      /\ {r.sequence : r \in OnDisk \cup RecordsOf(chunk)} = 0 .. sequence - 1
  BY DEF SpillInv, RunsSound, Held
<1> QED
  BY <1>1, <1>2, <1>3, <1>4 DEF SortLosesNothing

\* What the next sequence is free for.
LEMMA SequenceIsFree ==
  ASSUME SpillInv
  PROVE  /\ Held \subseteq SpillRecord
         /\ \A r \in Held : r.sequence < sequence
<1>1. Held \subseteq SpillRecord
  BY DEF SpillInv, SpillTypes, Held, OnDisk, RecordsOf
<1>2. ASSUME NEW r \in Held PROVE r.sequence < sequence
  <2>1. r.sequence \in 0 .. sequence - 1
    BY DEF SpillInv, RunsSound
  <2>2. sequence \in Nat
    BY DEF SpillInv, SpillTypes
  <2> QED
    BY <2>1, <2>2
<1> QED
  BY <1>1, <1>2

\* The run of the chunk: what a flush adds to the disk.
LEMMA ChunkAsRun ==
  ASSUME SpillInv
  PROVE  LET run == InOrder(RecordsOf(chunk))
         IN /\ run \in Seq(SpillRecord) /\ Len(run) = Len(chunk)
            /\ RecordsOf(run) = RecordsOf(chunk) /\ Ordered(run)
<1>1. chunk \in Seq(SpillRecord) /\ \A m, n \in DOMAIN chunk : chunk[m] = chunk[n] => m = n
  BY DEF SpillInv, SpillTypes, RunsSound
<1>2. IsFiniteSet(RecordsOf(chunk)) /\ Cardinality(RecordsOf(chunk)) = Len(chunk)
  BY <1>1, DistinctSize DEF RecordsOf
<1>3. RecordsOf(chunk) \in SUBSET SpillRecord /\ Apart(RecordsOf(chunk))
  BY <1>1 DEF RecordsOf, SpillInv, RunsSound, Held, Apart
<1> QED
  BY <1>2, <1>3, InOrderSorts

LEMMA FlushAddsRun ==
  ASSUME SpillInv, spill = "filling", spilled' = Flushed
  PROVE  /\ DOMAIN spilled' = DOMAIN spilled \cup {next_run}
         /\ \A i \in DOMAIN spilled' : spilled'[i] \in Seq(SpillRecord) /\ Ordered(spilled'[i])
         /\ \A i, j \in DOMAIN spilled' :
              i # j => RecordsOf(spilled'[i]) \cap RecordsOf(spilled'[j]) = {}
         /\ OnDisk' = Held
         /\ SumFunctionOnSet(RunBytes', DOMAIN spilled') = disk + Len(chunk)
<1> DEFINE run == InOrder(RecordsOf(chunk))
<1>1. /\ run \in Seq(SpillRecord) /\ Len(run) = Len(chunk)
      /\ RecordsOf(run) = RecordsOf(chunk) /\ Ordered(run)
  BY ChunkAsRun
<1>2. /\ IsFiniteSet(DOMAIN spilled) /\ next_run \notin DOMAIN spilled
      /\ \A i \in DOMAIN spilled : RunBytes[i] \in Nat
  <2>1. next_run \in Nat /\ DOMAIN spilled = 0 .. next_run - 1
    BY DEF SpillInv, SpillTypes, RunsPresent
  <2> QED
    BY <2>1, RunsAreFinite
<1> HIDE DEF run
<1>3. /\ DOMAIN spilled' = DOMAIN spilled \cup {next_run}
      /\ spilled'[next_run] = run
      /\ \A i \in DOMAIN spilled : spilled'[i] = spilled[i]
  BY <1>2 DEF Flushed, run
<1>4. \A i \in DOMAIN spilled' : spilled'[i] \in Seq(SpillRecord) /\ Ordered(spilled'[i])
  BY <1>1, <1>3 DEF SpillInv, SpillTypes, RunsSound
<1>5. \A i, j \in DOMAIN spilled' :
        i # j => RecordsOf(spilled'[i]) \cap RecordsOf(spilled'[j]) = {}
  BY <1>1, <1>3 DEF SpillInv, RunsSound
<1>6. OnDisk' = Held
  <2>1. OnDisk' = UNION {RecordsOf(spilled'[i]) : i \in DOMAIN spilled'}
    BY DEF OnDisk, RecordsOf
  <2> QED
    BY <1>1, <1>3, <2>1 DEF OnDisk, Held
<1>7. SumFunctionOnSet(RunBytes', DOMAIN spilled') = disk + Len(chunk)
  <2>1. \A i \in DOMAIN spilled' : RunBytes'[i] = Len(spilled'[i]) /\ RunBytes'[i] \in Nat
    BY <1>4 DEF RunBytes
  <2>2. \A i \in DOMAIN spilled : RunBytes'[i] = RunBytes[i] /\ RunBytes[i] \in Nat
    BY <1>2, <1>3, <2>1 DEF RunBytes
  <2>3. RunBytes'[next_run] = Len(chunk) /\ RunBytes'[next_run] \in Nat
    BY <1>1, <1>3, <2>1
  <2>4. SumFunctionOnSet(RunBytes', DOMAIN spilled \cup {next_run})
          = SumFunctionOnSet(RunBytes, DOMAIN spilled) + RunBytes'[next_run]
    <3> DEFINE S == DOMAIN spilled  v == RunBytes'  w == RunBytes
    <3>1. IsFiniteSet(S) /\ next_run \notin S /\ v[next_run] \in Nat
      BY <1>2, <2>3
    <3>2. \A i \in S : v[i] = w[i] /\ w[i] \in Nat
      BY <2>2
    <3> HIDE DEF S, v, w
    <3>3. SumFunctionOnSet(v, S \cup {next_run}) = SumFunctionOnSet(w, S) + v[next_run]
      BY <3>1, <3>2, SumAdd
    <3> QED
      BY <3>3 DEF S, v, w
  <2>5. disk = SumFunctionOnSet(RunBytes, DOMAIN spilled)
    BY DEF SpillInv, Charged
  <2> QED
    BY <1>3, <2>3, <2>4, <2>5
<1> QED
  BY <1>3, <1>4, <1>5, <1>6, <1>7

\* The group of a pass: the runs from pass.at up to the first that stays.
LEMMA GroupIsNext ==
  ASSUME SpillInv, spill = "merging"
  PROVE  \E after \in Nat :
           /\ Group = pass.at .. after - 1 /\ pass.at < after /\ after <= pass.to
           /\ Cardinality(Group) = after - pass.at /\ IsFiniteSet(Group)
           /\ Group \subseteq DOMAIN spilled /\ next_run \notin DOMAIN spilled
           /\ DOMAIN spilled \ Group = after .. next_run - 1
<1>1. /\ pass.at \in Nat /\ pass.to \in Nat /\ next_run \in Nat
      /\ pass.at < pass.to /\ pass.to <= next_run /\ DOMAIN spilled = pass.at .. next_run - 1
  BY DEF SpillInv, SpillTypes, RunsPresent
<1>2. FanIn \in Nat /\ FanIn >= 2
  BY SpillAssumption
<1> DEFINE after == IF pass.at + FanIn < pass.to THEN pass.at + FanIn ELSE pass.to
<1>3. Group = pass.at .. after - 1
  BY DEF Group
<1>4. after \in Nat /\ pass.at < after /\ after <= pass.to
  BY <1>1, <1>2
<1> HIDE DEF after
<1>5. IsFiniteSet(Group) /\ Cardinality(Group) = after - pass.at
  <2>1. pass.at \in Int /\ after - 1 \in Int /\ ~(pass.at > after - 1)
    BY <1>1, <1>4
  <2>2. \A last \in Int : ~(pass.at > last) =>
          /\ IsFiniteSet(pass.at .. last) /\ Cardinality(pass.at .. last) = last - pass.at + 1
    BY <2>1, FS_Interval
  <2>3. IsFiniteSet(pass.at .. after - 1) /\ Cardinality(pass.at .. after - 1) = after - 1 - pass.at + 1
    BY <2>1, <2>2
  <2> QED
    BY <1>1, <1>3, <1>4, <2>3
<1> QED
  BY <1>1, <1>3, <1>4, <1>5

\* Merging a group puts its records into one run, and the charge follows.
LEMMA MergeKeepsRecords ==
  ASSUME SpillInv, spill = "merging",
         spilled' = [i \in (DOMAIN spilled \ Group) \cup {next_run} |->
                       IF i = next_run THEN Merged ELSE spilled[i]]
  PROVE  /\ DOMAIN spilled' = (DOMAIN spilled \ Group) \cup {next_run}
         /\ \A i \in DOMAIN spilled' : spilled'[i] \in Seq(SpillRecord) /\ Ordered(spilled'[i])
         /\ \A i, j \in DOMAIN spilled' :
              i # j => RecordsOf(spilled'[i]) \cap RecordsOf(spilled'[j]) = {}
         /\ OnDisk' = OnDisk
         /\ Len(spilled'[next_run]) = GroupBytes
         /\ SumFunctionOnSet(RunBytes', DOMAIN spilled') = disk
<1> DEFINE rest == DOMAIN spilled \ Group
           records == [i \in DOMAIN spilled |-> RecordsOf(spilled[i])]
           all == UNION {RecordsOf(spilled[i]) : i \in Group}
<1>1. /\ IsFiniteSet(Group) /\ Group \subseteq DOMAIN spilled /\ next_run \notin DOMAIN spilled
      /\ IsFiniteSet(DOMAIN spilled) /\ \A i \in DOMAIN spilled : RunBytes[i] \in Nat
  BY GroupIsNext, RunsAreFinite
<1>2. /\ \A i \in DOMAIN spilled : spilled[i] \in Seq(SpillRecord) /\ Ordered(spilled[i])
      /\ \A i, j \in DOMAIN spilled : i # j => RecordsOf(spilled[i]) \cap RecordsOf(spilled[j]) = {}
  BY DEF SpillInv, SpillTypes, RunsSound
<1>3. \A i \in Group : /\ IsFiniteSet(records[i]) /\ RunBytes[i] = Cardinality(records[i])
                       /\ records[i] \subseteq SpillRecord
  BY <1>1, <1>2, OrderedIsDistinct DEF RunBytes
<1>4. IsFiniteSet(all) /\ Cardinality(all) = GroupBytes
  <2> DEFINE w == RunBytes  S == Group
  <2>1. IsFiniteSet(S) /\ \A i \in S : IsFiniteSet(records[i]) /\ w[i] = Cardinality(records[i])
    BY <1>1, <1>3
  <2>2. Disjoint(records, S)
    BY <1>1, <1>2 DEF Disjoint
  <2>3. \A r : r \in all <=> \E i \in S : r \in records[i]
    BY <1>1
  <2> HIDE DEF records, w, S, all
  <2>4. IsFiniteSet(all) /\ Cardinality(all) = SumFunctionOnSet(w, S)
    BY <2>1, <2>2, <2>3, SumOfSizes
  <2> QED
    BY <2>4 DEF w, S, GroupBytes
<1>5. all \in SUBSET SpillRecord /\ Apart(all)
  <2>1. all \subseteq Held
    BY <1>1 DEF Held, OnDisk
  <2>2. Held \subseteq SpillRecord /\ Apart(Held)
    BY SequenceIsFree DEF SpillInv, RunsSound
  <2> QED
    BY <2>1, <2>2 DEF Apart
<1>6. /\ Merged \in Seq(SpillRecord) /\ Len(Merged) = GroupBytes
      /\ RecordsOf(Merged) = all /\ Ordered(Merged)
  BY <1>4, <1>5, InOrderSorts DEF Merged
<1>7. /\ DOMAIN spilled' = rest \cup {next_run}
      /\ spilled'[next_run] = Merged
      /\ \A i \in rest : spilled'[i] = spilled[i]
  BY <1>1
<1>8. \A i \in DOMAIN spilled' : spilled'[i] \in Seq(SpillRecord) /\ Ordered(spilled'[i])
  BY <1>2, <1>6, <1>7
<1>9. \A i \in rest : RecordsOf(spilled[i]) \cap all = {}
  BY <1>1, <1>2
<1>10. \A i, j \in DOMAIN spilled' :
         i # j => RecordsOf(spilled'[i]) \cap RecordsOf(spilled'[j]) = {}
  <2> HIDE DEF all
  <2> SUFFICES ASSUME NEW i \in DOMAIN spilled', NEW j \in DOMAIN spilled', i # j
               PROVE  RecordsOf(spilled'[i]) \cap RecordsOf(spilled'[j]) = {}
    OBVIOUS
  <2> QED
    BY <1>2, <1>6, <1>7, <1>9
<1>11. OnDisk' = OnDisk
  <2>1. OnDisk' = UNION {RecordsOf(spilled'[i]) : i \in DOMAIN spilled'}
    BY DEF OnDisk, RecordsOf
  <2>2. \A i \in DOMAIN spilled' : RecordsOf(spilled'[i]) \subseteq OnDisk
    BY <1>1, <1>6, <1>7 DEF OnDisk
  <2>3. ASSUME NEW i \in DOMAIN spilled
        PROVE  \E k \in DOMAIN spilled' : RecordsOf(spilled[i]) \subseteq RecordsOf(spilled'[k])
    BY <1>6, <1>7
  <2>4. OnDisk' \subseteq OnDisk
    BY <2>1, <2>2
  <2>5. OnDisk \subseteq OnDisk'
    <3> SUFFICES ASSUME NEW i \in DOMAIN spilled PROVE RecordsOf(spilled[i]) \subseteq OnDisk'
      BY DEF OnDisk
    <3>1. PICK k \in DOMAIN spilled' : RecordsOf(spilled[i]) \subseteq RecordsOf(spilled'[k])
      BY <2>3
    <3>2. RecordsOf(spilled'[k]) \subseteq OnDisk'
      BY <2>1
    <3> QED
      BY <3>1, <3>2
  <2> QED
    BY <2>4, <2>5
<1>12. SumFunctionOnSet(RunBytes', DOMAIN spilled') = disk
  <2>1. IsFiniteSet(rest) /\ next_run \notin rest /\ rest \subseteq DOMAIN spilled
    BY <1>1, FS_Subset
  <2>2. \A i \in DOMAIN spilled' : RunBytes'[i] = Len(spilled'[i]) /\ RunBytes'[i] \in Nat
    BY <1>8 DEF RunBytes
  <2>3. \A i \in rest : RunBytes'[i] = RunBytes[i] /\ RunBytes[i] \in Nat
    BY <1>1, <1>7, <2>2 DEF RunBytes
  <2>4. RunBytes'[next_run] = GroupBytes /\ RunBytes'[next_run] \in Nat
    BY <1>6, <1>7, <2>2
  <2>5. SumFunctionOnSet(RunBytes', rest \cup {next_run})
          = SumFunctionOnSet(RunBytes, rest) + RunBytes'[next_run]
    BY <2>1, <2>3, <2>4, SumAdd
  <2>6. SumFunctionOnSet(RunBytes, Group \cup rest)
          = SumFunctionOnSet(RunBytes, Group) + SumFunctionOnSet(RunBytes, rest)
    BY <1>1, <2>1, SumSplit
  <2>7. Group \cup rest = DOMAIN spilled
    BY <1>1
  <2>8. disk = SumFunctionOnSet(RunBytes, DOMAIN spilled)
    BY DEF SpillInv, Charged
  <2>9. SumFunctionOnSet(RunBytes, rest) \in Nat
    BY <2>1, <2>3, SumNat
  <2>10. SumFunctionOnSet(RunBytes, Group) \in Nat
    BY <1>1, SumNat
  <2>11. disk = GroupBytes + SumFunctionOnSet(RunBytes, rest)
    BY <2>6, <2>7, <2>8 DEF GroupBytes
  <2>12. SumFunctionOnSet(RunBytes', DOMAIN spilled')
           = SumFunctionOnSet(RunBytes, rest) + GroupBytes
    BY <1>7, <2>4, <2>5
  <2> QED
    BY <2>9, <2>10, <2>11, <2>12 DEF GroupBytes
<1> QED
  BY <1>6, <1>7, <1>8, <1>10, <1>11, <1>12

-----------------------------------------------------------------------------
LEMMA SpillInitHolds ==
  ASSUME SpillInit
  PROVE  SpillInv
<1>1. DOMAIN spilled = {} /\ chunk \in Seq(SpillRecord) /\ Len(chunk) = 0 /\ RecordsOf(chunk) = {}
  BY DEF SpillInit, RecordsOf
<1>2. Held = {}
  BY <1>1 DEF Held, OnDisk
<1>3. SumFunctionOnSet(RunBytes, DOMAIN spilled) = 0
  BY <1>1, SumEmpty
<1> QED
  BY <1>1, <1>2, <1>3, SpillAssumption
  DEF SpillInit, SpillInv, SpillTypes, RunsPresent, RunsSound, Charged, Apart, NoPass

LEMMA SpillDropHolds ==
  ASSUME SpillDrop
  PROVE  SpillInv'
<1>1. SpillInit'
  BY DEF SpillDrop, SpillInit
<1> QED
  BY <1>1, SpillInitHolds, PTL

LEMMA SpillStutterHolds ==
  ASSUME SpillInv, UNCHANGED spillVars
  PROVE  SpillInv' /\ Held' = Held
<1>1. /\ spill' = spill /\ chunk' = chunk /\ sequence' = sequence /\ spilled' = spilled
      /\ next_run' = next_run /\ pass' = pass /\ disk' = disk /\ disk_limit' = disk_limit
  BY DEF spillVars
<1>2. Held' = Held /\ RunBytes' = RunBytes
  BY <1>1 DEF Held, OnDisk, RecordsOf, RunBytes
<1>3. SpillTypes' /\ RunsPresent' /\ Charged'
  BY <1>1, <1>2 DEF SpillInv, SpillTypes, RunsPresent, Charged
<1>4. RunsSound'
  BY <1>1, <1>2 DEF SpillInv, RunsSound
<1> QED
  BY <1>2, <1>3, <1>4 DEF SpillInv

LEMMA SpillOpenHolds ==
  ASSUME SpillInv, NEW limit \in Nat, SpillOpen(limit)
  PROVE  SpillInv' /\ Held' = Held
<1>1. /\ spill = "none" /\ spill' = "filling" /\ chunk' = chunk /\ sequence' = sequence
      /\ spilled' = spilled /\ next_run' = next_run /\ pass' = pass /\ disk' = disk
      /\ disk_limit' = limit
  BY DEF SpillOpen
<1>2. Held' = Held /\ RunBytes' = RunBytes
  BY <1>1 DEF Held, OnDisk, RecordsOf, RunBytes
<1>3. SpillTypes' /\ RunsPresent'
  BY <1>1 DEF SpillInv, SpillTypes, RunsPresent
<1>4. RunsSound'
  BY <1>1, <1>2 DEF SpillInv, RunsSound
<1>5. disk_limit = 0 /\ disk <= disk_limit /\ disk \in Nat
  BY <1>1 DEF SpillInv, SpillTypes, RunsPresent, Charged
<1>6. Charged'
  BY <1>1, <1>2, <1>5 DEF SpillInv, Charged
<1> QED
  BY <1>2, <1>3, <1>4, <1>6 DEF SpillInv

\* A push adds one record, whose sequence no other has.
LEMMA OneRecordMore ==
  ASSUME SpillInv, NEW key \in Key, sequence' = sequence + 1,
         Held' = Held \cup {[key |-> key, sequence |-> sequence]}
  PROVE  Apart(Held') /\ {r.sequence : r \in Held'} = 0 .. sequence' - 1
<1> DEFINE record == [key |-> key, sequence |-> sequence]
<1>1. sequence \in Nat /\ \A r \in Held : r.sequence < sequence /\ r.sequence \in Nat
  BY SequenceIsFree DEF SpillInv, SpillTypes, SpillRecord
<1>2. Apart(Held) /\ {r.sequence : r \in Held} = 0 .. sequence - 1
  BY DEF SpillInv, RunsSound
<1>3. record.sequence = sequence
  OBVIOUS
<1> HIDE DEF record
<1>4. Held' = Held \cup {record}
  BY DEF record
<1>5. Apart(Held')
  BY <1>1, <1>2, <1>3, <1>4 DEF Apart
<1>6. {r.sequence : r \in Held'} = {r.sequence : r \in Held} \cup {sequence}
  BY <1>3, <1>4
<1>7. 0 .. sequence' - 1 = (0 .. sequence - 1) \cup {sequence}
  BY <1>1
<1> QED
  BY <1>2, <1>5, <1>6, <1>7

LEMMA PushFlushHolds ==
  ASSUME SpillInv, NEW key \in Key, SpillPush(key), MustFlush
  PROVE  SpillInv' /\ Held' = Held \cup {[key |-> key, sequence |-> sequence]}
<1> DEFINE record == [key |-> key, sequence |-> sequence]
<1>1. /\ spill = "filling" /\ Reserve(Len(chunk)) /\ spilled' = Flushed
      /\ next_run' = next_run + 1 /\ disk' = disk + Len(chunk) /\ chunk' = <<record>>
      /\ sequence' = sequence + 1 /\ spill' = spill /\ pass' = pass /\ disk_limit' = disk_limit
  BY DEF SpillPush, CanPush
<1>2. /\ DOMAIN spilled' = DOMAIN spilled \cup {next_run}
      /\ \A i \in DOMAIN spilled' : spilled'[i] \in Seq(SpillRecord) /\ Ordered(spilled'[i])
      /\ \A i, j \in DOMAIN spilled' :
           i # j => RecordsOf(spilled'[i]) \cap RecordsOf(spilled'[j]) = {}
      /\ OnDisk' = Held
      /\ SumFunctionOnSet(RunBytes', DOMAIN spilled') = disk + Len(chunk)
  BY <1>1, FlushAddsRun
<1>3. /\ sequence \in Nat /\ next_run \in Nat /\ disk \in Nat /\ disk_limit \in Nat
      /\ pass \in [from : Nat, to : Nat, at : Nat] /\ Len(chunk) \in Nat
      /\ DOMAIN spilled = 0 .. next_run - 1
  BY <1>1 DEF SpillInv, SpillTypes, RunsPresent
<1>4. record \in SpillRecord
  BY <1>3 DEF SpillRecord
<1>5. record \notin Held
  <2>1. record.sequence = sequence
    OBVIOUS
  <2> HIDE DEF record
  <2> QED
    BY <1>3, <2>1, SequenceIsFree
<1> HIDE DEF record
<1>6. chunk' \in Seq(SpillRecord) /\ Len(chunk') = 1 /\ RecordsOf(chunk') = {record}
      /\ \A m, n \in DOMAIN chunk' : chunk'[m] = chunk'[n] => m = n
  BY <1>1, <1>4 DEF RecordsOf
<1>7. Held' = Held \cup {record}
  <2>1. Held' = OnDisk' \cup RecordsOf(chunk')
    BY DEF Held, RecordsOf
  <2> QED
    BY <1>2, <1>6, <2>1
<1>8. SpillTypes'
  BY <1>1, <1>2, <1>3, <1>6 DEF SpillInv, SpillTypes
<1>9. RunsPresent'
  <2>1. DOMAIN spilled' = 0 .. next_run' - 1
    BY <1>1, <1>2, <1>3
  <2> QED
    BY <1>1, <2>1 DEF RunsPresent
<1>10. RunsSound'
  <2>1. OnDisk' = UNION {RecordsOf(spilled'[i]) : i \in DOMAIN spilled'}
    BY DEF OnDisk, RecordsOf
  <2>2. \A i \in DOMAIN spilled' : RecordsOf(spilled'[i]) \cap RecordsOf(chunk') = {}
    BY <1>2, <1>5, <1>6, <2>1
  <2>3. Apart(Held') /\ {r.sequence : r \in Held'} = 0 .. sequence' - 1
    BY <1>1, <1>7, OneRecordMore DEF record
  <2> QED
    BY <1>2, <1>6, <2>2, <2>3 DEF RunsSound, RecordsOf
<1>11. Charged'
  <2>1. disk + Len(chunk) = sequence
    BY DEF SpillInv, Charged
  <2>2. disk' = SumFunctionOnSet(RunBytes', DOMAIN spilled')
    BY <1>1, <1>2
  <2>3. disk' + Len(chunk') = sequence' /\ disk' <= disk_limit' /\ Len(chunk') <= MemoryRecords
    BY <1>1, <1>3, <1>6, <2>1, SpillAssumption DEF Reserve
  <2> QED
    BY <2>2, <2>3 DEF Charged
<1> QED
  BY <1>7, <1>8, <1>9, <1>10, <1>11 DEF SpillInv, record

LEMMA PushKeepHolds ==
  ASSUME SpillInv, NEW key \in Key, SpillPush(key), ~MustFlush
  PROVE  SpillInv' /\ Held' = Held \cup {[key |-> key, sequence |-> sequence]}
<1> DEFINE record == [key |-> key, sequence |-> sequence]
<1>1. /\ spill = "filling" /\ spilled' = spilled /\ next_run' = next_run /\ disk' = disk
      /\ chunk' = Append(chunk, record)
      /\ sequence' = sequence + 1 /\ spill' = spill /\ pass' = pass /\ disk_limit' = disk_limit
  BY DEF SpillPush
<1>2. /\ sequence \in Nat /\ next_run \in Nat /\ disk \in Nat /\ disk_limit \in Nat
      /\ pass \in [from : Nat, to : Nat, at : Nat]
      /\ chunk \in Seq(SpillRecord) /\ Len(chunk) < MemoryRecords
      /\ \A m, n \in DOMAIN chunk : chunk[m] = chunk[n] => m = n
  BY SpillAssumption DEF SpillInv, SpillTypes, MustFlush, RunsSound
<1>3. record \in SpillRecord
  BY <1>2 DEF SpillRecord
<1>4. record \notin Held
  <2>1. record.sequence = sequence
    OBVIOUS
  <2> HIDE DEF record
  <2> QED
    BY <1>2, <2>1, SequenceIsFree
<1> HIDE DEF record
<1>5. /\ chunk' \in Seq(SpillRecord) /\ Len(chunk') = Len(chunk) + 1
      /\ DOMAIN chunk' = DOMAIN chunk \cup {Len(chunk) + 1}
      /\ chunk'[Len(chunk) + 1] = record
      /\ \A n \in DOMAIN chunk : chunk'[n] = chunk[n] /\ n # Len(chunk) + 1
  BY <1>1, <1>2, <1>3
<1>6. RecordsOf(chunk') = RecordsOf(chunk) \cup {record}
  BY <1>5 DEF RecordsOf
<1>7. \A m, n \in DOMAIN chunk' : chunk'[m] = chunk'[n] => m = n
  <2>1. \A n \in DOMAIN chunk : chunk[n] # record
    BY <1>4 DEF Held, RecordsOf
  <2> QED
    BY <1>2, <1>5, <2>1
<1>8. Held' = Held \cup {record}
  <2>1. Held' = OnDisk \cup RecordsOf(chunk')
    BY <1>1 DEF Held, OnDisk, RecordsOf
  <2> QED
    BY <1>6, <2>1 DEF Held
<1>9. SpillTypes' /\ RunsPresent'
  BY <1>1, <1>2, <1>5 DEF SpillInv, SpillTypes, RunsPresent
<1>10. RunsSound'
  <2>1. \A i \in DOMAIN spilled : RecordsOf(spilled[i]) \cap RecordsOf(chunk') = {}
    <3>1. \A i \in DOMAIN spilled : /\ RecordsOf(spilled[i]) \cap RecordsOf(chunk) = {}
                                    /\ record \notin RecordsOf(spilled[i])
      BY <1>4 DEF SpillInv, RunsSound, Held, OnDisk
    <3> QED
      BY <1>6, <3>1
  <2>2. Apart(Held') /\ {r.sequence : r \in Held'} = 0 .. sequence' - 1
    BY <1>1, <1>8, OneRecordMore DEF record
  <2>3. /\ \A i \in DOMAIN spilled : Ordered(spilled[i])
        /\ \A i, j \in DOMAIN spilled : i # j => RecordsOf(spilled[i]) \cap RecordsOf(spilled[j]) = {}
    BY DEF SpillInv, RunsSound
  <2>4. /\ \A i \in DOMAIN spilled' : /\ Ordered(spilled'[i])
                                     /\ RecordsOf(spilled'[i]) \cap RecordsOf(chunk') = {}
        /\ \A i, j \in DOMAIN spilled' :
             i # j => RecordsOf(spilled'[i]) \cap RecordsOf(spilled'[j]) = {}
    BY <1>1, <2>1, <2>3
  <2> QED
    BY <1>7, <2>2, <2>4 DEF RunsSound, RecordsOf
<1>11. Charged'
  <2>1. RunBytes' = RunBytes
    BY <1>1 DEF RunBytes
  <2>2. /\ disk = SumFunctionOnSet(RunBytes, DOMAIN spilled) /\ disk <= disk_limit
        /\ disk + Len(chunk) = sequence
    BY DEF SpillInv, Charged
  <2>3. disk' = SumFunctionOnSet(RunBytes', DOMAIN spilled')
    BY <1>1, <2>1, <2>2
  <2>4. disk' + Len(chunk') = sequence' /\ disk' <= disk_limit' /\ Len(chunk') <= MemoryRecords
    <3>1. Len(chunk) \in Nat /\ MemoryRecords \in Nat /\ Len(chunk') = Len(chunk) + 1
      BY <1>2, <1>5, SpillAssumption
    <3>2. disk' + Len(chunk') = sequence' /\ Len(chunk') <= MemoryRecords
      BY <1>1, <1>2, <2>2, <3>1
    <3> QED
      BY <1>1, <2>2, <3>2
  <2> QED
    BY <2>3, <2>4 DEF Charged
<1> QED
  BY <1>8, <1>9, <1>10, <1>11 DEF SpillInv, record

LEMMA FinishHolds ==
  ASSUME SpillInv, SpillFinish
  PROVE  SpillInv' /\ Held' = Held
<1>1. /\ spill = "filling" /\ Reserve(Len(chunk)) /\ disk' = disk + Len(chunk) /\ chunk' = <<>>
      /\ pass' = [from |-> 0, to |-> next_run', at |-> 0]
      /\ spill' = IF next_run' > 1 THEN "merging" ELSE "sorted"
      /\ sequence' = sequence /\ disk_limit' = disk_limit
      /\ chunk # <<>> => spilled' = Flushed /\ next_run' = next_run + 1
      /\ chunk = <<>> => spilled' = spilled /\ next_run' = next_run
  BY DEF SpillFinish, CanFinish
<1>2. /\ sequence \in Nat /\ next_run \in Nat /\ disk \in Nat /\ disk_limit \in Nat
      /\ chunk \in Seq(SpillRecord) /\ DOMAIN spilled = 0 .. next_run - 1
      /\ disk = SumFunctionOnSet(RunBytes, DOMAIN spilled)
      /\ disk + Len(chunk) = sequence
  BY <1>1 DEF SpillInv, SpillTypes, RunsPresent, Charged
<1>3. chunk' \in Seq(SpillRecord) /\ Len(chunk') = 0 /\ RecordsOf(chunk') = {} /\ DOMAIN chunk' = {}
  BY <1>1 DEF RecordsOf
<1>4. /\ next_run' \in Nat /\ DOMAIN spilled' = 0 .. next_run' - 1
      /\ \A i \in DOMAIN spilled' : spilled'[i] \in Seq(SpillRecord) /\ Ordered(spilled'[i])
      /\ \A i, j \in DOMAIN spilled' :
           i # j => RecordsOf(spilled'[i]) \cap RecordsOf(spilled'[j]) = {}
      /\ OnDisk' = Held
      /\ SumFunctionOnSet(RunBytes', DOMAIN spilled') = disk + Len(chunk)
  <2>1. CASE chunk # <<>>
    <3>1. spilled' = Flushed /\ next_run' = next_run + 1
      BY <1>1, <2>1
    <3>2. /\ DOMAIN spilled' = DOMAIN spilled \cup {next_run}
          /\ \A i \in DOMAIN spilled' : spilled'[i] \in Seq(SpillRecord) /\ Ordered(spilled'[i])
          /\ \A i, j \in DOMAIN spilled' :
               i # j => RecordsOf(spilled'[i]) \cap RecordsOf(spilled'[j]) = {}
          /\ OnDisk' = Held
          /\ SumFunctionOnSet(RunBytes', DOMAIN spilled') = disk + Len(chunk)
      BY <1>1, <3>1, FlushAddsRun
    <3>3. DOMAIN spilled' = 0 .. next_run' - 1 /\ next_run' \in Nat
      BY <1>2, <3>1, <3>2
    <3> QED
      BY <3>2, <3>3
  <2>2. CASE chunk = <<>>
    <3>1. spilled' = spilled /\ next_run' = next_run
      BY <1>1, <2>2
    <3>2. RunBytes' = RunBytes /\ OnDisk' = OnDisk
      BY <3>1 DEF RunBytes, OnDisk, RecordsOf
    <3>3. Held = OnDisk
      BY <2>2 DEF Held, RecordsOf
    <3>4. SumFunctionOnSet(RunBytes', DOMAIN spilled') = disk + Len(chunk)
      BY <1>2, <2>2, <3>1, <3>2
    <3>5. /\ \A i \in DOMAIN spilled : spilled[i] \in Seq(SpillRecord) /\ Ordered(spilled[i])
          /\ \A i, j \in DOMAIN spilled :
               i # j => RecordsOf(spilled[i]) \cap RecordsOf(spilled[j]) = {}
      BY DEF SpillInv, SpillTypes, RunsSound
    <3> QED
      BY <1>2, <3>1, <3>2, <3>3, <3>4, <3>5
  <2> QED
    BY <2>1, <2>2
<1>5. Held' = Held
  <2>1. Held' = OnDisk' \cup RecordsOf(chunk')
    BY DEF Held, RecordsOf
  <2> QED
    BY <1>3, <1>4, <2>1
<1>6. SpillTypes'
  BY <1>1, <1>2, <1>3, <1>4 DEF SpillTypes
<1>7. RunsPresent'
  BY <1>1, <1>4 DEF RunsPresent
<1>8. RunsSound'
  <2>1. Apart(Held') /\ {r.sequence : r \in Held'} = 0 .. sequence' - 1
    BY <1>1, <1>5 DEF SpillInv, RunsSound
  <2>2. /\ \A i \in DOMAIN spilled' : /\ Ordered(spilled'[i])
                                     /\ RecordsOf(spilled'[i]) \cap RecordsOf(chunk') = {}
        /\ \A m, n \in DOMAIN chunk' : chunk'[m] = chunk'[n] => m = n
    BY <1>3, <1>4
  <2> QED
    BY <1>4, <2>1, <2>2 DEF RunsSound, RecordsOf
<1>9. Charged'
  <2>1. disk' = SumFunctionOnSet(RunBytes', DOMAIN spilled')
    BY <1>1, <1>4
  <2>2. disk' + Len(chunk') = sequence' /\ disk' <= disk_limit' /\ Len(chunk') <= MemoryRecords
    BY <1>1, <1>2, <1>3, SpillAssumption DEF Reserve
  <2> QED
    BY <2>1, <2>2 DEF Charged
<1> QED
  BY <1>5, <1>6, <1>7, <1>8, <1>9 DEF SpillInv

LEMMA MergeHolds ==
  ASSUME SpillInv, SpillMerge
  PROVE  SpillInv' /\ Held' = Held
<1>1. /\ spill = "merging" /\ Reserve(GroupBytes)
      /\ spilled' = [i \in (DOMAIN spilled \ Group) \cup {next_run} |->
                       IF i = next_run THEN Merged ELSE spilled[i]]
      /\ next_run' = next_run + 1 /\ disk' = (disk + Len(spilled'[next_run])) - GroupBytes
      /\ chunk' = chunk /\ sequence' = sequence /\ disk_limit' = disk_limit
  BY DEF SpillMerge, CanMerge
<1>2. /\ sequence \in Nat /\ next_run \in Nat /\ disk \in Nat /\ disk_limit \in Nat
      /\ chunk = <<>> /\ pass \in [from : Nat, to : Nat, at : Nat]
      /\ pass.at < pass.to /\ pass.to <= next_run
      /\ disk + Len(chunk) = sequence /\ disk <= disk_limit /\ Len(chunk) <= MemoryRecords
  BY <1>1 DEF SpillInv, SpillTypes, RunsPresent, Charged
<1>3. PICK after \in Nat :
           /\ pass.at < after /\ after <= pass.to
           /\ Cardinality(Group) = after - pass.at
           /\ next_run \notin DOMAIN spilled
           /\ DOMAIN spilled \ Group = after .. next_run - 1
  BY <1>1, GroupIsNext
<1>4. /\ DOMAIN spilled' = (DOMAIN spilled \ Group) \cup {next_run}
      /\ \A i \in DOMAIN spilled' : spilled'[i] \in Seq(SpillRecord) /\ Ordered(spilled'[i])
      /\ \A i, j \in DOMAIN spilled' :
           i # j => RecordsOf(spilled'[i]) \cap RecordsOf(spilled'[j]) = {}
      /\ OnDisk' = OnDisk
      /\ Len(spilled'[next_run]) = GroupBytes
      /\ SumFunctionOnSet(RunBytes', DOMAIN spilled') = disk
  BY <1>1, MergeKeepsRecords
<1>5. DOMAIN spilled' = after .. next_run' - 1
  BY <1>1, <1>2, <1>3, <1>4
<1>6. disk' = disk
  <2>1. GroupBytes \in Nat
    BY <1>4
  <2> QED
    BY <1>1, <1>2, <1>4, <2>1
<1>7. Held' = Held
  BY <1>1, <1>4 DEF Held, RecordsOf
<1>8. /\ IF after < pass.to
         THEN pass' = [pass EXCEPT !.at = after] /\ spill' = spill
         ELSE /\ pass' = [from |-> pass.to, to |-> next_run', at |-> pass.to]
              /\ spill' = IF next_run' - pass.to > 1 THEN "merging" ELSE "sorted"
  <2>1. pass.at + Cardinality(Group) = after
    BY <1>2, <1>3
  <2> QED
    BY <2>1 DEF SpillMerge
<1>9. SpillTypes'
  <2>1. next_run' \in Nat /\ chunk' \in Seq(SpillRecord) /\ disk' \in Nat
    BY <1>1, <1>2, <1>6
  <2>2. pass' \in [from : Nat, to : Nat, at : Nat]
    BY <1>2, <1>8, <2>1
  <2>3. spill' \in {"none", "filling", "merging", "sorted"}
    BY <1>1, <1>8
  <2> QED
    BY <1>1, <1>2, <1>4, <2>1, <2>2, <2>3 DEF SpillTypes
<1>10. RunsPresent'
  <2>1. CASE after < pass.to
    BY <1>1, <1>2, <1>3, <1>5, <1>8, <2>1, SMTT(30) DEF RunsPresent
  <2>2. CASE ~(after < pass.to)
    <3>1. /\ after = pass.to /\ pass'.from = pass.to /\ pass'.at = pass.to /\ pass'.to = next_run'
          /\ spill' = IF next_run' - pass.to > 1 THEN "merging" ELSE "sorted"
      BY <1>2, <1>3, <1>8, <2>2
    <3>2. next_run' \in Nat /\ pass.to < next_run' /\ pass.to \in Nat
      BY <1>1, <1>2
    <3>3. chunk' = <<>>
      BY <1>1, <1>2
    <3>4. CASE spill' = "merging"
      BY <1>5, <3>1, <3>2, <3>3, <3>4 DEF RunsPresent
    <3>5. CASE spill' = "sorted"
      BY <1>5, <3>1, <3>2, <3>3, <3>5 DEF RunsPresent
    <3> QED
      BY <3>1, <3>4, <3>5
  <2> QED
    BY <2>1, <2>2
<1>11. RunsSound'
  <2>1. Apart(Held') /\ {r.sequence : r \in Held'} = 0 .. sequence' - 1
    BY <1>1, <1>7 DEF SpillInv, RunsSound
  <2>2. RecordsOf(chunk') = {} /\ DOMAIN chunk' = {}
    BY <1>1, <1>2 DEF RecordsOf
  <2>3. /\ \A i \in DOMAIN spilled' : /\ Ordered(spilled'[i])
                                     /\ RecordsOf(spilled'[i]) \cap RecordsOf(chunk') = {}
        /\ \A m, n \in DOMAIN chunk' : chunk'[m] = chunk'[n] => m = n
    BY <1>4, <2>2
  <2> QED
    BY <1>4, <2>1, <2>3 DEF RunsSound, RecordsOf
<1>12. Charged'
  <2>1. disk' = SumFunctionOnSet(RunBytes', DOMAIN spilled')
    BY <1>4, <1>6
  <2>2. disk' + Len(chunk') = sequence' /\ disk' <= disk_limit' /\ Len(chunk') <= MemoryRecords
    BY <1>1, <1>2, <1>6
  <2> QED
    BY <2>1, <2>2 DEF Charged
<1> QED
  BY <1>7, <1>9, <1>10, <1>11, <1>12 DEF SpillInv

LEMMA PushHolds ==
  ASSUME SpillInv, NEW key \in Key, SpillPush(key)
  PROVE  SpillInv' /\ Held' = Held \cup {[key |-> key, sequence |-> sequence]}
  BY PushFlushHolds, PushKeepHolds

\* Whatever is pushed and however small its budgets, the store loses, repeats and
\* disorders nothing and charges the disk for what its run files hold
\* (stdf-analytics store::SpillStore and reduction::Reduction).
THEOREM SortIsSound == SpillSpec => [](SpillAccounts /\ SortLosesNothing)
<1>1. SpillInit => SpillInv
  BY SpillInitHolds
<1>2. SpillInv /\ [SpillNext]_spillVars => SpillInv'
  <2> SUFFICES ASSUME SpillInv, [SpillNext]_spillVars PROVE SpillInv'
    OBVIOUS
  <2>1. ASSUME NEW limit \in Nat, SpillOpen(limit) PROVE SpillInv'
    BY <2>1, SpillOpenHolds
  <2>2. ASSUME NEW key \in Key, SpillPush(key) PROVE SpillInv'
    BY <2>2, PushHolds
  <2>3. CASE SpillFinish
    BY <2>3, FinishHolds
  <2>4. CASE SpillMerge
    BY <2>4, MergeHolds
  <2>5. CASE SpillDrop
    BY <2>5, SpillDropHolds
  <2>6. CASE UNCHANGED spillVars
    BY <2>6, SpillStutterHolds
  <2> QED
    BY <2>1, <2>2, <2>3, <2>4, <2>5, <2>6 DEF SpillNext
<1>3. SpillInv => SpillAccounts /\ SortLosesNothing
  BY InvMeansSound
<1> QED
  BY <1>1, <1>2, <1>3, PTL DEF SpillSpec

-----------------------------------------------------------------------------
(* Retained evidence.                                                      *)

Fields ==
  {"cmd", "pc", "hash", "body", "staged", "digest", "feed", "left", "seen", "result", "files"}
Dials == {"start", "rewrite", "kill", "damage"}

\* Where a command may be.
ViewPcs == {"hash", "lookup", "spool", "rehash", "publish", "serve"}
DigestPcs == {"compare", "push", "merge"}
BoundPcs == DigestPcs \cup {"seal", "recheck", "rename"}
StagePcs == BoundPcs \cup {"hash", "spool", "rehash", "publish"}
OpenPcs == {"envelope", "regenerate", "opened"}
AnalyzePcs == {"compile", "receipt", "write", "expose"}

Commands(j) ==
  \/ j = NoJob
  \/ j.cmd.op = "view" /\ j.pc \in ViewPcs
  \/ /\ j.cmd.op = "retain" /\ j.pc \in {"bind", "lock", "room"} \cup StagePcs
     /\ j.cmd.snapshot \in DOMAIN Catalog /\ j.cmd.source \in SourcesIn(j.cmd.snapshot)
  \/ j.cmd.op = "verify" /\ j.pc \in {"lock"} \cup OpenPcs
  \/ j.cmd.op = "analyze" /\ j.pc \in {"lock"} \cup OpenPcs \cup AnalyzePcs

Guards(j) == j.pc \in OpenPcs \cup {"room"} \/ (j.pc \in StagePcs /\ j.cmd.op = "retain")
Stages(j) == j.pc = "regenerate" \/ (j.pc \in StagePcs /\ j.cmd.op = "retain")

\* Bodies and hashes of a file that was rewritten a number of times, as far as j has come.
SourceRead(j, current, rewrites) ==
  LET read == (StagePcs \cup ViewPcs) \ {"hash", "lookup", "spool"}
  IN /\ j.pc \in read \cup {"lookup", "spool"} => j.hash \in File
     /\ j.pc \in read => j.body \in Body
     /\ j.pc \in {"lookup", "spool", "rehash"} /\ rewrites = 0 => j.hash = current
     /\ j.pc = "rehash" /\ rewrites < 2 => j.body = BodyOf[j.hash] \/ j.hash # current
     /\ j.pc \in read \ {"rehash"} /\ rewrites < 2 => j.body = BodyOf[j.hash]

SameCounts(s, t) == \A key \in Key : Occurrences(s, key) = Occurrences(t, key)

\* The rows that are being digested.
CatalogRows(j) == CatalogSource(j.cmd).rows
Digesting(j) == IF j.digest = <<>> THEN CatalogRows(j) ELSE MeasuredRows[j.body]

\* The store holds the records of the first rows of input, under their keys.
Fed(input) == \A r \in Held : r.sequence + 1 \in DOMAIN input /\ r.key = input[r.sequence + 1]

RowsFed(j) ==
  /\ j.digest # <<>> =>
       /\ j.pc \in DigestPcs
       /\ Len(j.digest) = 1 /\ SameCounts(j.digest[1], CatalogRows(j))
  /\ j.pc = "compare" => j.feed = Digesting(j)
  /\ j.pc = "push" =>
       /\ spill = "filling" /\ Fed(Digesting(j))
       /\ j.feed \in Seq(Key) /\ sequence + Len(j.feed) = Len(Digesting(j))
       /\ \A i \in DOMAIN j.feed : j.feed[i] = Digesting(j)[sequence + i]
  /\ j.pc = "merge" =>
       spill \in {"merging", "sorted"} /\ Fed(Digesting(j)) /\ sequence = Len(Digesting(j))
  /\ j.pc \in {"seal", "recheck", "rename"} => SameCounts(MeasuredRows[j.body], CatalogRows(j))
  /\ j.pc \in BoundPcs => j.hash = CatalogSource(j.cmd).file

Writes(j) ==
  /\ j.pc = "write" => j.files = {"result"}
  /\ j.pc = "expose" => j.files = {"result", "receipt"}

\* What holds of a process p whose job is j.
Sound(p, j) ==
  /\ DOMAIN j = Fields /\ Commands(j) /\ Writes(j)
  /\ (guard = p <=> Guards(j)) /\ (j.staged <=> Stages(j))
  /\ SourceRead(j, file, spent["rewrite"]) /\ RowsFed(j)

Processes ==
  /\ DOMAIN job = Proc /\ guard \in Proc \cup {None}
  /\ \A p \in Proc : Sound(p, job[p])

Surroundings ==
  /\ file \in File
  /\ DOMAIN spent = Dials /\ \A d \in Dials : spent[d] \in Nat

CachesSound ==
  /\ DOMAIN caches \subseteq File
  /\ \A h \in DOMAIN caches :
       /\ DOMAIN caches[h] = {"body", "intact"} /\ caches[h].body \in Body
       /\ spent["rewrite"] < 2 => caches[h].body = BodyOf[h]

BundlesSound ==
  /\ IsFiniteSet(DOMAIN bundles) /\ DOMAIN bundles \subseteq EvidenceId
  /\ \A id \in DOMAIN bundles :
       /\ spent["rewrite"] < 2 => id.body = BodyOf[id.file]
       /\ SameMeasurements(id)

ReceiptsSound == \A e \in DOMAIN receipts : receipts[e] = {"result", "receipt"}

Budgeted == abandoned \in Nat /\ Managed <= DiskLimit

EvidenceInv ==
  /\ Processes /\ Surroundings /\ CachesSound /\ BundlesSound /\ ReceiptsSound /\ Budgeted
  /\ SpillInv

-----------------------------------------------------------------------------
(***************************************************************************)
(* What a step of one process leaves to the others.                        *)
(***************************************************************************)
OthersStay(p) ==
  /\ DOMAIN job' = Proc /\ \A q \in Proc \ {p} : job'[q] = job[q]
  /\ guard' = guard \/ (guard = None /\ guard' = p) \/ (guard = p /\ guard' = None)
  /\ guard = p \/ UNCHANGED spillVars

SpentOn == Surroundings' /\ spent'["rewrite"] = spent["rewrite"] /\ file' = file

LEMMA FedStays ==
  ASSUME SpillInv, UNCHANGED spillVars, NEW j, RowsFed(j)
  PROVE  RowsFed(j)'
  BY SpillStutterHolds DEF RowsFed, Fed, spillVars, Digesting, CatalogRows

LEMMA OthersSound ==
  ASSUME EvidenceInv, NEW p \in Proc, OthersStay(p), SpentOn, Sound(p, job[p])'
  PROVE  Processes'
<1>1. guard' \in Proc \cup {None}
  BY DEF EvidenceInv, Processes, OthersStay
<1>2. ASSUME NEW q \in Proc, q # p PROVE Sound(q, job[q])'
  <2>1. Sound(q, job[q]) /\ job'[q] = job[q]
    BY <1>2 DEF EvidenceInv, Processes, OthersStay
  <2>2. guard' = q <=> guard = q
    BY <1>2, NoneAssumption DEF OthersStay
  <2>3. RowsFed(job[q])'
    <3>1. CASE UNCHANGED spillVars
      BY <2>1, <3>1, FedStays DEF Sound, EvidenceInv
    <3>2. CASE guard = p
      <4>1. ~Guards(job[q])
        BY <1>2, <2>1, <3>2 DEF Sound
      <4>2. job[q].pc \notin {"push", "merge"}
        BY <2>1, <4>1
        DEF Sound, Commands, Guards, NoJob, StagePcs, BoundPcs, DigestPcs, ViewPcs, OpenPcs, AnalyzePcs
      <4> QED
        BY <2>1, <4>2 DEF Sound, RowsFed, Digesting, CatalogRows
    <3> QED
      BY <3>1, <3>2 DEF OthersStay
  <2> QED
    BY <2>1, <2>2, <2>3 DEF Sound, SpentOn
<1> QED
  BY <1>1, <1>2 DEF Processes, OthersStay

-----------------------------------------------------------------------------
(***************************************************************************)
(* The room of the workspace.                                              *)
(***************************************************************************)
Staging == {p \in Proc : job[p].staged}

LEMMA StagedGuards ==
  ASSUME Processes, NEW p \in Proc, job[p].staged
  PROVE  guard = p
  BY DEF Processes, Sound, Stages, Guards, OpenPcs

OneOrNone == Cardinality(Staging) = IF \E p \in Proc : job[p].staged THEN 1 ELSE 0

LEMMA OneStage ==
  ASSUME Processes
  PROVE  OneOrNone
<1>1. CASE \E p \in Proc : job[p].staged
  <2>1. PICK p \in Proc : job[p].staged
    BY <1>1
  <2>2. Staging = {p}
    BY <2>1, StagedGuards DEF Staging
  <2>3. Cardinality({p}) = 1
    BY FS_Singleton
  <2> QED
    BY <1>1, <2>2, <2>3 DEF OneOrNone
<1>2. CASE ~ \E p \in Proc : job[p].staged
  <2>1. Staging = {}
    BY <1>2 DEF Staging
  <2> QED
    BY <1>2, <2>1, FS_EmptySet DEF OneOrNone
<1> QED
  BY <1>1, <1>2

LEMMA ManagedIs ==
  ASSUME Processes, BundlesSound
  PROVE  /\ Cardinality(DOMAIN bundles) \in Nat
         /\ Managed = Cardinality(DOMAIN bundles) + abandoned
                        + (IF \E p \in Proc : job[p].staged THEN 1 ELSE 0)
  BY OneStage, FS_CardinalityType DEF Managed, Staging, BundlesSound, OneOrNone

\* A step that stages nothing, or one directory where there is room for it.
LEMMA BudgetKept ==
  ASSUME EvidenceInv, Processes', UNCHANGED <<bundles, abandoned>>,
         \/ \A q \in Proc : job'[q].staged => job[q].staged
         \/ Room /\ \A q \in Proc : ~job[q].staged
  PROVE  Budgeted'
<1>1. BundlesSound /\ Processes /\ abandoned \in Nat /\ Managed <= DiskLimit /\ DiskLimit \in Nat
  BY EvidenceAssumption DEF EvidenceInv, Budgeted
<1>2. /\ Cardinality(DOMAIN bundles) \in Nat
      /\ Managed = Cardinality(DOMAIN bundles) + abandoned
                     + (IF \E p \in Proc : job[p].staged THEN 1 ELSE 0)
  BY <1>1, ManagedIs
<1>3. OneOrNone'
  BY OneStage, PTL
<1>4. Managed' = Cardinality(DOMAIN bundles) + abandoned
                   + (IF \E p \in Proc : job'[p].staged THEN 1 ELSE 0)
  BY <1>3 DEF Managed, Staging, OneOrNone
<1>5. CASE \A q \in Proc : job'[q].staged => job[q].staged
  BY <1>1, <1>2, <1>4, <1>5 DEF Budgeted
<1>6. CASE Room /\ \A q \in Proc : ~job[q].staged
  BY <1>1, <1>2, <1>4, <1>6 DEF Budgeted, Room
<1> QED
  BY <1>5, <1>6

\* A step of p alone that publishes nothing.
LEMMA QuietStep ==
  ASSUME EvidenceInv, NEW p \in Proc, OthersStay(p), SpentOn, Sound(p, job[p])',
         UNCHANGED <<caches, bundles, abandoned, receipts>>, SpillInv',
         job'[p].staged => job[p].staged \/ Room
  PROVE  EvidenceInv'
<1>1. Processes'
  BY OthersSound
<1>2. CachesSound' /\ BundlesSound' /\ ReceiptsSound'
  BY DEF EvidenceInv, CachesSound, BundlesSound, ReceiptsSound, SpentOn, SameMeasurements,
         CatalogSource
<1>3. Budgeted'
  <2>1. CASE job'[p].staged /\ ~job[p].staged
    <3>1. guard' = p
      BY <2>1 DEF Sound, Stages, Guards, OpenPcs
    <3>2. ASSUME NEW q \in Proc PROVE ~job[q].staged
      <4>1. q # p => job'[q] = job[q]
        BY DEF OthersStay
      <4>2. job'[q].staged => guard' = q
        <5>1. Sound(q, job[q])'
          BY <1>1 DEF Processes
        <5> QED
          BY <5>1 DEF Sound, Stages, Guards, OpenPcs
      <4> QED
        BY <2>1, <3>1, <4>1, <4>2
    <3> QED
      BY <1>1, <2>1, <3>2, BudgetKept
  <2>2. CASE ~(job'[p].staged /\ ~job[p].staged)
    <3>1. \A q \in Proc : job'[q].staged => job[q].staged
      BY <2>2 DEF OthersStay
    <3> QED
      BY <1>1, <3>1, BudgetKept
  <2> QED
    BY <2>1, <2>2
<1> QED
  BY <1>1, <1>2, <1>3 DEF EvidenceInv, SpentOn

-----------------------------------------------------------------------------
(***************************************************************************)
(* Commands that end.                                                      *)
(***************************************************************************)
LEMMA IdleIsSound ==
  ASSUME Processes, NEW p \in Proc, Leave(p), guard' # p
  PROVE  Sound(p, job[p])'
<1>1. job'[p] = NoJob
  BY DEF Leave, Processes
<1>2. DOMAIN NoJob = Fields /\ NoJob.pc = "idle" /\ NoJob.digest = <<>> /\ NoJob.staged = FALSE
  BY DEF NoJob, Fields
<1>3. RowsFed(NoJob)'
  BY <1>2 DEF RowsFed, BoundPcs, DigestPcs
<1> QED
  BY <1>1, <1>2, <1>3
  DEF Sound, Commands, Writes, Guards, Stages, SourceRead, StagePcs, BoundPcs, DigestPcs, ViewPcs, OpenPcs

\* A command that holds no lock leaves.
LEMMA LeaveKeeps ==
  ASSUME EvidenceInv, NEW p \in Proc, SpentOn, Leave(p), guard # p,
         UNCHANGED <<caches, spillVars, evidenceVars, receipts>>
  PROVE  EvidenceInv'
<1>1. UNCHANGED <<caches, bundles, abandoned, receipts>> /\ guard' = guard /\ UNCHANGED spillVars
  BY DEF evidenceVars
<1>2. OthersStay(p) /\ job'[p].staged = FALSE
  BY <1>1 DEF OthersStay, Leave, EvidenceInv, Processes, NoJob
<1>3. Sound(p, job[p])'
  BY <1>1, IdleIsSound DEF EvidenceInv
<1>4. SpillInv'
  BY <1>1, SpillStutterHolds DEF EvidenceInv
<1> QED
  BY <1>1, <1>2, <1>3, <1>4, QuietStep

LEMMA ReturnKeeps ==
  ASSUME EvidenceInv, NEW p \in Proc, Surroundings', UNCHANGED spent, Return(p), UNCHANGED receipts
  PROVE  EvidenceInv'
<1>1. /\ Leave(p) /\ guard' = (IF guard = p THEN None ELSE guard) /\ UNCHANGED <<bundles, abandoned>>
      /\ UNCHANGED <<file, caches>> /\ IF guard = p THEN SpillDrop ELSE UNCHANGED spillVars
  BY DEF Return, cacheVars
<1>2. guard' # p
  BY <1>1, NoneAssumption
<1>3. OthersStay(p) /\ job'[p].staged = FALSE
  BY <1>1 DEF OthersStay, Leave, EvidenceInv, Processes, NoJob
<1>4. Sound(p, job[p])'
  BY <1>1, <1>2, IdleIsSound DEF EvidenceInv
<1>5. SpillInv'
  BY <1>1, SpillStutterHolds, SpillDropHolds DEF EvidenceInv
<1>6. SpentOn
  BY <1>1 DEF SpentOn
<1> QED
  BY <1>1, <1>3, <1>4, <1>5, <1>6, QuietStep

-----------------------------------------------------------------------------
(***************************************************************************)
(* Sessions of the viewer, and what retention shares with them.            *)
(***************************************************************************)
USE DEF ViewPcs, StagePcs, BoundPcs, DigestPcs, OpenPcs, AnalyzePcs

\* A step within a command that holds the lock before and after it, or at neither time,
\* and neither feeds rows nor writes.
LEMMA PlainStep ==
  ASSUME EvidenceInv, NEW p \in Proc, SpentOn, DOMAIN job' = Proc,
         \A q \in Proc \ {p} : job'[q] = job[q],
         UNCHANGED <<caches, spillVars, evidenceVars, receipts>>,
         DOMAIN job'[p] = Fields, Commands(job'[p]), Writes(job'[p]),
         Guards(job'[p]) <=> Guards(job[p]), job'[p].staged <=> Stages(job'[p]),
         SourceRead(job'[p], file, spent["rewrite"]), RowsFed(job'[p]),
         job'[p].staged => job[p].staged \/ Room
  PROVE  EvidenceInv'
<1>1. UNCHANGED <<caches, bundles, abandoned, receipts>> /\ guard' = guard /\ UNCHANGED spillVars
  BY DEF evidenceVars
<1>2. OthersStay(p)
  BY <1>1 DEF OthersStay
<1>3. RowsFed(job[p])'
  BY <1>1, SpillStutterHolds
  DEF RowsFed, Fed, spillVars, Digesting, CatalogRows, CatalogSource, EvidenceInv
<1>4. Sound(p, job[p])'
  BY <1>1, <1>3 DEF Sound, SpentOn, EvidenceInv, Processes
<1>5. SpillInv'
  BY <1>1, SpillStutterHolds DEF EvidenceInv
<1> QED
  BY <1>1, <1>2, <1>4, <1>5, QuietStep

LEMMA HashSourceKeeps ==
  ASSUME EvidenceInv, NEW p \in Proc, SpentOn, HashSource(p),
         UNCHANGED <<spillVars, evidenceVars, receipts>>
  PROVE  EvidenceInv'
<1>1. /\ job[p].pc = "hash" /\ UNCHANGED cacheVars
      /\ job' = [job EXCEPT ![p].hash = file, ![p].pc = IF Shared(p) THEN "lookup" ELSE "spool"]
  BY DEF HashSource, At
<1>2. Sound(p, job[p]) /\ file \in File
  BY DEF EvidenceInv, Processes, Surroundings
<1>3. DOMAIN job' = Proc /\ DOMAIN job'[p] = Fields /\ \A q \in Proc \ {p} : job'[q] = job[q]
  BY <1>1, <1>2 DEF EvidenceInv, Processes, Sound
<1>4. /\ job'[p].cmd = job[p].cmd /\ job'[p].staged = job[p].staged /\ job'[p].digest = job[p].digest
      /\ job'[p].hash = file /\ job'[p].pc = IF job[p].cmd.op = "view" THEN "lookup" ELSE "spool"
  BY <1>1, <1>2 DEF EvidenceInv, Processes, Sound, Fields, Shared
<1>5. Commands(job'[p])
  BY <1>1, <1>2, <1>4 DEF Sound, Commands, NoJob
<1>6. (Guards(job'[p]) <=> Guards(job[p])) /\ (job'[p].staged <=> Stages(job'[p]))
  BY <1>1, <1>2, <1>4 DEF Sound, Guards, Stages, Commands, NoJob
<1>7. SourceRead(job'[p], file, spent["rewrite"])
  BY <1>2, <1>4 DEF SourceRead
<1>8. RowsFed(job'[p])
  BY <1>1, <1>2, <1>4 DEF Sound, RowsFed
<1>9. Writes(job'[p])
  BY <1>4 DEF Writes
<1> QED
  BY <1>1, <1>3, <1>4, <1>5, <1>6, <1>7, <1>8, <1>9, PlainStep DEF cacheVars

LEMMA ReuseCacheKeeps ==
  ASSUME EvidenceInv, NEW p \in Proc, SpentOn, ReuseCache(p),
         UNCHANGED <<spillVars, evidenceVars, receipts>>
  PROVE  EvidenceInv'
<1>1. /\ job[p].pc = "lookup" /\ UNCHANGED cacheVars
      /\ job' = [job EXCEPT ![p].body = caches[job[p].hash].body, ![p].pc = "serve"]
      /\ job[p].hash \in DOMAIN caches
  BY DEF ReuseCache, At, Go
<1>2. Sound(p, job[p]) /\ file \in File
  BY DEF EvidenceInv, Processes, Surroundings
<1>3. DOMAIN job' = Proc /\ DOMAIN job'[p] = Fields /\ \A q \in Proc \ {p} : job'[q] = job[q]
  BY <1>1, <1>2 DEF EvidenceInv, Processes, Sound
<1>4. /\ job'[p].cmd = job[p].cmd /\ job'[p].staged = job[p].staged
      /\ job'[p].digest = job[p].digest /\ job'[p].hash = job[p].hash
      /\ job'[p].feed = job[p].feed /\ job'[p].files = job[p].files
      /\ job'[p].body = caches[job[p].hash].body /\ job'[p].pc = "serve"
  BY <1>1, <1>2 DEF EvidenceInv, Processes, Sound, Fields, Shared
<1>5. Commands(job'[p])
  BY <1>1, <1>2, <1>4 DEF Sound, Commands, NoJob
<1>6. (Guards(job'[p]) <=> Guards(job[p])) /\ (job'[p].staged <=> Stages(job'[p]))
  BY <1>1, <1>2, <1>4 DEF Sound, Guards, Stages, Commands, NoJob
<1>7. SourceRead(job'[p], file, spent["rewrite"])
  BY <1>1, <1>2, <1>4 DEF Sound, SourceRead, EvidenceInv, CachesSound
<1>8. RowsFed(job'[p])
  BY <1>1, <1>2, <1>4 DEF Sound, RowsFed
<1>9. Writes(job'[p])
  BY <1>4 DEF Writes
<1> QED
  BY <1>1, <1>3, <1>4, <1>5, <1>6, <1>7, <1>8, <1>9, PlainStep DEF cacheVars

LEMMA MakeStageKeeps ==
  ASSUME EvidenceInv, NEW p \in Proc, SpentOn, MakeStage(p),
         UNCHANGED <<spillVars, evidenceVars, receipts>>
  PROVE  EvidenceInv'
<1>1. /\ job[p].pc = "lookup" /\ UNCHANGED cacheVars
      /\ job' = [job EXCEPT ![p].pc = "spool"]
  BY DEF MakeStage, At, Go
<1>2. Sound(p, job[p]) /\ file \in File
  BY DEF EvidenceInv, Processes, Surroundings
<1>3. DOMAIN job' = Proc /\ DOMAIN job'[p] = Fields /\ \A q \in Proc \ {p} : job'[q] = job[q]
  BY <1>1, <1>2 DEF EvidenceInv, Processes, Sound
<1>4. /\ job'[p].cmd = job[p].cmd /\ job'[p].staged = job[p].staged
      /\ job'[p].digest = job[p].digest /\ job'[p].hash = job[p].hash
      /\ job'[p].body = job[p].body /\ job'[p].feed = job[p].feed
      /\ job'[p].files = job[p].files /\ job'[p].pc = "spool"
  BY <1>1, <1>2 DEF EvidenceInv, Processes, Sound, Fields, Shared
<1>5. Commands(job'[p])
  BY <1>1, <1>2, <1>4 DEF Sound, Commands, NoJob
<1>6. (Guards(job'[p]) <=> Guards(job[p])) /\ (job'[p].staged <=> Stages(job'[p]))
  BY <1>1, <1>2, <1>4 DEF Sound, Guards, Stages, Commands, NoJob
<1>7. SourceRead(job'[p], file, spent["rewrite"])
  BY <1>1, <1>2, <1>4 DEF Sound, SourceRead
<1>8. RowsFed(job'[p])
  BY <1>1, <1>2, <1>4 DEF Sound, RowsFed
<1>9. Writes(job'[p])
  BY <1>4 DEF Writes
<1> QED
  BY <1>1, <1>3, <1>4, <1>5, <1>6, <1>7, <1>8, <1>9, PlainStep DEF cacheVars

LEMMA SpoolKeeps ==
  ASSUME EvidenceInv, NEW p \in Proc, SpentOn, Spool(p),
         UNCHANGED <<spillVars, evidenceVars, receipts>>
  PROVE  EvidenceInv'
<1>1. /\ job[p].pc = "spool" /\ UNCHANGED cacheVars
      /\ job' = [job EXCEPT ![p].body = BodyOf[file], ![p].pc = "rehash"]
  BY DEF Spool, At, Go
<1>2. Sound(p, job[p]) /\ file \in File
  BY DEF EvidenceInv, Processes, Surroundings
<1>3. DOMAIN job' = Proc /\ DOMAIN job'[p] = Fields /\ \A q \in Proc \ {p} : job'[q] = job[q]
  BY <1>1, <1>2 DEF EvidenceInv, Processes, Sound
<1>4. /\ job'[p].cmd = job[p].cmd /\ job'[p].staged = job[p].staged
      /\ job'[p].digest = job[p].digest /\ job'[p].hash = job[p].hash
      /\ job'[p].feed = job[p].feed /\ job'[p].files = job[p].files
      /\ job'[p].body = BodyOf[file] /\ job'[p].pc = "rehash"
  BY <1>1, <1>2 DEF EvidenceInv, Processes, Sound, Fields, Shared
<1>5. Commands(job'[p])
  BY <1>1, <1>2, <1>4 DEF Sound, Commands, NoJob
<1>6. (Guards(job'[p]) <=> Guards(job[p])) /\ (job'[p].staged <=> Stages(job'[p]))
  BY <1>1, <1>2, <1>4 DEF Sound, Guards, Stages, Commands, NoJob
<1>7. SourceRead(job'[p], file, spent["rewrite"])
  BY <1>1, <1>2, <1>4, BodyAssumption DEF Sound, SourceRead
<1>8. RowsFed(job'[p])
  BY <1>1, <1>2, <1>4 DEF Sound, RowsFed
<1>9. Writes(job'[p])
  BY <1>4 DEF Writes
<1> QED
  BY <1>1, <1>3, <1>4, <1>5, <1>6, <1>7, <1>8, <1>9, PlainStep DEF cacheVars

LEMMA RehashSourceKeeps ==
  ASSUME EvidenceInv, NEW p \in Proc, SpentOn, RehashSource(p),
         UNCHANGED <<spillVars, evidenceVars, receipts>>
  PROVE  EvidenceInv'
<1>1. /\ job[p].pc = "rehash" /\ UNCHANGED cacheVars
      /\ job' = [job EXCEPT ![p].pc = "publish"]
      /\ file = job[p].hash
  BY DEF RehashSource, At, Go
<1>2. Sound(p, job[p]) /\ file \in File
  BY DEF EvidenceInv, Processes, Surroundings
<1>3. DOMAIN job' = Proc /\ DOMAIN job'[p] = Fields /\ \A q \in Proc \ {p} : job'[q] = job[q]
  BY <1>1, <1>2 DEF EvidenceInv, Processes, Sound
<1>4. /\ job'[p].cmd = job[p].cmd /\ job'[p].staged = job[p].staged
      /\ job'[p].digest = job[p].digest /\ job'[p].hash = job[p].hash
      /\ job'[p].body = job[p].body /\ job'[p].feed = job[p].feed
      /\ job'[p].files = job[p].files /\ job'[p].pc = "publish"
  BY <1>1, <1>2 DEF EvidenceInv, Processes, Sound, Fields, Shared
<1>5. Commands(job'[p])
  BY <1>1, <1>2, <1>4 DEF Sound, Commands, NoJob
<1>6. (Guards(job'[p]) <=> Guards(job[p])) /\ (job'[p].staged <=> Stages(job'[p]))
  BY <1>1, <1>2, <1>4 DEF Sound, Guards, Stages, Commands, NoJob
<1>7. SourceRead(job'[p], file, spent["rewrite"])
  BY <1>1, <1>2, <1>4 DEF Sound, SourceRead
<1>8. RowsFed(job'[p])
  BY <1>1, <1>2, <1>4 DEF Sound, RowsFed
<1>9. Writes(job'[p])
  BY <1>4 DEF Writes
<1> QED
  BY <1>1, <1>3, <1>4, <1>5, <1>6, <1>7, <1>8, <1>9, PlainStep DEF cacheVars

-----------------------------------------------------------------------------
(***************************************************************************)
(* Retention outside the comparison.                                       *)
(***************************************************************************)
LEMMA BindSourceKeeps ==
  ASSUME EvidenceInv, NEW p \in Proc, SpentOn, BindSource(p),
         UNCHANGED <<spillVars, evidenceVars, receipts>>
  PROVE  EvidenceInv'
<1>1. /\ job[p].pc = "bind" /\ UNCHANGED cacheVars
      /\ job' = [job EXCEPT ![p].pc = "lock"]
  BY DEF BindSource, At, Go
<1>2. Sound(p, job[p]) /\ file \in File
  BY DEF EvidenceInv, Processes, Surroundings
<1>3. DOMAIN job' = Proc /\ DOMAIN job'[p] = Fields /\ \A q \in Proc \ {p} : job'[q] = job[q]
  BY <1>1, <1>2 DEF EvidenceInv, Processes, Sound
<1>4. /\ job'[p].cmd = job[p].cmd /\ job'[p].staged = job[p].staged
      /\ job'[p].digest = job[p].digest /\ job'[p].hash = job[p].hash
      /\ job'[p].body = job[p].body /\ job'[p].feed = job[p].feed
      /\ job'[p].files = job[p].files /\ job'[p].pc = "lock"
  BY <1>1, <1>2 DEF EvidenceInv, Processes, Sound, Fields, Shared
<1>5. Commands(job'[p])
  BY <1>1, <1>2, <1>4 DEF Sound, Commands, NoJob
<1>6. (Guards(job'[p]) <=> Guards(job[p])) /\ (job'[p].staged <=> Stages(job'[p]))
  BY <1>1, <1>2, <1>4 DEF Sound, Guards, Stages, Commands, NoJob
<1>7. SourceRead(job'[p], file, spent["rewrite"])
  BY <1>2, <1>4 DEF Sound, SourceRead
<1>8. RowsFed(job'[p])
  BY <1>1, <1>2, <1>4 DEF Sound, RowsFed
<1>9. Writes(job'[p])
  BY <1>4 DEF Writes
<1> QED
  BY <1>1, <1>3, <1>4, <1>5, <1>6, <1>7, <1>8, <1>9, PlainStep DEF cacheVars

LEMMA StageRetentionKeeps ==
  ASSUME EvidenceInv, NEW p \in Proc, SpentOn, StageRetention(p),
         UNCHANGED <<spillVars, evidenceVars, receipts>>
  PROVE  EvidenceInv'
<1>1. /\ job[p].pc = "room" /\ UNCHANGED cacheVars
      /\ job' = [job EXCEPT ![p].staged = TRUE, ![p].pc = "hash"]
      /\ Room
  BY DEF StageRetention, At, Go
<1>2. Sound(p, job[p]) /\ file \in File
  BY DEF EvidenceInv, Processes, Surroundings
<1>3. DOMAIN job' = Proc /\ DOMAIN job'[p] = Fields /\ \A q \in Proc \ {p} : job'[q] = job[q]
  BY <1>1, <1>2 DEF EvidenceInv, Processes, Sound
<1>4. /\ job'[p].cmd = job[p].cmd /\ job'[p].digest = job[p].digest
      /\ job'[p].hash = job[p].hash /\ job'[p].body = job[p].body
      /\ job'[p].feed = job[p].feed /\ job'[p].files = job[p].files
      /\ job'[p].staged = TRUE /\ job'[p].pc = "hash"
  BY <1>1, <1>2 DEF EvidenceInv, Processes, Sound, Fields, Shared
<1>5. Commands(job'[p])
  BY <1>1, <1>2, <1>4 DEF Sound, Commands, NoJob
<1>6. (Guards(job'[p]) <=> Guards(job[p])) /\ (job'[p].staged <=> Stages(job'[p]))
  BY <1>1, <1>2, <1>4 DEF Sound, Guards, Stages, Commands, NoJob
<1>7. SourceRead(job'[p], file, spent["rewrite"])
  BY <1>2, <1>4 DEF Sound, SourceRead
<1>8. RowsFed(job'[p])
  BY <1>1, <1>2, <1>4 DEF Sound, RowsFed
<1>9. Writes(job'[p])
  BY <1>4 DEF Writes
<1> QED
  BY <1>1, <1>3, <1>4, <1>5, <1>6, <1>7, <1>8, <1>9, PlainStep DEF cacheVars

LEMMA BindIndexKeeps ==
  ASSUME EvidenceInv, NEW p \in Proc, SpentOn, BindIndex(p),
         UNCHANGED <<spillVars, evidenceVars, receipts>>
  PROVE  EvidenceInv'
<1>1. /\ job[p].pc = "publish" /\ UNCHANGED cacheVars
      /\ job' = [job EXCEPT ![p].feed = Asked(p).rows, ![p].pc = "compare"]
      /\ Retains(p) /\ job[p].hash = Asked(p).file
  BY DEF BindIndex, At, Go
<1>2. Sound(p, job[p]) /\ file \in File
  BY DEF EvidenceInv, Processes, Surroundings
<1>3. DOMAIN job' = Proc /\ DOMAIN job'[p] = Fields /\ \A q \in Proc \ {p} : job'[q] = job[q]
  BY <1>1, <1>2 DEF EvidenceInv, Processes, Sound
<1>4. /\ job'[p].cmd = job[p].cmd /\ job'[p].staged = job[p].staged
      /\ job'[p].digest = job[p].digest /\ job'[p].hash = job[p].hash
      /\ job'[p].body = job[p].body /\ job'[p].files = job[p].files
      /\ job'[p].feed = Asked(p).rows /\ job'[p].pc = "compare"
  BY <1>1, <1>2 DEF EvidenceInv, Processes, Sound, Fields, Shared
<1>5. Commands(job'[p])
  BY <1>1, <1>2, <1>4 DEF Sound, Commands, NoJob, Retains
<1>6. (Guards(job'[p]) <=> Guards(job[p])) /\ (job'[p].staged <=> Stages(job'[p]))
  BY <1>1, <1>2, <1>4 DEF Sound, Guards, Stages, Commands, NoJob
<1>7. SourceRead(job'[p], file, spent["rewrite"])
  BY <1>1, <1>2, <1>4 DEF Sound, SourceRead
<1>8. RowsFed(job'[p])
  BY <1>1, <1>2, <1>4 DEF Sound, RowsFed, Asked, Digesting, CatalogRows
<1>9. Writes(job'[p])
  BY <1>4 DEF Writes
<1> QED
  BY <1>1, <1>3, <1>4, <1>5, <1>6, <1>7, <1>8, <1>9, PlainStep DEF cacheVars

LEMMA SealBundleKeeps ==
  ASSUME EvidenceInv, NEW p \in Proc, SpentOn, SealBundle(p),
         UNCHANGED <<spillVars, evidenceVars, receipts>>
  PROVE  EvidenceInv'
<1>1. /\ job[p].pc = "seal" /\ UNCHANGED cacheVars
      /\ job' = [job EXCEPT ![p].pc = "recheck"]
  BY DEF SealBundle, At, Go
<1>2. Sound(p, job[p]) /\ file \in File
  BY DEF EvidenceInv, Processes, Surroundings
<1>3. DOMAIN job' = Proc /\ DOMAIN job'[p] = Fields /\ \A q \in Proc \ {p} : job'[q] = job[q]
  BY <1>1, <1>2 DEF EvidenceInv, Processes, Sound
<1>4. /\ job'[p].cmd = job[p].cmd /\ job'[p].staged = job[p].staged
      /\ job'[p].digest = job[p].digest /\ job'[p].hash = job[p].hash
      /\ job'[p].body = job[p].body /\ job'[p].feed = job[p].feed
      /\ job'[p].files = job[p].files /\ job'[p].pc = "recheck"
  BY <1>1, <1>2 DEF EvidenceInv, Processes, Sound, Fields, Shared
<1>5. Commands(job'[p])
  BY <1>1, <1>2, <1>4 DEF Sound, Commands, NoJob
<1>6. (Guards(job'[p]) <=> Guards(job[p])) /\ (job'[p].staged <=> Stages(job'[p]))
  BY <1>1, <1>2, <1>4 DEF Sound, Guards, Stages, Commands, NoJob
<1>7. SourceRead(job'[p], file, spent["rewrite"])
  BY <1>1, <1>2, <1>4 DEF Sound, SourceRead
<1>8. RowsFed(job'[p])
  BY <1>1, <1>2, <1>4 DEF Sound, RowsFed, CatalogRows
<1>9. Writes(job'[p])
  BY <1>4 DEF Writes
<1> QED
  BY <1>1, <1>3, <1>4, <1>5, <1>6, <1>7, <1>8, <1>9, PlainStep DEF cacheVars

LEMMA RecheckSourceKeeps ==
  ASSUME EvidenceInv, NEW p \in Proc, SpentOn, RecheckSource(p),
         UNCHANGED <<spillVars, evidenceVars, receipts>>
  PROVE  EvidenceInv'
<1>1. /\ job[p].pc = "recheck" /\ UNCHANGED cacheVars
      /\ job' = [job EXCEPT ![p].pc = "rename"]
  BY DEF RecheckSource, At, Go
<1>2. Sound(p, job[p]) /\ file \in File
  BY DEF EvidenceInv, Processes, Surroundings
<1>3. DOMAIN job' = Proc /\ DOMAIN job'[p] = Fields /\ \A q \in Proc \ {p} : job'[q] = job[q]
  BY <1>1, <1>2 DEF EvidenceInv, Processes, Sound
<1>4. /\ job'[p].cmd = job[p].cmd /\ job'[p].staged = job[p].staged
      /\ job'[p].digest = job[p].digest /\ job'[p].hash = job[p].hash
      /\ job'[p].body = job[p].body /\ job'[p].feed = job[p].feed
      /\ job'[p].files = job[p].files /\ job'[p].pc = "rename"
  BY <1>1, <1>2 DEF EvidenceInv, Processes, Sound, Fields, Shared
<1>5. Commands(job'[p])
  BY <1>1, <1>2, <1>4 DEF Sound, Commands, NoJob
<1>6. (Guards(job'[p]) <=> Guards(job[p])) /\ (job'[p].staged <=> Stages(job'[p]))
  BY <1>1, <1>2, <1>4 DEF Sound, Guards, Stages, Commands, NoJob
<1>7. SourceRead(job'[p], file, spent["rewrite"])
  BY <1>1, <1>2, <1>4 DEF Sound, SourceRead
<1>8. RowsFed(job'[p])
  BY <1>1, <1>2, <1>4 DEF Sound, RowsFed, CatalogRows
<1>9. Writes(job'[p])
  BY <1>4 DEF Writes
<1> QED
  BY <1>1, <1>3, <1>4, <1>5, <1>6, <1>7, <1>8, <1>9, PlainStep DEF cacheVars

-----------------------------------------------------------------------------
(***************************************************************************)
(* Opening, and analyses outside the lock.                                 *)
(***************************************************************************)
LEMMA CheckEnvelopeKeeps ==
  ASSUME EvidenceInv, NEW p \in Proc, SpentOn, CheckEnvelope(p),
         UNCHANGED <<spillVars, evidenceVars, receipts>>
  PROVE  EvidenceInv'
<1>1. /\ job[p].pc = "envelope" /\ UNCHANGED cacheVars
      /\ job' = [job EXCEPT ![p].staged = TRUE, ![p].pc = "regenerate"]
      /\ Room
  BY DEF CheckEnvelope, At, Go
<1>2. Sound(p, job[p]) /\ file \in File
  BY DEF EvidenceInv, Processes, Surroundings
<1>3. DOMAIN job' = Proc /\ DOMAIN job'[p] = Fields /\ \A q \in Proc \ {p} : job'[q] = job[q]
  BY <1>1, <1>2 DEF EvidenceInv, Processes, Sound
<1>4. /\ job'[p].cmd = job[p].cmd /\ job'[p].digest = job[p].digest
      /\ job'[p].hash = job[p].hash /\ job'[p].body = job[p].body
      /\ job'[p].feed = job[p].feed /\ job'[p].files = job[p].files
      /\ job'[p].staged = TRUE /\ job'[p].pc = "regenerate"
  BY <1>1, <1>2 DEF EvidenceInv, Processes, Sound, Fields, Shared
<1>5. Commands(job'[p])
  BY <1>1, <1>2, <1>4 DEF Sound, Commands, NoJob
<1>6. (Guards(job'[p]) <=> Guards(job[p])) /\ (job'[p].staged <=> Stages(job'[p]))
  BY <1>1, <1>2, <1>4 DEF Sound, Guards, Stages, Commands, NoJob
<1>7. SourceRead(job'[p], file, spent["rewrite"])
  BY <1>2, <1>4 DEF Sound, SourceRead
<1>8. RowsFed(job'[p])
  BY <1>1, <1>2, <1>4 DEF Sound, RowsFed
<1>9. Writes(job'[p])
  BY <1>4 DEF Writes
<1> QED
  BY <1>1, <1>3, <1>4, <1>5, <1>6, <1>7, <1>8, <1>9, PlainStep DEF cacheVars

LEMMA RegenerateKeeps ==
  ASSUME EvidenceInv, NEW p \in Proc, SpentOn, Regenerate(p),
         UNCHANGED <<spillVars, evidenceVars, receipts>>
  PROVE  EvidenceInv'
<1>1. /\ job[p].pc = "regenerate" /\ UNCHANGED cacheVars
      /\ job' = [job EXCEPT ![p].staged = FALSE, ![p].pc = "opened"]
  BY DEF Regenerate, At, Go
<1>2. Sound(p, job[p]) /\ file \in File
  BY DEF EvidenceInv, Processes, Surroundings
<1>3. DOMAIN job' = Proc /\ DOMAIN job'[p] = Fields /\ \A q \in Proc \ {p} : job'[q] = job[q]
  BY <1>1, <1>2 DEF EvidenceInv, Processes, Sound
<1>4. /\ job'[p].cmd = job[p].cmd /\ job'[p].digest = job[p].digest
      /\ job'[p].hash = job[p].hash /\ job'[p].body = job[p].body
      /\ job'[p].feed = job[p].feed /\ job'[p].files = job[p].files
      /\ job'[p].staged = FALSE /\ job'[p].pc = "opened"
  BY <1>1, <1>2 DEF EvidenceInv, Processes, Sound, Fields, Shared
<1>5. Commands(job'[p])
  BY <1>1, <1>2, <1>4 DEF Sound, Commands, NoJob
<1>6. (Guards(job'[p]) <=> Guards(job[p])) /\ (job'[p].staged <=> Stages(job'[p]))
  BY <1>1, <1>2, <1>4 DEF Sound, Guards, Stages, Commands, NoJob
<1>7. SourceRead(job'[p], file, spent["rewrite"])
  BY <1>2, <1>4 DEF Sound, SourceRead
<1>8. RowsFed(job'[p])
  BY <1>1, <1>2, <1>4 DEF Sound, RowsFed
<1>9. Writes(job'[p])
  BY <1>4 DEF Writes
<1> QED
  BY <1>1, <1>3, <1>4, <1>5, <1>6, <1>7, <1>8, <1>9, PlainStep DEF cacheVars

LEMMA CompileKeeps ==
  ASSUME EvidenceInv, NEW p \in Proc, SpentOn, Compile(p),
         UNCHANGED <<spillVars, evidenceVars, receipts>>
  PROVE  EvidenceInv'
<1>1. /\ job[p].pc = "compile" /\ UNCHANGED cacheVars
      /\ job' = [job EXCEPT ![p].result = ZeroResult(Wanted(p).op), ![p].left = Wanted(p).ids,
                            ![p].pc = "lock"]
  BY DEF Compile, At, Go
<1>2. Sound(p, job[p]) /\ file \in File
  BY DEF EvidenceInv, Processes, Surroundings
<1>3. DOMAIN job' = Proc /\ DOMAIN job'[p] = Fields /\ \A q \in Proc \ {p} : job'[q] = job[q]
  BY <1>1, <1>2 DEF EvidenceInv, Processes, Sound
<1>4. /\ job'[p].cmd = job[p].cmd /\ job'[p].staged = job[p].staged
      /\ job'[p].digest = job[p].digest /\ job'[p].hash = job[p].hash
      /\ job'[p].body = job[p].body /\ job'[p].feed = job[p].feed
      /\ job'[p].files = job[p].files /\ job'[p].result = ZeroResult(Wanted(p).op)
      /\ job'[p].left = Wanted(p).ids /\ job'[p].pc = "lock"
  BY <1>1, <1>2 DEF EvidenceInv, Processes, Sound, Fields, Shared
<1>5. Commands(job'[p])
  BY <1>1, <1>2, <1>4 DEF Sound, Commands, NoJob
<1>6. (Guards(job'[p]) <=> Guards(job[p])) /\ (job'[p].staged <=> Stages(job'[p]))
  BY <1>1, <1>2, <1>4 DEF Sound, Guards, Stages, Commands, NoJob
<1>7. SourceRead(job'[p], file, spent["rewrite"])
  BY <1>2, <1>4 DEF Sound, SourceRead
<1>8. RowsFed(job'[p])
  BY <1>1, <1>2, <1>4 DEF Sound, RowsFed
<1>9. Writes(job'[p])
  BY <1>4 DEF Writes
<1> QED
  BY <1>1, <1>3, <1>4, <1>5, <1>6, <1>7, <1>8, <1>9, PlainStep DEF cacheVars

LEMMA WriteResultKeeps ==
  ASSUME EvidenceInv, NEW p \in Proc, SpentOn, WriteResult(p),
         UNCHANGED <<spillVars, evidenceVars, receipts>>
  PROVE  EvidenceInv'
<1>1. /\ job[p].pc = "receipt" /\ UNCHANGED cacheVars
      /\ job' = [job EXCEPT ![p].files = {"result"}, ![p].pc = "write"]
  BY DEF WriteResult, At, Go
<1>2. Sound(p, job[p]) /\ file \in File
  BY DEF EvidenceInv, Processes, Surroundings
<1>3. DOMAIN job' = Proc /\ DOMAIN job'[p] = Fields /\ \A q \in Proc \ {p} : job'[q] = job[q]
  BY <1>1, <1>2 DEF EvidenceInv, Processes, Sound
<1>4. /\ job'[p].cmd = job[p].cmd /\ job'[p].staged = job[p].staged
      /\ job'[p].digest = job[p].digest /\ job'[p].hash = job[p].hash
      /\ job'[p].body = job[p].body /\ job'[p].feed = job[p].feed
      /\ job'[p].files = {"result"} /\ job'[p].pc = "write"
  BY <1>1, <1>2 DEF EvidenceInv, Processes, Sound, Fields, Shared
<1>5. Commands(job'[p])
  <2>1. job[p].pc = "receipt"
    BY <1>1
  <2> QED
    BY <1>2, <1>4, <2>1 DEF Sound, Commands, NoJob
<1>6. (Guards(job'[p]) <=> Guards(job[p])) /\ (job'[p].staged <=> Stages(job'[p]))
  BY <1>1, <1>2, <1>4 DEF Sound, Guards, Stages, Commands, NoJob
<1>7. SourceRead(job'[p], file, spent["rewrite"])
  BY <1>2, <1>4 DEF Sound, SourceRead
<1>8. RowsFed(job'[p])
  BY <1>1, <1>2, <1>4 DEF Sound, RowsFed
<1>9. Writes(job'[p])
  BY <1>4 DEF Writes
<1> QED
  BY <1>1, <1>3, <1>4, <1>5, <1>6, <1>7, <1>8, <1>9, PlainStep DEF cacheVars

LEMMA WriteReceiptKeeps ==
  ASSUME EvidenceInv, NEW p \in Proc, SpentOn, WriteReceipt(p),
         UNCHANGED <<spillVars, evidenceVars, receipts>>
  PROVE  EvidenceInv'
<1>1. /\ job[p].pc = "write" /\ UNCHANGED cacheVars
      /\ job' = [job EXCEPT ![p].files = @ \cup {"receipt"}, ![p].pc = "expose"]
  BY DEF WriteReceipt, At, Go
<1>2. Sound(p, job[p]) /\ file \in File
  BY DEF EvidenceInv, Processes, Surroundings
<1>3. DOMAIN job' = Proc /\ DOMAIN job'[p] = Fields /\ \A q \in Proc \ {p} : job'[q] = job[q]
  BY <1>1, <1>2 DEF EvidenceInv, Processes, Sound
<1>4. /\ job'[p].cmd = job[p].cmd /\ job'[p].staged = job[p].staged
      /\ job'[p].digest = job[p].digest /\ job'[p].hash = job[p].hash
      /\ job'[p].body = job[p].body /\ job'[p].feed = job[p].feed
      /\ job'[p].files = job[p].files \cup {"receipt"} /\ job'[p].pc = "expose"
  BY <1>1, <1>2 DEF EvidenceInv, Processes, Sound, Fields, Shared
<1>5. Commands(job'[p])
  <2>1. job[p].pc = "write"
    BY <1>1
  <2> QED
    BY <1>2, <1>4, <2>1 DEF Sound, Commands, NoJob
<1>6. (Guards(job'[p]) <=> Guards(job[p])) /\ (job'[p].staged <=> Stages(job'[p]))
  BY <1>1, <1>2, <1>4 DEF Sound, Guards, Stages, Commands, NoJob
<1>7. SourceRead(job'[p], file, spent["rewrite"])
  BY <1>2, <1>4 DEF Sound, SourceRead
<1>8. RowsFed(job'[p])
  BY <1>1, <1>2, <1>4 DEF Sound, RowsFed
<1>9. Writes(job'[p])
  BY <1>1, <1>2, <1>4 DEF Sound, Writes
<1> QED
  BY <1>1, <1>3, <1>4, <1>5, <1>6, <1>7, <1>8, <1>9, PlainStep DEF cacheVars

-----------------------------------------------------------------------------
(***************************************************************************)
(* Commands that begin.                                                    *)
(***************************************************************************)
LEMMA StartViewKeeps ==
  ASSUME EvidenceInv, NEW p \in Proc, SpentOn, StartView(p),
         UNCHANGED <<spillVars, evidenceVars, receipts>>
  PROVE  EvidenceInv'
<1>1. job[p].pc = "idle" /\ UNCHANGED cacheVars
  BY DEF StartView, Running
<1>2. Sound(p, job[p])
  BY DEF EvidenceInv, Processes
<1>3. /\ DOMAIN job' = Proc /\ DOMAIN job'[p] = Fields /\ \A q \in Proc \ {p} : job'[q] = job[q]
      /\ job'[p].cmd = [op |-> "view"] /\ job'[p].pc = "hash" /\ job'[p].staged = FALSE
      /\ job'[p].digest = <<>>
  BY DEF StartView, EvidenceInv, Processes, NoJob, Fields
<1>4. Commands(job'[p])
  BY <1>3 DEF Commands
<1>5. (Guards(job'[p]) <=> Guards(job[p])) /\ (job'[p].staged <=> Stages(job'[p]))
  BY <1>1, <1>3 DEF Guards, Stages
<1>6. SourceRead(job'[p], file, spent["rewrite"]) /\ RowsFed(job'[p]) /\ Writes(job'[p])
  BY <1>3 DEF SourceRead, RowsFed, Writes
<1> QED
  BY <1>1, <1>3, <1>4, <1>5, <1>6, PlainStep DEF cacheVars

LEMMA StartRetainKeeps ==
  ASSUME EvidenceInv, NEW p \in Proc, SpentOn, NEW r \in Retentions, StartRetain(p, r[1], r[2]),
         UNCHANGED <<spillVars, evidenceVars, receipts>>
  PROVE  EvidenceInv'
<1>1. job[p].pc = "idle" /\ UNCHANGED cacheVars
  BY DEF StartRetain, Running
<1>2. Sound(p, job[p])
  BY DEF EvidenceInv, Processes
<1>3. /\ DOMAIN job' = Proc /\ DOMAIN job'[p] = Fields /\ \A q \in Proc \ {p} : job'[q] = job[q]
      /\ job'[p].cmd = [op |-> "retain", snapshot |-> r[1], source |-> r[2]]
      /\ job'[p].pc = "bind" /\ job'[p].staged = FALSE
      /\ job'[p].digest = <<>>
  BY DEF StartRetain, EvidenceInv, Processes, NoJob, Fields
<1>4. Commands(job'[p])
  BY <1>3, RetentionAssumption DEF Commands
<1>5. (Guards(job'[p]) <=> Guards(job[p])) /\ (job'[p].staged <=> Stages(job'[p]))
  BY <1>1, <1>3 DEF Guards, Stages
<1>6. SourceRead(job'[p], file, spent["rewrite"]) /\ RowsFed(job'[p]) /\ Writes(job'[p])
  BY <1>3 DEF SourceRead, RowsFed, Writes
<1> QED
  BY <1>1, <1>3, <1>4, <1>5, <1>6, PlainStep DEF cacheVars

LEMMA StartVerifyKeeps ==
  ASSUME EvidenceInv, NEW p \in Proc, SpentOn, NEW id, StartVerify(p, id),
         UNCHANGED <<spillVars, evidenceVars, receipts>>
  PROVE  EvidenceInv'
<1>1. job[p].pc = "idle" /\ UNCHANGED cacheVars
  BY DEF StartVerify, Running
<1>2. Sound(p, job[p])
  BY DEF EvidenceInv, Processes
<1>3. /\ DOMAIN job' = Proc /\ DOMAIN job'[p] = Fields /\ \A q \in Proc \ {p} : job'[q] = job[q]
      /\ job'[p].cmd = [op |-> "verify", id |-> id] /\ job'[p].pc = "lock" /\ job'[p].staged = FALSE
      /\ job'[p].digest = <<>>
  BY DEF StartVerify, EvidenceInv, Processes, NoJob, Fields
<1>4. Commands(job'[p])
  BY <1>3 DEF Commands
<1>5. (Guards(job'[p]) <=> Guards(job[p])) /\ (job'[p].staged <=> Stages(job'[p]))
  BY <1>1, <1>3 DEF Guards, Stages
<1>6. SourceRead(job'[p], file, spent["rewrite"]) /\ RowsFed(job'[p]) /\ Writes(job'[p])
  BY <1>3 DEF SourceRead, RowsFed, Writes
<1> QED
  BY <1>1, <1>3, <1>4, <1>5, <1>6, PlainStep DEF cacheVars

LEMMA StartAnalyzeKeeps ==
  ASSUME EvidenceInv, NEW p \in Proc, SpentOn, NEW request, StartAnalyze(p, request),
         UNCHANGED <<spillVars, evidenceVars, receipts>>
  PROVE  EvidenceInv'
<1>1. job[p].pc = "idle" /\ UNCHANGED cacheVars
  BY DEF StartAnalyze, Running
<1>2. Sound(p, job[p])
  BY DEF EvidenceInv, Processes
<1>3. /\ DOMAIN job' = Proc /\ DOMAIN job'[p] = Fields /\ \A q \in Proc \ {p} : job'[q] = job[q]
      /\ job'[p].cmd = [op |-> "analyze", request |-> request]
      /\ job'[p].pc = "lock" /\ job'[p].staged = FALSE
      /\ job'[p].digest = <<>>
  BY DEF StartAnalyze, EvidenceInv, Processes, NoJob, Fields
<1>4. Commands(job'[p])
  BY <1>3 DEF Commands
<1>5. (Guards(job'[p]) <=> Guards(job[p])) /\ (job'[p].staged <=> Stages(job'[p]))
  BY <1>1, <1>3 DEF Guards, Stages
<1>6. SourceRead(job'[p], file, spent["rewrite"]) /\ RowsFed(job'[p]) /\ Writes(job'[p])
  BY <1>3 DEF SourceRead, RowsFed, Writes
<1> QED
  BY <1>1, <1>3, <1>4, <1>5, <1>6, PlainStep DEF cacheVars

-----------------------------------------------------------------------------
(***************************************************************************)
(* The lock.                                                               *)
(***************************************************************************)
LEMMA LockStep ==
  ASSUME EvidenceInv, NEW p \in Proc, SpentOn, DOMAIN job' = Proc,
         \A q \in Proc \ {p} : job'[q] = job[q],
         UNCHANGED <<caches, spillVars, bundles, abandoned, receipts>>,
         (guard = None /\ guard' = p) \/ (guard = p /\ guard' = None),
         guard' = p <=> Guards(job'[p]),
         DOMAIN job'[p] = Fields, Commands(job'[p]), Writes(job'[p]),
         ~job'[p].staged, ~Stages(job'[p]),
         SourceRead(job'[p], file, spent["rewrite"]), RowsFed(job'[p]),
         job'[p].pc \notin {"push", "merge"}
  PROVE  EvidenceInv'
<1>1. UNCHANGED <<caches, bundles, abandoned, receipts>> /\ UNCHANGED spillVars
  OBVIOUS
<1>2. OthersStay(p)
  BY <1>1 DEF OthersStay
<1>3. RowsFed(job[p])'
  BY DEF RowsFed, Digesting, CatalogRows, CatalogSource
<1>4. Sound(p, job[p])'
  BY <1>1, <1>3 DEF Sound, SpentOn, EvidenceInv, Processes
<1>5. SpillInv'
  BY <1>1, SpillStutterHolds DEF EvidenceInv
<1> QED
  BY <1>1, <1>2, <1>4, <1>5, QuietStep

LEMMA AcquireKeeps ==
  ASSUME EvidenceInv, NEW p \in Proc, SpentOn, Acquire(p), UNCHANGED receipts
  PROVE  EvidenceInv'
<1>1. /\ job[p].pc = "lock" /\ guard = None /\ guard' = p
      /\ UNCHANGED <<caches, bundles, abandoned, receipts>> /\ UNCHANGED spillVars
      /\ job' = [job EXCEPT ![p].pc = IF Retains(p) THEN "room" ELSE "envelope"]
  BY DEF Acquire, At, Go, Locks, cacheVars
<1>2. Sound(p, job[p])
  BY DEF EvidenceInv, Processes
<1>3. /\ DOMAIN job' = Proc /\ DOMAIN job'[p] = Fields /\ \A q \in Proc \ {p} : job'[q] = job[q]
      /\ job'[p].cmd = job[p].cmd /\ job'[p].staged = job[p].staged /\ job'[p].digest = job[p].digest
      /\ job'[p].pc = IF job[p].cmd.op = "retain" THEN "room" ELSE "envelope"
  BY <1>1, <1>2 DEF EvidenceInv, Processes, Sound, Fields, Retains, Running
<1>4. Commands(job'[p])
  BY <1>1, <1>2, <1>3 DEF Sound, Commands, NoJob
<1>5. Guards(job'[p]) /\ ~Stages(job'[p]) /\ ~job'[p].staged
  BY <1>1, <1>2, <1>3 DEF Sound, Guards, Stages
<1>6. SourceRead(job'[p], file, spent["rewrite"]) /\ RowsFed(job'[p]) /\ Writes(job'[p])
  BY <1>1, <1>2, <1>3 DEF Sound, SourceRead, RowsFed, Writes
<1> QED
  BY <1>1, <1>3, <1>4, <1>5, <1>6, LockStep

LEMMA NoteEvidenceKeeps ==
  ASSUME EvidenceInv, NEW p \in Proc, SpentOn, NoteEvidence(p)
  PROVE  EvidenceInv'
<1>1. /\ job[p].pc = "opened" /\ job[p].cmd.op = "analyze" /\ guard' = None
      /\ UNCHANGED <<caches, bundles, abandoned, receipts>> /\ UNCHANGED spillVars
  BY DEF NoteEvidence, At, Analyzes, cacheVars
<1>2. Sound(p, job[p])
  BY DEF EvidenceInv, Processes
<1>3. /\ DOMAIN job' = Proc /\ DOMAIN job'[p] = Fields /\ \A q \in Proc \ {p} : job'[q] = job[q]
      /\ job'[p].cmd = job[p].cmd /\ job'[p].staged = job[p].staged /\ job'[p].digest = job[p].digest
      /\ job'[p].pc \in {"lock", "compile"}
  BY <1>2 DEF EvidenceInv, Processes, Sound, Fields, Proceed, NoteEvidence
<1>4. Commands(job'[p])
  BY <1>1, <1>3 DEF Commands
<1>5. guard = p /\ guard' # p /\ ~Guards(job'[p]) /\ ~Stages(job'[p]) /\ ~job'[p].staged
  BY <1>1, <1>2, <1>3, NoneAssumption DEF Sound, Guards, Stages
<1>6. SourceRead(job'[p], file, spent["rewrite"]) /\ RowsFed(job'[p]) /\ Writes(job'[p])
  BY <1>1, <1>2, <1>3 DEF Sound, SourceRead, RowsFed, Writes
<1> QED
  BY <1>1, <1>3, <1>4, <1>5, <1>6, LockStep

LEMMA ScanAttemptsKeeps ==
  ASSUME EvidenceInv, NEW p \in Proc, SpentOn, ScanAttempts(p)
  PROVE  EvidenceInv'
<1>1. /\ job[p].pc = "opened" /\ job[p].cmd.op = "analyze" /\ guard' = None
      /\ UNCHANGED <<caches, bundles, abandoned, receipts>> /\ UNCHANGED spillVars
  BY DEF ScanAttempts, At, Analyzes, cacheVars
<1>2. Sound(p, job[p])
  BY DEF EvidenceInv, Processes
<1>3. /\ DOMAIN job' = Proc /\ DOMAIN job'[p] = Fields /\ \A q \in Proc \ {p} : job'[q] = job[q]
      /\ job'[p].cmd = job[p].cmd /\ job'[p].staged = job[p].staged /\ job'[p].digest = job[p].digest
      /\ job'[p].pc \in {"lock", "receipt"}
  BY <1>2 DEF EvidenceInv, Processes, Sound, Fields, Proceed, ScanAttempts
<1>4. Commands(job'[p])
  BY <1>1, <1>3 DEF Commands
<1>5. guard = p /\ guard' # p /\ ~Guards(job'[p]) /\ ~Stages(job'[p]) /\ ~job'[p].staged
  BY <1>1, <1>2, <1>3, NoneAssumption DEF Sound, Guards, Stages
<1>6. SourceRead(job'[p], file, spent["rewrite"]) /\ RowsFed(job'[p]) /\ Writes(job'[p])
  BY <1>1, <1>2, <1>3 DEF Sound, SourceRead, RowsFed, Writes
<1> QED
  BY <1>1, <1>3, <1>4, <1>5, <1>6, LockStep

-----------------------------------------------------------------------------
(***************************************************************************)
(* The comparison.                                                         *)
(***************************************************************************)
\* When all runs are one, the replay hands out every record that is held.
LEMMA ReplayIsHeld ==
  ASSUME SpillInv, spill = "sorted"
  PROVE  Replay \in Seq(SpillRecord) /\ Ordered(Replay) /\ RecordsOf(Replay) = Held
<1>1. /\ chunk = <<>> /\ pass.from \in Nat /\ pass.to \in Nat
      /\ pass.from <= pass.to /\ pass.to <= pass.from + 1
      /\ DOMAIN spilled = pass.from .. pass.to - 1
  BY DEF SpillInv, SpillTypes, RunsPresent
<1>2. Held = OnDisk
  BY <1>1 DEF Held, RecordsOf
<1>3. CASE pass.from < pass.to
  <2>1. DOMAIN spilled = {pass.from}
    BY <1>1, <1>3
  <2>2. Replay = spilled[pass.from]
    BY <1>3 DEF Replay
  <2>3. Replay \in Seq(SpillRecord) /\ Ordered(Replay)
    BY <2>1, <2>2 DEF SpillInv, SpillTypes, RunsSound
  <2>4. OnDisk = RecordsOf(Replay)
    BY <2>1, <2>2 DEF OnDisk
  <2> QED
    BY <1>2, <2>3, <2>4
<1>4. CASE ~(pass.from < pass.to)
  <2>1. DOMAIN spilled = {} /\ Replay = <<>>
    BY <1>1, <1>4 DEF Replay
  <2>2. OnDisk = {} /\ RecordsOf(Replay) = {}
    BY <2>1 DEF OnDisk, RecordsOf
  <2> QED
    BY <1>2, <2>1, <2>2 DEF Ordered
<1> QED
  BY <1>3, <1>4

\* The keys that are replayed are those of the rows that were fed, each as often.
LEMMA ReplayCounts ==
  ASSUME SpillInv, spill = "sorted", NEW input \in Seq(Key), sequence = Len(input), Fed(input)
  PROVE  SameCounts(KeysOf(Replay), input)
<1>1. Replay \in Seq(SpillRecord) /\ Ordered(Replay) /\ RecordsOf(Replay) = Held
  BY ReplayIsHeld
<1>2. /\ Apart(Held) /\ {r.sequence : r \in Held} = 0 .. sequence - 1
      /\ \A r \in Held : r.sequence \in Nat
  BY SequenceIsFree DEF SpillInv, RunsSound, SpillRecord
<1>3. \A i, j \in DOMAIN Replay : Replay[i] = Replay[j] => i = j
  <2> SUFFICES ASSUME NEW i \in DOMAIN Replay, NEW j \in DOMAIN Replay, Replay[i] = Replay[j], i < j
               PROVE  FALSE
    BY <1>1
  <2>1. Before(Replay[i], Replay[j]) /\ Replay[i] \in SpillRecord
    BY <1>1 DEF Ordered
  <2> QED
    BY <2>1, BeforeIsOrder
<1>4. /\ KeysOf(Replay) = [i \in DOMAIN Replay |-> Replay[i].key] /\ DOMAIN Replay = 1 .. Len(Replay)
      /\ Len(Replay) \in Nat
      /\ DOMAIN input = 1 .. Len(input) /\ Len(input) \in Nat
  BY <1>1 DEF KeysOf
<1>5. ASSUME NEW i \in DOMAIN Replay
      PROVE  /\ Replay[i] \in Held /\ Replay[i].sequence + 1 \in DOMAIN input
             /\ Replay[i].key = input[Replay[i].sequence + 1]
  BY <1>1 DEF RecordsOf, Fed
<1>6. ASSUME NEW n \in DOMAIN input PROVE \E i \in DOMAIN Replay : Replay[i].sequence + 1 = n
  <2>1. n - 1 \in 0 .. sequence - 1
    BY <1>4
  <2>2. PICK r \in Held : r.sequence = n - 1
    BY <1>2, <2>1
  <2>3. PICK i \in DOMAIN Replay : Replay[i] = r
    BY <1>1 DEF RecordsOf
  <2> QED
    BY <1>4, <2>2, <2>3
<1>7. ASSUME NEW key \in Key PROVE Occurrences(KeysOf(Replay), key) = Occurrences(input, key)
  <2> DEFINE A == {i \in DOMAIN Replay : Replay[i].key = key}
             B == {n \in DOMAIN input : input[n] = key}
             f == [i \in A |-> Replay[i].sequence + 1]
  <2>1. f \in [A -> B]
    BY <1>5
  <2>2. ASSUME NEW i \in A, NEW j \in A, f[i] = f[j] PROVE i = j
    <3>1. Replay[i].sequence = Replay[j].sequence
      BY <1>2, <1>5, <2>2
    <3> QED
      BY <1>2, <1>3, <1>5, <3>1 DEF Apart
  <2>3. \A n \in B : \E i \in A : f[i] = n
    BY <1>5, <1>6
  <2>4. f \in Bijection(A, B)
    BY <2>1, <2>2, <2>3 DEF Bijection, Injection, Surjection, IsInjective
  <2>5. ExistsBijection(A, B)
    BY <2>4 DEF ExistsBijection
  <2>6. IsFiniteSet(A)
    <3>1. IsFiniteSet(1 .. Len(Replay))
      BY <1>4, FS_Interval
    <3> QED
      BY <1>4, <3>1, FS_Subset
  <2>7. {i \in DOMAIN KeysOf(Replay) : KeysOf(Replay)[i] = key} = A
    BY <1>4
  <2> HIDE DEF A, B
  <2>8. Cardinality(A) = Cardinality(B)
    BY <2>5, <2>6, FS_Bijection
  <2> QED
    BY <2>7, <2>8 DEF Occurrences, A, B
<1> QED
  BY <1>7 DEF SameCounts

LEMMA RowsAreKeys ==
  ASSUME NEW p \in Proc, Sound(p, job[p]), job[p].pc \in DigestPcs
  PROVE  /\ job[p].cmd.op = "retain" /\ guard = p /\ job[p].hash \in File /\ job[p].body \in Body
         /\ CatalogRows(job[p]) \in Seq(Key) /\ MeasuredRows[job[p].body] \in Seq(Key)
         /\ Digesting(job[p]) \in Seq(Key)
<1>1. /\ job[p].cmd.op = "retain" /\ job[p].cmd.snapshot \in DOMAIN Catalog
      /\ job[p].cmd.source \in DOMAIN Catalog[job[p].cmd.snapshot].sources
  BY DEF Sound, Commands, NoJob, SourcesIn
<1>2. guard = p
  BY <1>1 DEF Sound, Guards
<1>3. job[p].hash \in File /\ job[p].body \in Body
  BY DEF Sound, SourceRead
<1>4. CatalogRows(job[p]) \in Seq(Key)
  BY <1>1, EvidenceAssumption DEF CatalogRows, CatalogSource
<1>5. MeasuredRows[job[p].body] \in Seq(Key)
  BY <1>3, EvidenceAssumption
<1> QED
  BY <1>1, <1>2, <1>3, <1>4, <1>5 DEF Digesting

\* A step of the comparison leaves all but its feed, its digest and its place.
LEMMA DigestStep ==
  ASSUME EvidenceInv, NEW p \in Proc, SpentOn, job[p].pc \in DigestPcs,
         DOMAIN job' = Proc, \A q \in Proc \ {p} : job'[q] = job[q],
         UNCHANGED <<caches, evidenceVars, receipts>>, SpillInv',
         DOMAIN job'[p] = Fields, job'[p].cmd = job[p].cmd, job'[p].staged = job[p].staged,
         job'[p].hash = job[p].hash, job'[p].body = job[p].body,
         job'[p].pc \in DigestPcs \cup {"seal"}, RowsFed(job[p])'
  PROVE  EvidenceInv'
<1>1. Sound(p, job[p])
  BY DEF EvidenceInv, Processes
<1>2. job[p].cmd.op = "retain" /\ guard = p /\ guard' = p
  BY <1>1, RowsAreKeys DEF evidenceVars
<1>3. UNCHANGED <<caches, bundles, abandoned, receipts>>
  BY DEF evidenceVars
<1>4. OthersStay(p)
  BY <1>2 DEF OthersStay
<1>5. Commands(job'[p]) /\ Writes(job'[p]) /\ Guards(job'[p]) /\ job'[p].staged /\ Stages(job'[p])
  BY <1>1, <1>2 DEF Sound, Commands, NoJob, Guards, Stages, Writes
<1>6. SourceRead(job'[p], file, spent["rewrite"])
  BY <1>1 DEF Sound, SourceRead
<1>7. Sound(p, job[p])'
  BY <1>2, <1>5, <1>6 DEF Sound, SpentOn
<1> QED
  BY <1>1, <1>3, <1>4, <1>5, <1>7, QuietStep

LEMMA OpenDigestKeeps ==
  ASSUME EvidenceInv, NEW p \in Proc, SpentOn, OpenDigest(p), UNCHANGED receipts
  PROVE  EvidenceInv'
<1>1. /\ job[p].pc = "compare" /\ job' = [job EXCEPT ![p].pc = "push"]
      /\ UNCHANGED <<caches, evidenceVars, receipts>>
  BY DEF OpenDigest, At, Go, cacheVars
<1>2. Sound(p, job[p]) /\ DOMAIN job = Proc
  BY DEF EvidenceInv, Processes
<1>3. /\ DOMAIN job' = Proc /\ \A q \in Proc \ {p} : job'[q] = job[q]
      /\ DOMAIN job'[p] = Fields /\ job'[p].cmd = job[p].cmd /\ job'[p].staged = job[p].staged
      /\ job'[p].hash = job[p].hash /\ job'[p].body = job[p].body /\ job'[p].digest = job[p].digest
      /\ job'[p].feed = job[p].feed /\ job'[p].pc = "push"
  BY <1>1, <1>2 DEF Sound, Fields
<1>4. PICK limit \in Nat : SpillOpen(limit)
  BY EvidenceAssumption DEF OpenDigest
<1>5. SpillInv' /\ Held' = Held /\ spill' = "filling" /\ sequence' = 0 /\ Held = {}
  <2>1. spill = "none" /\ spill' = "filling" /\ sequence' = sequence
    BY <1>4 DEF SpillOpen
  <2>2. DOMAIN spilled = {} /\ chunk = <<>> /\ sequence = 0
    BY <2>1 DEF EvidenceInv, SpillInv, RunsPresent
  <2>3. Held = {}
    BY <2>2 DEF Held, OnDisk, RecordsOf
  <2>4. SpillInv' /\ Held' = Held
    BY <1>4, SpillOpenHolds DEF EvidenceInv
  <2> QED
    BY <2>1, <2>2, <2>3, <2>4
<1>6. RowsFed(job[p])'
  <2> DEFINE input == Digesting(job[p])
  <2>1. job[p].feed = input /\ input \in Seq(Key)
    BY <1>1, <1>2, RowsAreKeys DEF Sound, RowsFed
  <2>2. Digesting(job'[p]) = input /\ CatalogRows(job'[p]) = CatalogRows(job[p])
    BY <1>3 DEF Digesting, CatalogRows
  <2>3. Fed(input)'
    BY <1>5 DEF Fed
  <2>4. 0 + Len(input) = Len(input) /\ \A i \in DOMAIN input : 0 + i = i
    BY <2>1
  <2>5. job'[p].digest # <<>> => Len(job'[p].digest) = 1 /\ SameCounts(job'[p].digest[1], CatalogRows(job'[p]))
    BY <1>2, <1>3, <2>2 DEF Sound, RowsFed
  <2>6. job'[p].hash = CatalogSource(job'[p].cmd).file
    BY <1>1, <1>2, <1>3 DEF Sound, RowsFed
  <2> HIDE DEF input
  <2>7. /\ Fed(Digesting(job[p]))' /\ job'[p].feed \in Seq(Key)
        /\ sequence' + Len(job'[p].feed) = Len(Digesting(job'[p]))
        /\ \A i \in DOMAIN job'[p].feed : job'[p].feed[i] = Digesting(job'[p])[sequence' + i]
    BY <1>3, <1>5, <2>1, <2>2, <2>3, <2>4 DEF Fed
  <2> QED
    BY <1>3, <1>5, <2>5, <2>6, <2>7 DEF RowsFed, Digesting, CatalogRows, CatalogSource
<1> QED
  BY <1>1, <1>3, <1>5, <1>6, DigestStep

\* What a step within one digest keeps of RowsFed.
LEMMA SameDigest ==
  ASSUME NEW p \in Proc, RowsFed(job[p]), job[p].pc \in DigestPcs, job'[p].pc \in {"push", "merge"},
         job'[p].cmd = job[p].cmd, job'[p].hash = job[p].hash, job'[p].body = job[p].body,
         job'[p].digest = job[p].digest,
         job'[p].pc = "push" =>
           /\ spill' = "filling" /\ Fed(Digesting(job[p]))'
           /\ job'[p].feed \in Seq(Key) /\ sequence' + Len(job'[p].feed) = Len(Digesting(job'[p]))
           /\ \A i \in DOMAIN job'[p].feed : job'[p].feed[i] = Digesting(job'[p])[sequence' + i],
         job'[p].pc = "merge" =>
           /\ spill' \in {"merging", "sorted"} /\ Fed(Digesting(job[p]))'
           /\ sequence' = Len(Digesting(job'[p]))
  PROVE  RowsFed(job[p])'
<1>1. CatalogRows(job'[p]) = CatalogRows(job[p])
  BY DEF CatalogRows
<1>2. job'[p].digest # <<>> => Len(job'[p].digest) = 1 /\ SameCounts(job'[p].digest[1], CatalogRows(job'[p]))
  BY <1>1 DEF RowsFed
<1>3. job'[p].hash = CatalogSource(job'[p].cmd).file
  BY DEF RowsFed
<1> QED
  BY <1>2, <1>3 DEF RowsFed, Digesting, CatalogRows, CatalogSource

LEMMA PushRowKeeps ==
  ASSUME EvidenceInv, NEW p \in Proc, SpentOn, PushRow(p), UNCHANGED receipts
  PROVE  EvidenceInv'
<1>1. /\ job[p].pc = "push" /\ job[p].feed # <<>> /\ SpillPush(Head(job[p].feed))
      /\ job' = [job EXCEPT ![p].feed = Tail(job[p].feed)]
      /\ UNCHANGED <<caches, evidenceVars, receipts>>
  BY DEF PushRow, At, cacheVars
<1>2. Sound(p, job[p]) /\ DOMAIN job = Proc /\ RowsFed(job[p]) /\ SpillInv
  BY DEF EvidenceInv, Processes, Sound
<1>3. /\ DOMAIN job' = Proc /\ \A q \in Proc \ {p} : job'[q] = job[q]
      /\ DOMAIN job'[p] = Fields /\ job'[p].cmd = job[p].cmd /\ job'[p].staged = job[p].staged
      /\ job'[p].hash = job[p].hash /\ job'[p].body = job[p].body /\ job'[p].digest = job[p].digest
      /\ job'[p].feed = Tail(job[p].feed) /\ job'[p].pc = "push"
  BY <1>1, <1>2 DEF Sound, Fields
<1> DEFINE input == Digesting(job[p])
           feed == job[p].feed
<1>4. /\ input \in Seq(Key) /\ feed \in Seq(Key) /\ feed # <<>> /\ sequence \in Nat
      /\ sequence + Len(feed) = Len(input) /\ \A i \in DOMAIN feed : feed[i] = input[sequence + i]
      /\ Fed(input) /\ spill = "filling"
  BY <1>1, <1>2, RowsAreKeys DEF RowsFed, SpillInv, SpillTypes
<1>5. Digesting(job'[p]) = input /\ input' = input
  BY <1>3 DEF Digesting, CatalogRows
<1>6. SpillPush(Head(feed)) /\ job'[p].feed = Tail(feed)
  BY <1>1, <1>3
<1> HIDE DEF input, feed
<1>7. /\ Head(feed) \in Key /\ Head(feed) = feed[1] /\ Tail(feed) \in Seq(Key)
      /\ Len(Tail(feed)) = Len(feed) - 1 /\ Len(feed) \in Nat /\ 1 \in DOMAIN feed
      /\ \A i \in DOMAIN Tail(feed) : Tail(feed)[i] = feed[i + 1] /\ i + 1 \in DOMAIN feed /\ i \in Nat
  BY <1>4
<1>8. /\ SpillInv' /\ Held' = Held \cup {[key |-> Head(feed), sequence |-> sequence]}
      /\ sequence' = sequence + 1 /\ spill' = "filling"
  <2>1. sequence' = sequence + 1 /\ spill' = "filling"
    BY <1>6 DEF SpillPush
  <2> QED
    BY <1>2, <1>6, <1>7, <2>1, PushHolds
<1>9. Fed(input)'
  <2>1. sequence + 1 \in DOMAIN input /\ Head(feed) = input[sequence + 1]
    BY <1>4, <1>7
  <2> QED
    BY <1>4, <1>5, <1>8, <2>1 DEF Fed
<1>10. /\ sequence' + Len(Tail(feed)) = Len(input)
       /\ \A i \in DOMAIN Tail(feed) : Tail(feed)[i] = input[sequence' + i]
  <2>1. sequence' + Len(Tail(feed)) = Len(input)
    BY <1>4, <1>7, <1>8
  <2>2. ASSUME NEW i \in DOMAIN Tail(feed) PROVE Tail(feed)[i] = input[sequence' + i]
    <3>1. Tail(feed)[i] = input[sequence + (i + 1)] /\ i \in Nat
      BY <1>4, <1>7
    <3>2. sequence + (i + 1) = sequence' + i
      BY <1>4, <1>8, <3>1
    <3> QED
      BY <3>1, <3>2
  <2> QED
    BY <2>1, <2>2
<1>11. Fed(Digesting(job[p]))'
  BY <1>9 DEF input
<1>12. RowsFed(job[p])'
  <2>1. /\ job'[p].feed \in Seq(Key) /\ sequence' + Len(job'[p].feed) = Len(Digesting(job'[p]))
        /\ \A i \in DOMAIN job'[p].feed : job'[p].feed[i] = Digesting(job'[p])[sequence' + i]
    BY <1>5, <1>6, <1>7, <1>10
  <2> QED
    BY <1>1, <1>2, <1>3, <1>8, <1>11, <2>1, SameDigest
<1> QED
  BY <1>1, <1>3, <1>8, <1>12, DigestStep

LEMMA FinishRowsKeeps ==
  ASSUME EvidenceInv, NEW p \in Proc, SpentOn, FinishRows(p), UNCHANGED receipts
  PROVE  EvidenceInv'
<1>1. /\ job[p].pc = "push" /\ job[p].feed = <<>> /\ SpillFinish
      /\ job' = [job EXCEPT ![p].pc = "merge"]
      /\ UNCHANGED <<caches, evidenceVars, receipts>>
  BY DEF FinishRows, At, Go, cacheVars
<1>2. Sound(p, job[p]) /\ DOMAIN job = Proc /\ RowsFed(job[p]) /\ SpillInv
  BY DEF EvidenceInv, Processes, Sound
<1>3. /\ DOMAIN job' = Proc /\ \A q \in Proc \ {p} : job'[q] = job[q]
      /\ DOMAIN job'[p] = Fields /\ job'[p].cmd = job[p].cmd /\ job'[p].staged = job[p].staged
      /\ job'[p].hash = job[p].hash /\ job'[p].body = job[p].body /\ job'[p].digest = job[p].digest
      /\ job'[p].pc = "merge"
  BY <1>1, <1>2 DEF Sound, Fields
<1>4. /\ Fed(Digesting(job[p])) /\ sequence \in Nat /\ sequence + Len(job[p].feed) = Len(Digesting(job[p]))
  BY <1>1, <1>2 DEF RowsFed, SpillInv, SpillTypes
<1>5. sequence = Len(Digesting(job[p]))
  BY <1>1, <1>4
<1>6. SpillInv' /\ Held' = Held /\ sequence' = sequence /\ spill' \in {"merging", "sorted"}
  <2>1. sequence' = sequence /\ spill' \in {"merging", "sorted"}
    BY <1>1 DEF SpillFinish
  <2> QED
    BY <1>1, <1>2, <2>1, FinishHolds
<1>7. Digesting(job'[p]) = Digesting(job[p])
  BY <1>3 DEF Digesting, CatalogRows
<1>8. Fed(Digesting(job[p]))'
  BY <1>4, <1>6, <1>7 DEF Fed
<1>9. RowsFed(job[p])'
  BY <1>1, <1>2, <1>3, <1>5, <1>6, <1>7, <1>8, SameDigest
<1> QED
  BY <1>1, <1>3, <1>6, <1>9, DigestStep

LEMMA MergeRowsKeeps ==
  ASSUME EvidenceInv, NEW p \in Proc, SpentOn, MergeRows(p), UNCHANGED receipts
  PROVE  EvidenceInv'
<1>1. /\ job[p].pc = "merge" /\ SpillMerge /\ job' = job
      /\ UNCHANGED <<caches, evidenceVars, receipts>>
  BY DEF MergeRows, At, cacheVars
<1>2. Sound(p, job[p]) /\ DOMAIN job = Proc /\ RowsFed(job[p]) /\ SpillInv
  BY DEF EvidenceInv, Processes, Sound
<1>3. Fed(Digesting(job[p])) /\ sequence = Len(Digesting(job[p]))
  BY <1>1, <1>2 DEF RowsFed
<1>4. SpillInv' /\ Held' = Held /\ sequence' = sequence /\ spill' \in {"merging", "sorted"}
  <2>1. sequence' = sequence /\ spill' \in {"merging", "sorted"}
    BY <1>1 DEF SpillMerge
  <2> QED
    BY <1>1, <1>2, <2>1, MergeHolds
<1>5. Fed(Digesting(job[p]))'
  BY <1>1, <1>3, <1>4 DEF Fed, Digesting, CatalogRows
<1>6. RowsFed(job[p])'
  BY <1>1, <1>2, <1>3, <1>4, <1>5, SameDigest
<1> QED
  BY <1>1, <1>2, <1>4, <1>6, DigestStep DEF Sound

LEMMA FirstDigestKeeps ==
  ASSUME EvidenceInv, NEW p \in Proc, SpentOn, FirstDigest(p), UNCHANGED receipts
  PROVE  EvidenceInv'
<1>1. /\ job[p].pc = "merge" /\ spill = "sorted" /\ job[p].digest = <<>> /\ SpillDrop
      /\ job' = [job EXCEPT ![p].digest = <<KeysOf(Replay)>>,
                            ![p].feed = MeasuredRows[job[p].body], ![p].pc = "compare"]
      /\ UNCHANGED <<caches, evidenceVars, receipts>>
  BY DEF FirstDigest, At, cacheVars
<1>2. Sound(p, job[p]) /\ DOMAIN job = Proc /\ RowsFed(job[p]) /\ SpillInv
  BY DEF EvidenceInv, Processes, Sound
<1>3. /\ DOMAIN job' = Proc /\ \A q \in Proc \ {p} : job'[q] = job[q]
      /\ DOMAIN job'[p] = Fields /\ job'[p].cmd = job[p].cmd /\ job'[p].staged = job[p].staged
      /\ job'[p].hash = job[p].hash /\ job'[p].body = job[p].body
      /\ job'[p].digest = <<KeysOf(Replay)>> /\ job'[p].feed = MeasuredRows[job[p].body]
      /\ job'[p].pc = "compare"
  BY <1>1, <1>2 DEF Sound, Fields
<1>4. CatalogRows(job[p]) \in Seq(Key) /\ Digesting(job[p]) = CatalogRows(job[p])
  BY <1>1, <1>2, RowsAreKeys DEF Digesting
<1>5. SameCounts(KeysOf(Replay), CatalogRows(job[p]))
  BY <1>1, <1>2, <1>4, ReplayCounts DEF RowsFed
<1>6. SpillInv'
  BY <1>1, SpillDropHolds
<1>7. RowsFed(job[p])'
  <2>1. CatalogRows(job'[p]) = CatalogRows(job[p]) /\ Digesting(job'[p]) = MeasuredRows[job[p].body]
    BY <1>3 DEF CatalogRows, Digesting
  <2>2. Len(job'[p].digest) = 1 /\ job'[p].digest[1] = KeysOf(Replay)
    BY <1>3
  <2>3. job'[p].hash = CatalogSource(job'[p].cmd).file
    BY <1>1, <1>2, <1>3 DEF RowsFed
  <2>4. SameCounts(job'[p].digest[1], CatalogRows(job'[p]))
    BY <1>5, <2>1, <2>2
  <2> QED
    BY <1>3, <2>1, <2>2, <2>3, <2>4 DEF RowsFed
<1> QED
  BY <1>1, <1>3, <1>6, <1>7, DigestStep

\* The bags of rows are compared by the rows in order: equal digests are equal bags.
LEMMA CompareDigestsKeeps ==
  ASSUME EvidenceInv, NEW p \in Proc, SpentOn, CompareDigests(p), UNCHANGED receipts
  PROVE  EvidenceInv'
<1>1. /\ job[p].pc = "merge" /\ spill = "sorted" /\ job[p].digest = <<KeysOf(Replay)>> /\ SpillDrop
      /\ job' = [job EXCEPT ![p].pc = "seal", ![p].digest = <<>>]
      /\ UNCHANGED <<caches, evidenceVars, receipts>>
  BY DEF CompareDigests, At, cacheVars
<1>2. Sound(p, job[p]) /\ DOMAIN job = Proc /\ RowsFed(job[p]) /\ SpillInv
  BY DEF EvidenceInv, Processes, Sound
<1>3. /\ DOMAIN job' = Proc /\ \A q \in Proc \ {p} : job'[q] = job[q]
      /\ DOMAIN job'[p] = Fields /\ job'[p].cmd = job[p].cmd /\ job'[p].staged = job[p].staged
      /\ job'[p].hash = job[p].hash /\ job'[p].body = job[p].body
      /\ job'[p].digest = <<>> /\ job'[p].pc = "seal"
  BY <1>1, <1>2 DEF Sound, Fields
<1>4. /\ MeasuredRows[job[p].body] \in Seq(Key)
      /\ Digesting(job[p]) = MeasuredRows[job[p].body]
  BY <1>1, <1>2, RowsAreKeys DEF Digesting
<1>5. SameCounts(KeysOf(Replay), MeasuredRows[job[p].body])
  BY <1>1, <1>2, <1>4, ReplayCounts DEF RowsFed
<1>6. SameCounts(KeysOf(Replay), CatalogRows(job[p]))
  BY <1>1, <1>2 DEF RowsFed
<1>7. SameCounts(MeasuredRows[job'[p].body], CatalogRows(job'[p]))
  BY <1>3, <1>5, <1>6 DEF SameCounts, CatalogRows
<1>8. SpillInv'
  BY <1>1, SpillDropHolds
<1>9. RowsFed(job[p])'
  <2>1. job'[p].hash = CatalogSource(job'[p].cmd).file
    BY <1>1, <1>2, <1>3 DEF RowsFed
  <2> QED
    BY <1>3, <1>7, <2>1 DEF RowsFed, CatalogRows, CatalogSource, SameCounts, Occurrences
<1> QED
  BY <1>1, <1>3, <1>8, <1>9, DigestStep

-----------------------------------------------------------------------------
(***************************************************************************)
(* What is published.                                                      *)
(***************************************************************************)
LEMMA PublishCacheKeeps ==
  ASSUME EvidenceInv, NEW p \in Proc, SpentOn, PublishCache(p),
         UNCHANGED <<spillVars, evidenceVars, receipts>>
  PROVE  EvidenceInv'
<1>1. /\ job[p].pc = "publish" /\ job[p].cmd.op = "view"
      /\ job' = [job EXCEPT ![p].pc = "serve"]
      /\ caches' = [h \in DOMAIN caches \cup {job[p].hash} |->
                      IF h = job[p].hash THEN [body |-> job[p].body, intact |-> TRUE] ELSE caches[h]]
      /\ UNCHANGED <<bundles, abandoned, receipts>> /\ guard' = guard /\ UNCHANGED spillVars
  BY DEF PublishCache, At, Go, Shared, evidenceVars
<1>2. Sound(p, job[p]) /\ DOMAIN job = Proc
  BY DEF EvidenceInv, Processes
<1>3. /\ DOMAIN job' = Proc /\ \A q \in Proc \ {p} : job'[q] = job[q] /\ DOMAIN job'[p] = Fields
      /\ job'[p].cmd = job[p].cmd /\ job'[p].staged = job[p].staged /\ job'[p].pc = "serve"
      /\ job'[p].hash = job[p].hash /\ job'[p].body = job[p].body /\ job'[p].digest = job[p].digest
  BY <1>1, <1>2 DEF Sound, Fields
<1>4. OthersStay(p)
  BY <1>1, <1>3 DEF OthersStay
<1>5. ~Guards(job[p]) /\ ~Stages(job[p]) /\ ~Guards(job'[p]) /\ ~Stages(job'[p])
  BY <1>1, <1>3 DEF Guards, Stages
<1>6. Commands(job'[p]) /\ Writes(job'[p])
  BY <1>1, <1>3 DEF Commands, Writes
<1>7. SourceRead(job'[p], file, spent["rewrite"])
  BY <1>1, <1>2, <1>3 DEF Sound, SourceRead
<1>8. RowsFed(job[p])'
  BY <1>1, <1>2, <1>3 DEF Sound, RowsFed
<1>9. Sound(p, job[p])'
  BY <1>1, <1>2, <1>3, <1>5, <1>6, <1>7, <1>8 DEF Sound, SpentOn
<1>10. Processes'
  BY <1>4, <1>9, OthersSound
<1>11. job[p].hash \in File /\ job[p].body \in Body
       /\ (spent["rewrite"] < 2 => job[p].body = BodyOf[job[p].hash])
  BY <1>1, <1>2 DEF Sound, SourceRead
<1>12. CachesSound'
  <2>1. CachesSound /\ spent'["rewrite"] = spent["rewrite"]
    BY DEF EvidenceInv, SpentOn
  <2>2. DOMAIN caches' = DOMAIN caches \cup {job[p].hash}
    BY <1>1
  <2>3. ASSUME NEW h \in DOMAIN caches'
        PROVE  /\ DOMAIN caches'[h] = {"body", "intact"} /\ caches'[h].body \in Body
               /\ spent'["rewrite"] < 2 => caches'[h].body = BodyOf[h]
    BY <1>1, <1>11, <2>1 DEF CachesSound
  <2> QED
    BY <1>11, <2>1, <2>2, <2>3 DEF CachesSound
<1>13. BundlesSound' /\ ReceiptsSound'
  BY <1>1 DEF EvidenceInv, BundlesSound, ReceiptsSound, SpentOn, SameMeasurements, CatalogSource
<1>14. Budgeted'
  <2>1. \A q \in Proc : job'[q].staged => job[q].staged
    BY <1>3
  <2> QED
    BY <1>1, <1>10, <2>1, BudgetKept
<1>15. SpillInv'
  BY <1>1, SpillStutterHolds DEF EvidenceInv
<1> QED
  BY <1>10, <1>12, <1>13, <1>14, <1>15 DEF EvidenceInv, SpentOn

\* The staged directory becomes the bundle, and takes the same room.
LEMMA PublishBundleKeeps ==
  ASSUME EvidenceInv, NEW p \in Proc, SpentOn, PublishBundle(p), UNCHANGED receipts
  PROVE  EvidenceInv'
<1>1. /\ job[p].pc = "rename" /\ NewId(p) \notin DOMAIN bundles /\ Leave(p) /\ guard' = None
      /\ DOMAIN bundles' = DOMAIN bundles \cup {NewId(p)}
      /\ UNCHANGED <<caches, abandoned, receipts>> /\ UNCHANGED spillVars
  BY DEF PublishBundle, At, cacheVars
<1>2. Sound(p, job[p]) /\ DOMAIN job = Proc /\ Processes /\ BundlesSound
  BY DEF EvidenceInv, Processes
<1>3. job[p].cmd.op = "retain" /\ job[p].cmd.snapshot \in DOMAIN Catalog
      /\ job[p].cmd.source \in SourcesIn(job[p].cmd.snapshot) /\ guard = p /\ job[p].staged
  BY <1>1, <1>2 DEF Sound, Commands, NoJob, Guards, Stages
<1>4. guard' # p
  BY <1>1, NoneAssumption
<1>5. Sound(p, job[p])'
  BY <1>2, <1>1, <1>4, IdleIsSound
<1>6. OthersStay(p)
  BY <1>1, <1>2, <1>3 DEF OthersStay, Leave
<1>7. Processes'
  BY <1>5, <1>6, OthersSound
<1>8. /\ job[p].hash \in File /\ job[p].body \in Body
      /\ (spent["rewrite"] < 2 => job[p].body = BodyOf[job[p].hash])
      /\ SameCounts(MeasuredRows[job[p].body], CatalogRows(job[p]))
  BY <1>1, <1>2 DEF Sound, SourceRead, RowsFed
<1>9. NewId(p) \in EvidenceId /\ NewId(p).file = job[p].hash /\ NewId(p).body = job[p].body
      /\ CatalogSource(NewId(p)) = CatalogSource(job[p].cmd)
  <2>1. job[p].cmd.source \in UNION {SourcesIn(s) : s \in DOMAIN Catalog}
    BY <1>3
  <2> QED
    BY <1>3, <1>8, <2>1 DEF NewId, EvidenceId, CatalogSource
<1>10. SameMeasurements(NewId(p))
  BY <1>8, <1>9 DEF SameMeasurements, SameCounts, CatalogRows
<1>11. CachesSound' /\ ReceiptsSound' /\ SpillInv'
  BY <1>1, SpillStutterHolds DEF EvidenceInv, CachesSound, ReceiptsSound, SpentOn
<1>12. BundlesSound'
  <2>1. IsFiniteSet(DOMAIN bundles')
    BY <1>1, <1>2, FS_AddElement DEF BundlesSound
  <2>2. ASSUME NEW id \in DOMAIN bundles'
        PROVE  (spent'["rewrite"] < 2 => id.body = BodyOf[id.file]) /\ SameMeasurements(id)
    BY <1>1, <1>2, <1>8, <1>9, <1>10 DEF BundlesSound, SpentOn
  <2>3. DOMAIN bundles' \subseteq EvidenceId
    BY <1>1, <1>2, <1>9 DEF BundlesSound
  <2> QED
    BY <2>1, <2>2, <2>3 DEF BundlesSound, SameMeasurements, CatalogSource
<1>13. Budgeted'
  <2>1. /\ Cardinality(DOMAIN bundles) \in Nat
        /\ Managed = Cardinality(DOMAIN bundles) + abandoned + 1
    BY <1>2, <1>3, ManagedIs
  <2>2. Cardinality(DOMAIN bundles') = Cardinality(DOMAIN bundles) + 1
    BY <1>1, <1>2, FS_AddElement DEF BundlesSound
  <2>3. ~ \E q \in Proc : job'[q].staged
    <3>1. ASSUME NEW q \in Proc, job'[q].staged PROVE FALSE
      <4>1. Sound(q, job[q])'
        BY <1>7 DEF Processes
      <4>2. guard' = q
        BY <3>1, <4>1 DEF Sound, Stages, Guards
      <4> QED
        BY <1>1, <4>2, NoneAssumption
    <3> QED
      BY <3>1
  <2>4. OneOrNone'
    BY <1>7, OneStage, PTL
  <2>5. Cardinality(Staging)' = 0
    BY <2>3, <2>4 DEF OneOrNone
  <2>6. Managed' = Cardinality(DOMAIN bundles') + abandoned + 0
    BY <1>1, <2>5 DEF Managed, Staging
  <2>7. abandoned \in Nat /\ Managed <= DiskLimit
    BY DEF EvidenceInv, Budgeted
  <2>8. Managed' = Managed
    BY <2>1, <2>2, <2>6, <2>7
  <2> QED
    BY <1>1, <2>7, <2>8 DEF Budgeted
<1> QED
  BY <1>7, <1>11, <1>12, <1>13 DEF EvidenceInv, SpentOn

LEMMA RenameReceiptKeeps ==
  ASSUME EvidenceInv, NEW p \in Proc, SpentOn, RenameReceipt(p)
  PROVE  EvidenceInv'
<1>1. /\ job[p].pc = "expose" /\ Leave(p) /\ UNCHANGED <<caches, bundles, abandoned>>
      /\ guard' = guard /\ UNCHANGED spillVars
      /\ receipts' = [e \in DOMAIN receipts \cup {Execution(p)} |->
                        IF e = Execution(p) THEN job[p].files ELSE receipts[e]]
  BY DEF RenameReceipt, At, cacheVars, evidenceVars
<1>2. Sound(p, job[p]) /\ DOMAIN job = Proc
  BY DEF EvidenceInv, Processes
<1>3. ~Guards(job[p])
  BY <1>1 DEF Guards
<1>4. guard' # p
  BY <1>1, <1>2, <1>3 DEF Sound
<1>5. Sound(p, job[p])' /\ OthersStay(p)
  BY <1>1, <1>2, <1>4, IdleIsSound DEF EvidenceInv, OthersStay, Leave
<1>6. Processes'
  BY <1>5, OthersSound
<1>7. CachesSound' /\ BundlesSound' /\ SpillInv'
  BY <1>1, SpillStutterHolds
  DEF EvidenceInv, CachesSound, BundlesSound, SpentOn, SameMeasurements, CatalogSource
<1>8. ReceiptsSound'
  BY <1>1, <1>2 DEF EvidenceInv, ReceiptsSound, Sound, Writes
<1>9. Budgeted'
  <2>1. \A q \in Proc : job'[q].staged => job[q].staged
    BY <1>1, <1>2 DEF Leave, NoJob
  <2> QED
    BY <1>1, <1>6, <2>1, BudgetKept
<1> QED
  BY <1>6, <1>7, <1>8, <1>9 DEF EvidenceInv, SpentOn

-----------------------------------------------------------------------------
(***************************************************************************)
(* Kills, rewrites and damage.                                             *)
(***************************************************************************)
LEMMA SpendKeeps ==
  ASSUME Surroundings, NEW b \in Dials, Spend(b), file' \in File
  PROVE  /\ Surroundings' /\ spent'[b] = spent[b] + 1
         /\ \A d \in Dials \ {b} : spent'[d] = spent[d]
  BY DEF Surroundings, Spend, Dials

\* The system releases the lock of a killed process; what it staged is left, and counts.
LEMMA KillKeeps ==
  ASSUME EvidenceInv, NEW p \in Proc, Kill(p)
  PROVE  EvidenceInv'
<1>1. /\ Spend("kill") /\ Leave(p)
      /\ abandoned' = (IF job[p].staged THEN abandoned + 1 ELSE abandoned)
      /\ guard' = (IF guard = p THEN None ELSE guard)
      /\ IF guard = p THEN SpillDrop ELSE UNCHANGED spillVars
      /\ UNCHANGED <<file, caches, bundles, receipts>>
  BY DEF Kill
<1>2. SpentOn
  BY <1>1, SpendKeeps DEF EvidenceInv, Surroundings, SpentOn, Dials
<1>3. guard' # p
  BY <1>1, NoneAssumption
<1>4. Sound(p, job[p])'
  BY <1>1, <1>3, IdleIsSound DEF EvidenceInv
<1>5. /\ OthersStay(p) /\ job'[p].staged = FALSE
      /\ \A q \in Proc \ {p} : job'[q].staged = job[q].staged
  BY <1>1 DEF OthersStay, Leave, EvidenceInv, Processes, NoJob
<1>6. Processes'
  BY <1>2, <1>4, <1>5, OthersSound
<1>7. CachesSound' /\ BundlesSound' /\ ReceiptsSound'
  BY <1>1, <1>2
  DEF EvidenceInv, CachesSound, BundlesSound, ReceiptsSound, SpentOn, SameMeasurements,
      CatalogSource
<1>8. SpillInv'
  BY <1>1, SpillStutterHolds, SpillDropHolds DEF EvidenceInv
<1>9. Budgeted'
  <2>1. CASE ~job[p].staged
    <3>1. \A q \in Proc : job'[q].staged => job[q].staged
      BY <1>5
    <3> QED
      BY <1>1, <1>6, <2>1, <3>1, BudgetKept
  <2>2. CASE job[p].staged
    <3>1. /\ Processes /\ BundlesSound /\ abandoned \in Nat /\ Managed <= DiskLimit
      BY DEF EvidenceInv, Budgeted
    <3>2. /\ Cardinality(DOMAIN bundles) \in Nat
          /\ Managed = Cardinality(DOMAIN bundles) + abandoned + 1
      BY <2>2, <3>1, ManagedIs
    <3>3. ~ \E q \in Proc : job'[q].staged
      BY <1>5, <2>2, <3>1, StagedGuards
    <3>4. OneOrNone'
      BY <1>6, OneStage, PTL
    <3>5. Cardinality(Staging)' = 0
      BY <3>3, <3>4 DEF OneOrNone
    <3>6. Managed' = Cardinality(DOMAIN bundles) + (abandoned + 1) + 0
      BY <1>1, <2>2, <3>5 DEF Managed, Staging
    <3>7. Managed' = Managed
      BY <3>1, <3>2, <3>6
    <3> QED
      BY <1>1, <2>2, <3>1, <3>7 DEF Budgeted
  <2> QED
    BY <2>1, <2>2
<1> QED
  BY <1>2, <1>6, <1>7, <1>8, <1>9 DEF EvidenceInv, SpentOn

\* One rewrite: what was hashed and read so far was the one file that there was.
LEMMA RewriteKeeps ==
  ASSUME EvidenceInv, NEW f \in File, Rewrite(f), Spend("rewrite"),
         UNCHANGED <<spillVars, evidenceVars, receipts>>
  PROVE  EvidenceInv'
<1>1. /\ file' = f /\ UNCHANGED <<caches, job, guard, bundles, abandoned, receipts>>
      /\ UNCHANGED spillVars
  BY DEF Rewrite, evidenceVars
<1>2. Surroundings' /\ spent'["rewrite"] = spent["rewrite"] + 1 /\ spent["rewrite"] \in Nat
  BY <1>1, SpendKeeps DEF EvidenceInv, Surroundings, Dials
<1>3. ASSUME NEW p \in Proc PROVE Sound(p, job[p])'
  <2>1. Sound(p, job[p])
    BY DEF EvidenceInv, Processes
  <2>2. SourceRead(job[p], file', spent'["rewrite"])
    BY <1>2, <2>1 DEF Sound, SourceRead
  <2>3. RowsFed(job[p])'
    BY <1>1, <2>1, SpillStutterHolds
    DEF Sound, RowsFed, Fed, spillVars, Digesting, CatalogRows, CatalogSource, EvidenceInv
  <2> QED
    BY <1>1, <2>1, <2>2, <2>3 DEF Sound
<1>4. Processes'
  BY <1>1, <1>3 DEF EvidenceInv, Processes
<1>5. CachesSound' /\ BundlesSound' /\ ReceiptsSound'
  BY <1>1, <1>2
  DEF EvidenceInv, CachesSound, BundlesSound, ReceiptsSound, SameMeasurements, CatalogSource
<1>6. Budgeted' /\ SpillInv'
  BY <1>1, SpillStutterHolds DEF EvidenceInv, Budgeted, Managed
<1> QED
  BY <1>2, <1>4, <1>5, <1>6 DEF EvidenceInv

LEMMA DamageKeeps ==
  ASSUME EvidenceInv, Spend("damage"), UNCHANGED receipts,
         \/ \E h \in DOMAIN caches : DamageCache(h) /\ UNCHANGED <<spillVars, evidenceVars>>
         \/ \E id \in DOMAIN bundles : DamageBundle(id)
  PROVE  EvidenceInv'
<1>1. /\ UNCHANGED <<file, job, guard, abandoned, receipts>> /\ UNCHANGED spillVars
      /\ DOMAIN bundles' = DOMAIN bundles /\ DOMAIN caches' = DOMAIN caches
  BY DEF DamageCache, DamageBundle, cacheVars, evidenceVars
<1>2. Surroundings' /\ spent'["rewrite"] = spent["rewrite"]
  BY <1>1, SpendKeeps DEF EvidenceInv, Surroundings, Dials
<1>3. ASSUME NEW p \in Proc PROVE Sound(p, job[p])'
  <2>1. Sound(p, job[p])
    BY DEF EvidenceInv, Processes
  <2>2. RowsFed(job[p])'
    BY <1>1, <2>1, SpillStutterHolds
    DEF Sound, RowsFed, Fed, spillVars, Digesting, CatalogRows, CatalogSource, EvidenceInv
  <2> QED
    BY <1>1, <1>2, <2>1, <2>2 DEF Sound
<1>4. Processes'
  BY <1>1, <1>3 DEF EvidenceInv, Processes
<1>5. CachesSound'
  <2>1. CachesSound
    BY DEF EvidenceInv
  <2>2. ASSUME NEW h \in DOMAIN caches
        PROVE  DOMAIN caches'[h] = DOMAIN caches[h] /\ caches'[h].body = caches[h].body
    BY <2>1 DEF CachesSound, DamageCache, DamageBundle, cacheVars
  <2> QED
    BY <1>1, <1>2, <2>1, <2>2 DEF CachesSound
<1>6. BundlesSound' /\ ReceiptsSound'
  BY <1>1, <1>2 DEF EvidenceInv, BundlesSound, ReceiptsSound, SameMeasurements, CatalogSource
<1>7. Budgeted' /\ SpillInv'
  BY <1>1, SpillStutterHolds DEF EvidenceInv, Budgeted, Managed
<1> QED
  BY <1>2, <1>4, <1>5, <1>6, <1>7 DEF EvidenceInv

LEMMA InitHolds ==
  ASSUME Init
  PROVE  EvidenceInv
<1>1. /\ file \in File /\ caches = [h \in {} |-> None] /\ job = [p \in Proc |-> NoJob]
      /\ SpillInit /\ guard = None /\ abandoned = 0 /\ receipts = [e \in {} |-> {}]
      /\ spent = [b \in {"start", "rewrite", "kill", "damage"} |-> 0]
  BY DEF Init
<1>2. PICK ids \in InitialBundles : bundles = [id \in ids |-> TRUE]
  BY DEF Init
<1>3. Surroundings /\ CachesSound /\ ReceiptsSound /\ SpillInv
  BY <1>1, SpillInitHolds DEF Surroundings, Dials, CachesSound, ReceiptsSound
<1>4. BundlesSound
  BY <1>2, BundlesAssumption DEF BundlesSound
<1>5. Processes
  <2>1. DOMAIN NoJob = Fields /\ NoJob.pc = "idle" /\ NoJob.digest = <<>> /\ NoJob.staged = FALSE
    BY DEF NoJob, Fields
  <2>2. RowsFed(NoJob)
    BY <2>1 DEF RowsFed
  <2>3. ASSUME NEW p \in Proc PROVE Sound(p, job[p])
    BY <1>1, <2>1, <2>2, NoneAssumption DEF Sound, Commands, Writes, Guards, Stages, SourceRead
  <2> QED
    BY <1>1, <2>3 DEF Processes
<1>6. Budgeted
  <2>1. ~ \E p \in Proc : job[p].staged
    BY <1>1 DEF NoJob
  <2>2. DOMAIN bundles = ids /\ Cardinality(ids) <= DiskLimit
    BY <1>2, BundlesAssumption
  <2>3. Cardinality(DOMAIN bundles) \in Nat /\ Managed = Cardinality(DOMAIN bundles) + 0 + 0
    BY <1>1, <1>4, <1>5, <2>1, ManagedIs
  <2> QED
    BY <1>1, <2>2, <2>3 DEF Budgeted
<1> QED
  BY <1>3, <1>4, <1>5, <1>6 DEF EvidenceInv

-----------------------------------------------------------------------------
(***************************************************************************)
(* All steps.                                                              *)
(***************************************************************************)
\* A session that gives up, or is ended.
LEMMA ViewEndKeeps ==
  ASSUME EvidenceInv, NEW p \in Proc, SpentOn, UNCHANGED <<spillVars, evidenceVars, receipts>>,
         RefuseCache(p) \/ SourceChanged(p) \/ CacheTaken(p) \/ EndView(p)
  PROVE  EvidenceInv'
<1>1. /\ Leave(p) /\ UNCHANGED caches
      /\ job[p].pc \in {"lookup", "serve"} \/ (job[p].pc \in {"rehash", "publish"} /\ job[p].cmd.op = "view")
  BY DEF RefuseCache, SourceChanged, CacheTaken, EndView, cacheVars, At, Shared
<1>2. Sound(p, job[p])
  BY DEF EvidenceInv, Processes
<1>3. guard # p
  BY <1>1, <1>2 DEF Sound, Guards
<1> QED
  BY <1>1, <1>3, LeaveKeeps

LEMMA SameDials ==
  ASSUME EvidenceInv, UNCHANGED spent, UNCHANGED file
  PROVE  SpentOn
  BY DEF EvidenceInv, Surroundings, SpentOn

LEMMA PrepareKeeps ==
  ASSUME EvidenceInv, NEW p \in Proc, PrepareStep(p), UNCHANGED <<spillVars, evidenceVars, receipts>>,
         UNCHANGED spent
  PROVE  EvidenceInv'
<1>1. UNCHANGED file
  BY DEF PrepareStep, cacheVars, HashSource, ReuseCache, RefuseCache, MakeStage, Spool, RehashSource,
         SourceChanged, PublishCache, CacheTaken
<1>2. SpentOn
  BY <1>1, SameDials
<1>3. CASE HashSource(p)
  BY <1>2, <1>3, HashSourceKeeps
<1>4. CASE ReuseCache(p)
  BY <1>2, <1>4, ReuseCacheKeeps
<1>5. CASE MakeStage(p)
  BY <1>2, <1>5, MakeStageKeeps
<1>6. CASE Spool(p)
  BY <1>2, <1>6, SpoolKeeps
<1>7. CASE RehashSource(p)
  BY <1>2, <1>7, RehashSourceKeeps
<1>8. CASE PublishCache(p)
  BY <1>2, <1>8, PublishCacheKeeps
<1>9. CASE RefuseCache(p) \/ SourceChanged(p) \/ CacheTaken(p)
  BY <1>2, <1>9, ViewEndKeeps
<1> QED
  BY <1>3, <1>4, <1>5, <1>6, <1>7, <1>8, <1>9 DEF PrepareStep

LEMMA RetainKeeps ==
  ASSUME EvidenceInv, NEW p \in Proc, RetainStep(p), UNCHANGED receipts, UNCHANGED spent
  PROVE  EvidenceInv'
<1>1. UNCHANGED file
  BY DEF RetainStep, cacheVars, BindSource, Acquire, StageRetention, BindIndex, OpenDigest, PushRow,
         FinishRows, MergeRows, FirstDigest, CompareDigests, SealBundle, RecheckSource, PublishBundle
<1>2. SpentOn
  BY <1>1, SameDials
<1>3. CASE BindSource(p)
  <2>1. UNCHANGED <<spillVars, evidenceVars, receipts>>
    BY <1>3 DEF BindSource
  <2> QED
    BY <1>2, <1>3, <2>1, BindSourceKeeps
<1>4. CASE Acquire(p)
  BY <1>2, <1>4, AcquireKeeps
<1>5. CASE StageRetention(p)
  <2>1. UNCHANGED <<spillVars, evidenceVars, receipts>>
    BY <1>5 DEF StageRetention
  <2> QED
    BY <1>2, <1>5, <2>1, StageRetentionKeeps
<1>6. CASE BindIndex(p)
  <2>1. UNCHANGED <<spillVars, evidenceVars, receipts>>
    BY <1>6 DEF BindIndex
  <2> QED
    BY <1>2, <1>6, <2>1, BindIndexKeeps
<1>7. CASE OpenDigest(p)
  BY <1>2, <1>7, OpenDigestKeeps
<1>8. CASE PushRow(p)
  BY <1>2, <1>8, PushRowKeeps
<1>9. CASE FinishRows(p)
  BY <1>2, <1>9, FinishRowsKeeps
<1>10. CASE MergeRows(p)
  BY <1>2, <1>10, MergeRowsKeeps
<1>11. CASE FirstDigest(p)
  BY <1>2, <1>11, FirstDigestKeeps
<1>12. CASE CompareDigests(p)
  BY <1>2, <1>12, CompareDigestsKeeps
<1>13. CASE SealBundle(p)
  <2>1. UNCHANGED <<spillVars, evidenceVars, receipts>>
    BY <1>13 DEF SealBundle
  <2> QED
    BY <1>2, <1>13, <2>1, SealBundleKeeps
<1>14. CASE RecheckSource(p)
  <2>1. UNCHANGED <<spillVars, evidenceVars, receipts>>
    BY <1>14 DEF RecheckSource
  <2> QED
    BY <1>2, <1>14, <2>1, RecheckSourceKeeps
<1>15. CASE PublishBundle(p)
  BY <1>2, <1>15, PublishBundleKeeps
<1> QED
  BY <1>3, <1>4, <1>5, <1>6, <1>7, <1>8, <1>9, <1>10, <1>11, <1>12, <1>13, <1>14, <1>15
  DEF RetainStep

LEMMA OpenKeeps ==
  ASSUME EvidenceInv, NEW p \in Proc, OpenStep(p), UNCHANGED receipts, UNCHANGED spent
  PROVE  EvidenceInv'
<1>1. UNCHANGED file
  BY DEF OpenStep, cacheVars, CheckEnvelope, Regenerate, EndVerify, Return
<1>2. SpentOn
  BY <1>1, SameDials
<1>3. CASE CheckEnvelope(p)
  <2>1. UNCHANGED <<spillVars, evidenceVars, receipts>>
    BY <1>3 DEF CheckEnvelope
  <2> QED
    BY <1>2, <1>3, <2>1, CheckEnvelopeKeeps
<1>4. CASE Regenerate(p)
  <2>1. UNCHANGED <<spillVars, evidenceVars, receipts>>
    BY <1>4 DEF Regenerate
  <2> QED
    BY <1>2, <1>4, <2>1, RegenerateKeeps
<1>5. CASE EndVerify(p)
  BY <1>2, <1>5, ReturnKeeps DEF EndVerify, SpentOn
<1> QED
  BY <1>3, <1>4, <1>5 DEF OpenStep

LEMMA AnalyzeKeeps ==
  ASSUME EvidenceInv, NEW p \in Proc, AnalyzeStep(p), UNCHANGED spent
  PROVE  EvidenceInv'
<1>1. UNCHANGED file
  BY DEF AnalyzeStep, cacheVars, NoteEvidence, Compile, ScanAttempts, WriteResult, WriteReceipt,
         RenameReceipt
<1>2. SpentOn
  BY <1>1, SameDials
<1>3. CASE NoteEvidence(p)
  BY <1>2, <1>3, NoteEvidenceKeeps
<1>4. CASE Compile(p)
  <2>1. UNCHANGED <<spillVars, evidenceVars, receipts>>
    BY <1>4 DEF Compile
  <2> QED
    BY <1>2, <1>4, <2>1, CompileKeeps
<1>5. CASE ScanAttempts(p)
  BY <1>2, <1>5, ScanAttemptsKeeps
<1>6. CASE WriteResult(p)
  <2>1. UNCHANGED <<spillVars, evidenceVars, receipts>>
    BY <1>6 DEF WriteResult
  <2> QED
    BY <1>2, <1>6, <2>1, WriteResultKeeps
<1>7. CASE WriteReceipt(p)
  <2>1. UNCHANGED <<spillVars, evidenceVars, receipts>>
    BY <1>7 DEF WriteReceipt
  <2> QED
    BY <1>2, <1>7, <2>1, WriteReceiptKeeps
<1>8. CASE RenameReceipt(p)
  BY <1>2, <1>8, RenameReceiptKeeps
<1> QED
  BY <1>3, <1>4, <1>5, <1>6, <1>7, <1>8 DEF AnalyzeStep

LEMMA StartKeeps ==
  ASSUME EvidenceInv, NEW p \in Proc, Start(p)
  PROVE  EvidenceInv'
<1>1. UNCHANGED file
  BY DEF Start, StartView, StartRetain, StartVerify, StartAnalyze, cacheVars
<1>2. SpentOn
  BY <1>1, SpendKeeps DEF Start, EvidenceInv, Surroundings, SpentOn, Dials
<1>3. CASE Views /\ StartView(p) /\ UNCHANGED <<spillVars, evidenceVars, receipts>>
  BY <1>2, <1>3, StartViewKeeps
<1>4. CASE \E r \in Retentions : StartRetain(p, r[1], r[2]) /\ UNCHANGED receipts
  <2>1. PICK r \in Retentions : StartRetain(p, r[1], r[2]) /\ UNCHANGED receipts
    BY <1>4
  <2>2. UNCHANGED <<spillVars, evidenceVars, receipts>>
    BY <2>1 DEF StartRetain
  <2> QED
    BY <1>2, <2>1, <2>2, StartRetainKeeps
<1>5. CASE \E id \in DOMAIN bundles : StartVerify(p, id) /\ UNCHANGED receipts
  <2>1. PICK id \in DOMAIN bundles : StartVerify(p, id) /\ UNCHANGED receipts
    BY <1>5
  <2>2. UNCHANGED <<spillVars, evidenceVars, receipts>>
    BY <2>1 DEF StartVerify
  <2> QED
    BY <1>2, <2>1, <2>2, StartVerifyKeeps
<1>6. CASE \E request \in Request : StartAnalyze(p, request)
  <2>1. PICK request \in Request : StartAnalyze(p, request)
    BY <1>6
  <2>2. UNCHANGED <<spillVars, evidenceVars, receipts>>
    BY <2>1 DEF StartAnalyze
  <2> QED
    BY <1>2, <2>1, <2>2, StartAnalyzeKeeps
<1> QED
  BY <1>3, <1>4, <1>5, <1>6 DEF Start

LEMMA EndKeeps ==
  ASSUME EvidenceInv, NEW p \in Proc, Return(p), UNCHANGED receipts, UNCHANGED spent
  PROVE  EvidenceInv'
<1>1. UNCHANGED file
  BY DEF Return, cacheVars
<1> QED
  BY <1>1, SameDials, ReturnKeeps DEF SpentOn

LEMMA StepKeeps ==
  ASSUME EvidenceInv, [Next]_vars
  PROVE  EvidenceInv'
<1>1. ASSUME NEW p \in Proc, Start(p) PROVE EvidenceInv'
  BY <1>1, StartKeeps
<1>2. ASSUME NEW p \in Proc, CommandStep(p) PROVE EvidenceInv'
  <2>1. UNCHANGED spent
    BY <1>2 DEF CommandStep
  <2>2. CASE PrepareStep(p) /\ UNCHANGED <<spillVars, evidenceVars, receipts>>
    BY <2>1, <2>2, PrepareKeeps
  <2>3. CASE RetainStep(p) /\ UNCHANGED receipts
    BY <2>1, <2>3, RetainKeeps
  <2>4. CASE OpenStep(p) /\ UNCHANGED receipts
    BY <2>1, <2>4, OpenKeeps
  <2>5. CASE AnalyzeStep(p)
    BY <2>1, <2>5, AnalyzeKeeps
  <2>6. CASE Refuse(p)
    BY <2>1, <2>6, EndKeeps DEF Refuse
  <2> QED
    BY <1>2, <2>2, <2>3, <2>4, <2>5, <2>6 DEF CommandStep
<1>3. ASSUME NEW p \in Proc, EndSession(p) PROVE EvidenceInv'
  <2>1. EndView(p) /\ UNCHANGED <<spillVars, evidenceVars, receipts>> /\ UNCHANGED spent
    BY <1>3 DEF EndSession
  <2>2. UNCHANGED file
    BY <2>1 DEF EndView, cacheVars
  <2> QED
    BY <2>1, <2>2, SameDials, ViewEndKeeps
<1>4. ASSUME NEW p \in Proc, Fail(p) PROVE EvidenceInv'
  <2>1. Return(p) /\ UNCHANGED receipts /\ UNCHANGED spent
    BY <1>4 DEF Fail
  <2> QED
    BY <2>1, EndKeeps
<1>5. ASSUME NEW p \in Proc, Kill(p) PROVE EvidenceInv'
  BY <1>5, KillKeeps
<1>6. CASE Disturb
  <2>1. CASE /\ Spend("rewrite") /\ \E f \in File : Rewrite(f)
             /\ UNCHANGED <<spillVars, evidenceVars, receipts>>
    BY <2>1, RewriteKeeps
  <2>2. CASE ~(/\ Spend("rewrite") /\ \E f \in File : Rewrite(f)
               /\ UNCHANGED <<spillVars, evidenceVars, receipts>>)
    BY <1>6, <2>2, DamageKeeps DEF Disturb
  <2> QED
    BY <2>1, <2>2
<1>7. CASE UNCHANGED vars
  <2>1. /\ UNCHANGED <<file, caches, job, guard, bundles, abandoned, receipts, spent>>
        /\ UNCHANGED spillVars
    BY <1>7 DEF vars, cacheVars, evidenceVars
  <2>2. Surroundings' /\ CachesSound' /\ BundlesSound' /\ ReceiptsSound' /\ Budgeted' /\ SpillInv'
    BY <2>1, SpillStutterHolds
    DEF EvidenceInv, Surroundings, CachesSound, BundlesSound, ReceiptsSound, Budgeted, Managed,
        SameMeasurements, CatalogSource
  <2>3. ASSUME NEW p \in Proc PROVE Sound(p, job[p])'
    BY <2>1, SpillStutterHolds
    DEF Sound, RowsFed, Fed, spillVars, Digesting, CatalogRows, CatalogSource, EvidenceInv, Processes
  <2>4. Processes'
    BY <2>1, <2>3 DEF EvidenceInv, Processes
  <2> QED
    BY <2>2, <2>4 DEF EvidenceInv
<1> QED
  BY <1>1, <1>2, <1>3, <1>4, <1>5, <1>6, <1>7 DEF Next

\* The invariant holds throughout, whatever the processes do and wherever they are killed.
LEMMA EvidenceStaysSound == Spec => []EvidenceInv
  BY InitHolds, StepKeeps, PTL DEF Spec

\* Only the holder of the dataset's evidence lock stages directories in its workspace, and
\* what is published, staged and left behind fits its disk budget (viewer/evidence.rs).
THEOREM StagesStayGuarded == Spec => []StageUnderGuard
<1>1. EvidenceInv => StageUnderGuard
  <2> SUFFICES ASSUME EvidenceInv PROVE StageUnderGuard
    OBVIOUS
  <2>1. \A p \in Proc : job[p].staged => guard = p
    BY StagedGuards DEF EvidenceInv
  <2> QED
    BY <2>1 DEF EvidenceInv, Budgeted, StageUnderGuard
<1> QED
  BY <1>1, EvidenceStaysSound, PTL

\* With at most one rewrite of the source, a viewer's cache and retained evidence hold what
\* indexing makes of the file that they are named by (viewer/ingest.rs, viewer/evidence.rs).
THEOREM CachesMatchSources == Spec => []CacheHoldsItsSource
<1>1. EvidenceInv => CacheHoldsItsSource
  BY DEF EvidenceInv, Surroundings, Dials, CachesSound, BundlesSound, CacheHoldsItsSource
<1> QED
  BY <1>1, EvidenceStaysSound, PTL

\* The store that retention compares rows with accounts for its disk and loses, repeats and
\* disorders no row, also when commands fail or are killed while they fill or merge it.
THEOREM SpillStaysSound == Spec => []SpillSound
<1>1. EvidenceInv => SpillSound
  BY InvMeansSound DEF EvidenceInv, SpillSound
<1> QED
  BY <1>1, EvidenceStaysSound, PTL

\* Retained evidence has the rows of its snapshot's source, each as often, and an analysis
\* that can be seen has its result and its receipt (viewer/evidence.rs, viewer/analysis.rs).
THEOREM EvidenceKeepsRows == Spec => []RowsRetained
<1>1. EvidenceInv => RowsRetained
  BY DEF EvidenceInv, BundlesSound, ReceiptsSound, RowsRetained
<1> QED
  BY <1>1, EvidenceStaysSound, PTL

-----------------------------------------------------------------------------
(***************************************************************************)
(* The numbers of an analysis.  Each reduction takes the attempts of a     *)
(* piece one by one, and the pieces one after the other; EvidenceArchive   *)
(* counts sets of attempts.  What a set counts for is the sum of what its  *)
(* parts count for, so that adding an attempt, or a piece, to the set adds *)
(* what the reduction adds.                                                *)
(***************************************************************************)
CountsFor(request, c, n) ==
  CASE n = "scoped" -> TRUE
    [] n = "excluded" -> ~Archive!Counted(c, request)
    [] n = "eligible" -> Archive!Counted(c, request)
    [] n = "unresolved" -> Archive!Counted(c, request) /\ Archive!Row(c).ecid = NoDevice
    [] OTHER -> Archive!Counted(c, request) /\ Archive!Row(c).verdict = n

\* The set functions of the abstract specification are those of the detailed one.
LEMMA SameSize ==
  ASSUME NEW S
  PROVE  Archive!Cardinality(S) = Cardinality(S)
  BY Zenon DEF Archive!Cardinality, Cardinality

LEMMA CountOfIs ==
  ASSUME NEW request, NEW chosen
  PROVE  Archive!CountOf(request, chosen)
           = [n \in Count |-> Cardinality({c \in chosen : CountsFor(request, c, n)})]
<1> DEFINE kept == {c \in chosen : Archive!Counted(c, request)}
           value(n) == CASE n = "scoped" -> Cardinality(chosen)
                         [] n = "excluded" -> Cardinality(chosen \ kept)
                         [] n = "eligible" -> Cardinality(kept)
                         [] n = "unresolved" ->
                              Cardinality({c \in kept : Archive!Row(c).ecid = NoDevice})
                         [] OTHER -> Cardinality({c \in kept : Archive!Row(c).verdict = n})
<1>1. Archive!CountOf(request, chosen) = [n \in Count |-> value(n)]
  BY SameSize DEF Archive!CountOf, Archive!Count, Count
<1>2. ASSUME NEW n \in Count
      PROVE  value(n) = Cardinality({c \in chosen : CountsFor(request, c, n)})
  <2> DEFINE those == {c \in chosen : CountsFor(request, c, n)}
  <2>1. CASE n = "scoped"
    <3>1. those = chosen
      BY <2>1 DEF CountsFor
    <3> QED
      BY <2>1, <3>1
  <2>2. CASE n = "excluded"
    <3>1. those = chosen \ kept
      BY <2>2 DEF CountsFor
    <3> QED
      BY <2>2, <3>1
  <2>3. CASE n = "eligible"
    <3>1. those = kept
      BY <2>3 DEF CountsFor
    <3> QED
      BY <2>3, <3>1
  <2>4. CASE n = "unresolved"
    <3>1. those = {c \in kept : Archive!Row(c).ecid = NoDevice}
      BY <2>4 DEF CountsFor
    <3> QED
      BY <2>4, <3>1
  <2>5. CASE n \notin {"scoped", "excluded", "eligible", "unresolved"}
    <3>1. those = {c \in kept : Archive!Row(c).verdict = n}
      BY <2>5 DEF CountsFor
    <3> QED
      BY <2>5, <3>1
  <2> QED
    BY <2>1, <2>2, <2>3, <2>4, <2>5
<1> QED
  BY <1>1, <1>2

LEMMA CountsAreNumbers ==
  ASSUME NEW request, NEW A, IsFiniteSet(A)
  PROVE  Archive!CountOf(request, A) \in [Count -> Nat]
<1>1. \A n \in Count : Cardinality({c \in A : CountsFor(request, c, n)}) \in Nat
  <2> SUFFICES ASSUME NEW n \in Count
               PROVE  Cardinality({c \in A : CountsFor(request, c, n)}) \in Nat
    OBVIOUS
  <2>1. {c \in A : CountsFor(request, c, n)} \subseteq A
    OBVIOUS
  <2> QED
    BY <2>1, FS_Subset, FS_CardinalityType
<1> QED
  BY <1>1, CountOfIs

\* Sets without a common element add up.
LEMMA DisjointSizes ==
  ASSUME NEW a, NEW b, IsFiniteSet(a), IsFiniteSet(b), a \cap b = {}
  PROVE  /\ Cardinality(a) \in Nat /\ Cardinality(b) \in Nat /\ IsFiniteSet(a \cup b)
         /\ Cardinality(a \cup b) = Cardinality(a) + Cardinality(b)
<1>1. /\ IsFiniteSet(a \cup b)
      /\ Cardinality(a \cup b) = Cardinality(a) + Cardinality(b) - Cardinality(a \cap b)
  BY FS_Union
<1>2. Cardinality(a \cap b) = 0
  BY FS_EmptySet
<1>3. Cardinality(a) \in Nat /\ Cardinality(b) \in Nat
  BY FS_CardinalityType
<1> QED
  BY <1>1, <1>2, <1>3

LEMMA CountsAdd ==
  ASSUME NEW request, NEW A, NEW B, IsFiniteSet(A), IsFiniteSet(B), A \cap B = {}
  PROVE  Archive!CountOf(request, A \cup B)
           = MergeCounts(Archive!CountOf(request, A), Archive!CountOf(request, B))
<1>1. ASSUME NEW n \in Count
      PROVE  Cardinality({c \in A \cup B : CountsFor(request, c, n)})
               = Cardinality({c \in A : CountsFor(request, c, n)})
                   + Cardinality({c \in B : CountsFor(request, c, n)})
  <2>1. PICK a, b : /\ a = {c \in A : CountsFor(request, c, n)}
                    /\ b = {c \in B : CountsFor(request, c, n)}
    OBVIOUS
  <2>2. /\ a \subseteq A /\ b \subseteq B /\ a \cap b = {}
        /\ {c \in A \cup B : CountsFor(request, c, n)} = a \cup b
    BY <2>1
  <2>3. IsFiniteSet(a) /\ IsFiniteSet(b)
    BY <2>2, FS_Subset
  <2>4. Cardinality(a \cup b) = Cardinality(a) + Cardinality(b)
    BY <2>2, <2>3, DisjointSizes
  <2> QED
    BY <2>1, <2>2, <2>4
<1> QED
  BY <1>1, CountOfIs DEF MergeCounts

LEMMA CountsOfNone ==
  ASSUME NEW request
  PROVE  Archive!CountOf(request, {}) = ZeroCounts
<1>1. \A n \in Count : {c \in {} : CountsFor(request, c, n)} = {}
  OBVIOUS
<1> QED
  BY <1>1, CountOfIs, FS_EmptySet DEF ZeroCounts

LEMMA CountsOfOne ==
  ASSUME NEW request, NEW c
  PROVE  Archive!CountOf(request, {c}) = Delta(Archive!Row(c), ~Archive!Counted(c, request))
<1>1. ASSUME NEW n \in Count
      PROVE  Cardinality({d \in {c} : CountsFor(request, d, n)})
               = IF CountsFor(request, c, n) THEN 1 ELSE 0
  <2>1. CASE CountsFor(request, c, n)
    <3>1. {d \in {c} : CountsFor(request, d, n)} = {c}
      BY <2>1
    <3> QED
      BY <2>1, <3>1, FS_Singleton
  <2>2. CASE ~CountsFor(request, c, n)
    <3>1. {d \in {c} : CountsFor(request, d, n)} = {}
      BY <2>2
    <3> QED
      BY <2>2, <3>1, FS_EmptySet
  <2> QED
    BY <2>1, <2>2
<1>2. ASSUME NEW n \in Count
      PROVE  Delta(Archive!Row(c), ~Archive!Counted(c, request))[n]
               = IF CountsFor(request, c, n) THEN 1 ELSE 0
  <2> DEFINE row == Archive!Row(c)
             counted == Archive!Counted(c, request)
  <2>1. CASE n = "scoped"
    BY <2>1 DEF Delta, CountsFor
  <2>2. CASE n = "excluded"
    BY <2>2 DEF Delta, CountsFor
  <2>3. CASE n = "eligible"
    BY <2>3 DEF Delta, CountsFor
  <2>4. CASE n = "unresolved"
    BY <2>4 DEF Delta, CountsFor
  <2>5. CASE n \notin {"scoped", "excluded", "eligible", "unresolved"}
    BY <2>5 DEF Delta, CountsFor
  <2> QED
    BY <2>1, <2>2, <2>3, <2>4, <2>5
<1>3. Delta(Archive!Row(c), ~Archive!Counted(c, request))
        = [n \in Count |-> IF CountsFor(request, c, n) THEN 1 ELSE 0]
  <2>1. PICK delta : delta = Delta(Archive!Row(c), ~Archive!Counted(c, request))
    OBVIOUS
  <2>2. delta = [n \in Count |-> delta[n]]
    BY <2>1, Zenon DEF Delta
  <2> QED
    BY <1>2, <2>1, <2>2
<1> QED
  BY <1>1, <1>3, CountOfIs

\* What two recursions over the first numbers give is the same if it is at first and each
\* step keeps it.
LEMMA SamePrefixes ==
  ASSUME NEW N \in Nat, NEW f, NEW g, f[0] = g[0],
         \A n \in 1 .. N : f[n - 1] = g[n - 1] => f[n] = g[n]
  PROVE  \A n \in 0 .. N : f[n] = g[n]
<1> DEFINE T == {n \in Nat : n <= N => f[n] = g[n]}
<1>1. 0 \in T
  OBVIOUS
<1>2. ASSUME NEW n \in T PROVE n + 1 \in T
  <2> SUFFICES ASSUME n + 1 <= N PROVE f[n + 1] = g[n + 1]
    OBVIOUS
  <2>1. PICK m : m = n + 1
    OBVIOUS
  <2>2. m \in 1 .. N /\ m - 1 = n /\ n <= N
    BY <2>1
  <2>3. f[m - 1] = g[m - 1] => f[m] = g[m]
    BY <2>2
  <2> QED
    BY <2>1, <2>2, <2>3
<1> HIDE DEF T
<1>3. T \in SUBSET Nat
  BY DEF T
<1>4. T = Nat
  BY <1>1, <1>2, <1>3, NatSetInduction
<1> QED
  BY <1>4 DEF T

\* The attempts of a piece that are numbered up to n, and what is added when n comes.
LEMMA PrefixGrows ==
  ASSUME NEW S, NEW N \in Nat, S \subseteq 1 .. N, NEW n \in 1 .. N
  PROVE  /\ n \in S => /\ S \cap (1 .. n) = (S \cap (1 .. n - 1)) \cup {n}
                       /\ n \notin S \cap (1 .. n - 1)
         /\ n \notin S => S \cap (1 .. n) = S \cap (1 .. n - 1)
         /\ S \cap (1 .. 0) = {} /\ S \cap (1 .. N) = S
<1>1. \A i \in 1 .. n : i \in 1 .. n - 1 \/ i = n
  OBVIOUS
<1>2. \A i \in 1 .. n - 1 : i \in 1 .. n /\ i # n
  OBVIOUS
<1>3. 1 .. 0 = {} /\ n \in 1 .. n
  OBVIOUS
<1> QED
  BY <1>1, <1>2, <1>3

LEMMA BoundedFinite ==
  ASSUME NEW S, NEW n \in Nat, NEW id
  PROVE  IsFiniteSet(S \cap (1 .. n)) /\ IsFiniteSet({id} \X (S \cap (1 .. n)))
<1>1. IsFiniteSet(1 .. n) /\ S \cap (1 .. n) \subseteq 1 .. n
  BY FS_Interval
<1>2. IsFiniteSet(S \cap (1 .. n))
  BY <1>1, FS_Subset
<1>3. IsFiniteSet({id})
  BY FS_Singleton
<1> QED
  BY <1>2, <1>3, FS_Product

\* The attempts of evidence are the rows of its body.
LEMMA EvidenceRows ==
  ASSUME NEW id \in EvidenceId
  PROVE  /\ AttemptsOf(id) \in Seq(AttemptRecord) /\ RowsById[id] = AttemptsOf(id)
         /\ \A i : Archive!Row(<<id, i>>) = AttemptsOf(id)[i]
         /\ \A i, request :
              Archive!Counted(<<id, i>>, request) <=> ~Excluded(request, id.source, i)
         /\ DOMAIN AttemptsOf(id) = 1 .. Len(AttemptsOf(id)) /\ Len(AttemptsOf(id)) \in Nat
<1>1. id.body \in Body
  BY DEF EvidenceId
<1>2. AttemptsOf(id) \in Seq(AttemptRecord)
  BY <1>1, RowsAssumption DEF AttemptsOf
<1>3. RowsById[id] = AttemptsOf(id)
  BY DEF RowsById
<1> QED
  BY <1>2, <1>3 DEF Archive!Row, Archive!Counted, Excluded

ScopedPart(request, id) == {id} \X Scoped(AttemptsOf(id), id.source, request)

\* Exclusion is a truth value in one and the same place of both.
LEMMA SameDelta ==
  ASSUME NEW row, NEW P, NEW Q, P <=> ~Q
  PROVE  Delta(row, ~P) = Delta(row, Q)
<1>1. CASE Q
  <2>1. P <=> FALSE
    BY <1>1
  <2> QED
    BY <1>1, <2>1, Zenon DEF Delta
<1>2. CASE ~Q
  <2>1. P <=> TRUE
    BY <1>2
  <2> QED
    BY <1>2, <2>1, Zenon DEF Delta
<1> QED
  BY <1>1, <1>2

\* A yield taken attempt by attempt counts the attempts that are in its scope.
LEMMA YieldOfPiece ==
  ASSUME NEW R, NEW id \in EvidenceId
  PROVE  accumulate_source(AttemptsOf(id), id.source, R)
           = Archive!CountOf(R, ScopedPart(R, id))
<1>0. PICK N : N = Len(AttemptsOf(id))
  OBVIOUS
<1> DEFINE rows == AttemptsOf(id)
           S == Scoped(rows, id.source, R)
           part(n) == {id} \X (S \cap (1 .. n))
           next(x, n) == IF n \in S
                         THEN MergeCounts(x, Delta(rows[n], Excluded(R, id.source, n))) ELSE x
           f == [n \in 0 .. N |-> Archive!CountOf(R, part(n))]
           Follows(g) == g = [n \in 0 .. N |-> IF n = 0 THEN ZeroCounts
                                               ELSE next(g[n - 1], n)]
<1>1. N \in Nat /\ S \subseteq 1 .. N
  BY <1>0, EvidenceRows DEF Scoped
<1>2. accumulate_source(rows, id.source, R) = (CHOOSE g : Follows(g))[N]
  BY <1>0, Zenon DEF accumulate_source
<1>3. f[0] = ZeroCounts
  <2>1. part(0) = {}
    OBVIOUS
  <2>2. f[0] = Archive!CountOf(R, part(0))
    BY <1>1
  <2> HIDE DEF part, f
  <2> QED
    BY <2>1, <2>2, CountsOfNone
<1>4. ASSUME NEW n \in 1 .. N
      PROVE  f[n] = next(f[n - 1], n)
  <2>1. n \in 0 .. N /\ n - 1 \in 0 .. N /\ n - 1 \in Nat
    BY <1>1
  <2>2. f[n] = Archive!CountOf(R, part(n)) /\ f[n - 1] = Archive!CountOf(R, part(n - 1))
    BY <2>1
  <2>3. CASE n \in S
    <3>1. part(n) = part(n - 1) \cup {<<id, n>>} /\ part(n - 1) \cap {<<id, n>>} = {}
      BY <1>1, <2>3, PrefixGrows
    <3>2. IsFiniteSet(part(n - 1)) /\ IsFiniteSet({<<id, n>>})
      BY <2>1, BoundedFinite, FS_Singleton
    <3> HIDE DEF part
    <3>3. Archive!CountOf(R, part(n))
            = MergeCounts(Archive!CountOf(R, part(n - 1)), Archive!CountOf(R, {<<id, n>>}))
      BY <3>1, <3>2, CountsAdd
    <3>4. Archive!CountOf(R, {<<id, n>>}) = Delta(rows[n], Excluded(R, id.source, n))
      <4>1. /\ Archive!Row(<<id, n>>) = rows[n]
            /\ Archive!Counted(<<id, n>>, R) <=> ~Excluded(R, id.source, n)
        BY EvidenceRows
      <4>2. Archive!CountOf(R, {<<id, n>>})
              = Delta(Archive!Row(<<id, n>>), ~Archive!Counted(<<id, n>>, R))
        BY CountsOfOne
      <4> QED
        BY <4>1, <4>2, SameDelta
    <3> HIDE DEF f
    <3> QED
      BY <2>2, <2>3, <3>3, <3>4
  <2>4. CASE n \notin S
    <3>1. part(n) = part(n - 1)
      BY <1>1, <2>4, PrefixGrows
    <3> HIDE DEF part, f
    <3> QED
      BY <2>2, <2>4, <3>1
  <2> QED
    BY <2>3, <2>4
<1>5. Follows(f)
  <2> HIDE DEF next
  <2>1. \A n \in 0 .. N : f[n] = IF n = 0 THEN ZeroCounts ELSE next(f[n - 1], n)
    <3> HIDE DEF f
    <3> QED
      BY <1>1, <1>3, <1>4
  <2>2. f = [n \in 0 .. N |-> f[n]]
    OBVIOUS
  <2> HIDE DEF f
  <2> QED
    BY <2>1, <2>2
<1> HIDE DEF f
<1>6. PICK g : Follows(g) /\ accumulate_source(rows, id.source, R) = g[N]
  <2> HIDE DEF Follows
  <2> QED
    BY <1>2, <1>5
<1>7. \A n \in 0 .. N : f[n] = g[n]
  <2> HIDE DEF next
  <2>1. g[0] = ZeroCounts
    BY <1>1, <1>6
  <2>2. \A n \in 1 .. N : g[n] = next(g[n - 1], n)
    BY <1>1, <1>6
  <2>3. \A n \in 1 .. N : f[n - 1] = g[n - 1] => f[n] = g[n]
    BY <1>4, <2>2
  <2>4. f[0] = g[0]
    BY <1>3, <2>1
  <2> QED
    BY <1>1, <2>3, <2>4, SamePrefixes
<1>8. S \cap (1 .. N) = S
  BY <1>1
<1> QED
  BY <1>1, <1>6, <1>7, <1>8 DEF f, ScopedPart

\* The numbers by place.
PlaceOf(c) == Archive!Row(c).place
AtPlace(A, k) == {c \in A : PlaceOf(c) = k}
GroupsOf(request, A) ==
  [k \in {PlaceOf(c) : c \in A} |-> Archive!CountOf(request, AtPlace(A, k))]

LEMMA GroupCount ==
  ASSUME NEW request, NEW A, NEW k
  PROVE  CountAt(GroupsOf(request, A), k) = Archive!CountOf(request, AtPlace(A, k))
<1>1. CASE k \in {PlaceOf(c) : c \in A}
  BY <1>1 DEF CountAt, GroupsOf
<1>2. CASE k \notin {PlaceOf(c) : c \in A}
  <2>1. AtPlace(A, k) = {}
    BY <1>2 DEF AtPlace
  <2>2. CountAt(GroupsOf(request, A), k) = ZeroCounts
    BY <1>2 DEF CountAt, GroupsOf
  <2> QED
    BY <2>1, <2>2, CountsOfNone
<1> QED
  BY <1>1, <1>2

LEMMA GroupsAdd ==
  ASSUME NEW request, NEW A, NEW B, IsFiniteSet(A), IsFiniteSet(B), A \cap B = {}
  PROVE  GroupsOf(request, A \cup B)
           = merge_group_maps(GroupsOf(request, A), GroupsOf(request, B))
<1>1. ASSUME NEW k
      PROVE  Archive!CountOf(request, AtPlace(A \cup B, k))
               = MergeCounts(CountAt(GroupsOf(request, A), k), CountAt(GroupsOf(request, B), k))
  <2>1. PICK a, b : a = AtPlace(A, k) /\ b = AtPlace(B, k)
    OBVIOUS
  <2>2. a \subseteq A /\ b \subseteq B /\ a \cap b = {} /\ AtPlace(A \cup B, k) = a \cup b
    BY <2>1 DEF AtPlace
  <2>3. IsFiniteSet(a) /\ IsFiniteSet(b)
    BY <2>2, FS_Subset
  <2>4. Archive!CountOf(request, a \cup b)
          = MergeCounts(Archive!CountOf(request, a), Archive!CountOf(request, b))
    BY <2>2, <2>3, CountsAdd
  <2> QED
    BY <2>1, <2>2, <2>4, GroupCount
<1>2. {PlaceOf(c) : c \in A \cup B} = {PlaceOf(c) : c \in A} \cup {PlaceOf(c) : c \in B}
  OBVIOUS
<1>3. /\ DOMAIN GroupsOf(request, A) = {PlaceOf(c) : c \in A}
      /\ DOMAIN GroupsOf(request, B) = {PlaceOf(c) : c \in B}
  BY DEF GroupsOf
<1>4. GroupsOf(request, A \cup B)
        = [k \in {PlaceOf(c) : c \in A \cup B} |->
             Archive!CountOf(request, AtPlace(A \cup B, k))]
  BY DEF GroupsOf
<1> QED
  BY <1>1, <1>2, <1>3, <1>4 DEF merge_group_maps

LEMMA GroupsOfNone ==
  ASSUME NEW request
  PROVE  GroupsOf(request, {}) = [k \in {} |-> ZeroCounts]
  BY DEF GroupsOf

LEMMA GroupsOfOne ==
  ASSUME NEW request, NEW c
  PROVE  GroupsOf(request, {c})
           = [k \in {PlaceOf(c)} |-> Delta(Archive!Row(c), ~Archive!Counted(c, request))]
<1>1. {PlaceOf(d) : d \in {c}} = {PlaceOf(c)}
  OBVIOUS
<1>2. \A k \in {PlaceOf(c)} : AtPlace({c}, k) = {c}
  BY DEF AtPlace
<1>3. GroupsOf(request, {c})
        = [k \in {PlaceOf(d) : d \in {c}} |-> Archive!CountOf(request, AtPlace({c}, k))]
  BY DEF GroupsOf
<1> QED
  BY <1>1, <1>2, <1>3, CountsOfOne

\* Numbers by place taken attempt by attempt are those of the attempts in scope.
LEMMA GroupsOfPiece ==
  ASSUME NEW R, NEW id \in EvidenceId
  PROVE  accumulate_groups(AttemptsOf(id), id.source, R) = GroupsOf(R, ScopedPart(R, id))
<1>0. PICK N : N = Len(AttemptsOf(id))
  OBVIOUS
<1> DEFINE rows == AttemptsOf(id)
           S == Scoped(rows, id.source, R)
           part(n) == {id} \X (S \cap (1 .. n))
           one(n) == [k \in {rows[n].place} |-> Delta(rows[n], Excluded(R, id.source, n))]
           next(x, n) == IF n \in S THEN merge_group_maps(x, one(n)) ELSE x
           none == [k \in {} |-> ZeroCounts]
           f == [n \in 0 .. N |-> GroupsOf(R, part(n))]
           Follows(g) == g = [n \in 0 .. N |-> IF n = 0 THEN none ELSE next(g[n - 1], n)]
<1>1. N \in Nat /\ S \subseteq 1 .. N
  BY <1>0, EvidenceRows DEF Scoped
<1>2. accumulate_groups(rows, id.source, R) = (CHOOSE g : Follows(g))[N]
  BY <1>0, Zenon DEF accumulate_groups
<1>3. f[0] = none
  <2>1. part(0) = {}
    OBVIOUS
  <2>2. f[0] = GroupsOf(R, part(0))
    BY <1>1
  <2> HIDE DEF part, f
  <2> QED
    BY <2>1, <2>2, GroupsOfNone
<1>4. ASSUME NEW n \in 1 .. N
      PROVE  f[n] = next(f[n - 1], n)
  <2>1. n \in 0 .. N /\ n - 1 \in 0 .. N /\ n - 1 \in Nat
    BY <1>1
  <2>2. f[n] = GroupsOf(R, part(n)) /\ f[n - 1] = GroupsOf(R, part(n - 1))
    BY <2>1
  <2>3. CASE n \in S
    <3>1. part(n) = part(n - 1) \cup {<<id, n>>} /\ part(n - 1) \cap {<<id, n>>} = {}
      BY <1>1, <2>3, PrefixGrows
    <3>2. IsFiniteSet(part(n - 1)) /\ IsFiniteSet({<<id, n>>})
      BY <2>1, BoundedFinite, FS_Singleton
    <3> HIDE DEF part
    <3>3. GroupsOf(R, part(n))
            = merge_group_maps(GroupsOf(R, part(n - 1)), GroupsOf(R, {<<id, n>>}))
      BY <3>1, <3>2, GroupsAdd
    <3>4. GroupsOf(R, {<<id, n>>}) = one(n)
      <4>1. /\ Archive!Row(<<id, n>>) = rows[n]
            /\ Archive!Counted(<<id, n>>, R) <=> ~Excluded(R, id.source, n)
        BY EvidenceRows
      <4>2. GroupsOf(R, {<<id, n>>})
              = [k \in {PlaceOf(<<id, n>>)} |->
                   Delta(Archive!Row(<<id, n>>), ~Archive!Counted(<<id, n>>, R))]
        BY GroupsOfOne
      <4>3. Delta(rows[n], ~Archive!Counted(<<id, n>>, R))
              = Delta(rows[n], Excluded(R, id.source, n))
        BY <4>1, SameDelta
      <4> QED
        BY <4>1, <4>2, <4>3 DEF PlaceOf
    <3> HIDE DEF f, one
    <3> QED
      BY <2>2, <2>3, <3>3, <3>4
  <2>4. CASE n \notin S
    <3>1. part(n) = part(n - 1)
      BY <1>1, <2>4, PrefixGrows
    <3> HIDE DEF part, f
    <3> QED
      BY <2>2, <2>4, <3>1
  <2> QED
    BY <2>3, <2>4
<1>5. Follows(f)
  <2> HIDE DEF next, none
  <2>1. \A n \in 0 .. N : f[n] = IF n = 0 THEN none ELSE next(f[n - 1], n)
    <3> HIDE DEF f
    <3> QED
      BY <1>1, <1>3, <1>4
  <2>2. f = [n \in 0 .. N |-> f[n]]
    OBVIOUS
  <2> HIDE DEF f
  <2> QED
    BY <2>1, <2>2
<1> HIDE DEF f
<1>6. PICK g : Follows(g) /\ accumulate_groups(rows, id.source, R) = g[N]
  <2> HIDE DEF Follows
  <2> QED
    BY <1>2, <1>5
<1>7. \A n \in 0 .. N : f[n] = g[n]
  <2> HIDE DEF next, none
  <2>1. g[0] = none
    BY <1>1, <1>6
  <2>2. \A n \in 1 .. N : g[n] = next(g[n - 1], n)
    BY <1>1, <1>6
  <2>3. \A n \in 1 .. N : f[n - 1] = g[n - 1] => f[n] = g[n]
    BY <1>4, <2>2
  <2>4. f[0] = g[0]
    BY <1>3, <2>1
  <2> QED
    BY <1>1, <2>3, <2>4, SamePrefixes
<1>8. S \cap (1 .. N) = S
  BY <1>1
<1> QED
  BY <1>1, <1>6, <1>7, <1>8, SMTT(40) DEF f, ScopedPart

\* The attempts of a device, or of none, in a piece that a retest counts.
DeviceRows(R, id, d) ==
  {i \in DOMAIN AttemptsOf(id) :
     /\ AttemptsOf(id)[i].ecid = d /\ InScope(AttemptsOf(id)[i], id.source, R.scope)
     /\ ~Excluded(R, id.source, i)}

\* A history h tells the verdicts of the attempts in X, in their order.
Tells(rows, h, X) ==
  /\ h \in Seq(Verdict) /\ h # <<>> /\ IsFiniteSet(X) /\ Cardinality(X) = Len(h)
  /\ \E i \in X : (\A j \in X : i <= j) /\ h[1] = rows[i].verdict
  /\ \E i \in X : (\A j \in X : i >= j) /\ h[Len(h)] = rows[i].verdict
  /\ \A v \in Verdict : (\E j \in DOMAIN h : h[j] = v) <=> \E i \in X : rows[i].verdict = v

LEMMA TellsOne ==
  ASSUME NEW rows, NEW n \in Nat, rows[n].verdict \in Verdict
  PROVE  Tells(rows, <<rows[n].verdict>>, {n})
<1>1. IsFiniteSet({n}) /\ Cardinality({n}) = 1
  BY FS_Singleton
<1>2. PICK v \in Verdict : v = rows[n].verdict
  OBVIOUS
<1>3. <<v>> \in Seq(Verdict) /\ Len(<<v>>) = 1 /\ <<v>>[1] = v /\ <<v>> # <<>> /\ DOMAIN <<v>> = {1}
  OBVIOUS
<1>4. \A w \in Verdict : (\E j \in DOMAIN <<v>> : <<v>>[j] = w) <=> \E i \in {n} : rows[i].verdict = w
  BY <1>2, <1>3
<1> QED
  BY <1>1, <1>2, <1>3, <1>4 DEF Tells

LEMMA TellsMore ==
  ASSUME NEW rows, NEW n \in Nat, rows[n].verdict \in Verdict,
         NEW X \in SUBSET Nat, \A i \in X : i < n, NEW h, Tells(rows, h, X)
  PROVE  Tells(rows, Append(h, rows[n].verdict), X \cup {n})
<1>1. PICK v \in Verdict : v = rows[n].verdict
  OBVIOUS
<1>2. h \in Seq(Verdict) /\ h # <<>> /\ IsFiniteSet(X) /\ Cardinality(X) = Len(h)
  BY DEF Tells
<1>3. PICK g : g = Append(h, v)
  OBVIOUS
<1>4. /\ g \in Seq(Verdict) /\ Len(g) = Len(h) + 1 /\ g[Len(g)] = v /\ g # <<>>
      /\ \A j \in 1 .. Len(h) : g[j] = h[j]
      /\ Len(h) \in Nat /\ Len(h) >= 1 /\ DOMAIN h = 1 .. Len(h) /\ DOMAIN g = 1 .. Len(h) + 1
  BY <1>2, <1>3
<1>5. IsFiniteSet(X \cup {n}) /\ Cardinality(X \cup {n}) = Cardinality(X) + 1
  <2>1. n \notin X
    OBVIOUS
  <2> QED
    BY <1>2, <2>1, FS_AddElement
<1>6. \E i \in X \cup {n} : (\A j \in X \cup {n} : i <= j) /\ g[1] = rows[i].verdict
  <2>1. PICK i \in X : (\A j \in X : i <= j) /\ h[1] = rows[i].verdict
    BY DEF Tells
  <2>2. g[1] = h[1]
    BY <1>4
  <2>3. \A j \in X \cup {n} : i <= j
    <3>1. i < n /\ i \in Nat
      BY <2>1
    <3>2. i <= n
      BY <3>1
    <3> QED
      BY <2>1, <3>2
  <2> QED
    BY <2>1, <2>2, <2>3
<1>7. \E i \in X \cup {n} : (\A j \in X \cup {n} : i >= j) /\ g[Len(g)] = rows[i].verdict
  <2>1. \A j \in X \cup {n} : n >= j
    OBVIOUS
  <2> QED
    BY <1>1, <1>4, <2>1
<1>8. ASSUME NEW w \in Verdict
      PROVE  (\E j \in DOMAIN g : g[j] = w) <=> \E i \in X \cup {n} : rows[i].verdict = w
  <2>1. (\E j \in DOMAIN h : h[j] = w) <=> \E i \in X : rows[i].verdict = w
    BY DEF Tells
  <2>2. (\E j \in DOMAIN g : g[j] = w) <=> (\E j \in DOMAIN h : h[j] = w) \/ v = w
    <3>1. \A j \in DOMAIN g : j \in DOMAIN h \/ j = Len(g)
      BY <1>4
    <3>2. \A j \in DOMAIN h : j \in DOMAIN g /\ g[j] = h[j]
      BY <1>4
    <3>3. Len(g) \in DOMAIN g
      BY <1>4
    <3> QED
      BY <1>4, <3>1, <3>2, <3>3
  <2> QED
    BY <1>1, <2>1, <2>2
<1>9. g # <<>> /\ Cardinality(X \cup {n}) = Len(g)
  BY <1>2, <1>4, <1>5
<1>10. Tells(rows, g, X \cup {n})
  BY <1>4, <1>5, <1>6, <1>7, <1>8, <1>9 DEF Tells
<1> QED
  BY <1>1, <1>3, <1>10

Scan ==
  [unresolved : Nat, history : UNION {[S -> Seq(Verdict)] : S \in SUBSET Device},
   selected : SUBSET Device]
NoScan == [unresolved |-> 0, history |-> [d \in {} |-> <<>>], selected |-> {}]

LEMMA ScanStarts == NoScan \in Scan
<1>1. [d \in {} |-> <<>>] \in [{} -> Seq(Verdict)]
  OBVIOUS
<1>2. {} \in SUBSET Device
  OBVIOUS
<1>3. [d \in {} |-> <<>>] \in UNION {[S -> Seq(Verdict)] : S \in SUBSET Device}
  BY <1>1, <1>2
<1> QED
  BY <1>3 DEF NoScan, Scan

LEMMA CollectKeepsType ==
  ASSUME NEW x \in Scan, NEW row \in AttemptRecord, NEW n, NEW source, NEW R
  PROVE  CollectRetest(x, row, n, source, R) \in Scan
<1>1. CASE ~InScope(row, source, R.scope) \/ Excluded(R, source, n)
  BY <1>1 DEF CollectRetest
<1>2. CASE ~(~InScope(row, source, R.scope) \/ Excluded(R, source, n)) /\ row.ecid = NoDevice
  <2>1. CollectRetest(x, row, n, source, R) = [x EXCEPT !.unresolved = @ + 1]
    BY <1>2 DEF CollectRetest
  <2> QED
    BY <2>1 DEF Scan
<1>3. CASE ~(~InScope(row, source, R.scope) \/ Excluded(R, source, n)) /\ row.ecid # NoDevice
  <2>1. row.ecid \in Device /\ row.verdict \in Verdict
    BY <1>3 DEF AttemptRecord
  <2>2. PICK S \in SUBSET Device : x.history \in [S -> Seq(Verdict)]
    BY DEF Scan
  <2> DEFINE next == [d \in DOMAIN x.history \cup {row.ecid} |->
                        IF d # row.ecid THEN x.history[d]
                        ELSE IF d \in DOMAIN x.history THEN Append(x.history[d], row.verdict)
                        ELSE <<row.verdict>>]
             chosen == IF row.latest = "true" THEN x.selected \cup {row.ecid} ELSE x.selected
  <2>3. CollectRetest(x, row, n, source, R)
          = [x EXCEPT !.selected = chosen, !.history = next]
    BY <1>3 DEF CollectRetest
  <2>4. next \in [S \cup {row.ecid} -> Seq(Verdict)]
    BY <2>1, <2>2
  <2>5. next \in UNION {[T -> Seq(Verdict)] : T \in SUBSET Device}
    <3>1. S \cup {row.ecid} \in SUBSET Device
      BY <2>1
    <3> HIDE DEF next
    <3> QED
      BY <2>4, <3>1
  <2>6. chosen \in SUBSET Device
    BY <2>1 DEF Scan
  <2> HIDE DEF next, chosen
  <2> QED
    BY <2>3, <2>5, <2>6 DEF Scan
<1> QED
  BY <1>1, <1>2, <1>3

\* What a scan of the first n attempts has gathered.
Gathered(R, id, x, n) ==
  LET upto(d) == DeviceRows(R, id, d) \cap (1 .. n)
  IN /\ x \in Scan /\ x.unresolved = Cardinality(upto(NoDevice))
     /\ DOMAIN x.history = {d \in Device : upto(d) # {}}
     /\ \A d \in DOMAIN x.history : Tells(AttemptsOf(id), x.history[d], upto(d))
     /\ x.selected = {d \in Device : \E i \in upto(d) : AttemptsOf(id)[i].latest = "true"}

LEMMA NothingGathered ==
  ASSUME NEW R, NEW id
  PROVE  Gathered(R, id, NoScan, 0)
<1>1. \A d : DeviceRows(R, id, d) \cap (1 .. 0) = {}
  OBVIOUS
<1>2. DOMAIN NoScan.history = {} /\ NoScan.unresolved = 0 /\ NoScan.selected = {}
  BY DEF NoScan
<1> QED
  BY <1>1, <1>2, ScanStarts, FS_EmptySet DEF Gathered

LEMMA GatherStep ==
  ASSUME NEW R, NEW id \in EvidenceId, NEW n \in 1 .. Len(AttemptsOf(id)), NEW x,
         Gathered(R, id, x, n - 1)
  PROVE  Gathered(R, id, CollectRetest(x, AttemptsOf(id)[n], n, id.source, R), n)
<1>1. PICK rows : rows = AttemptsOf(id)
  OBVIOUS
<1>2. PICK row : row = rows[n]
  OBVIOUS
<1>3. rows \in Seq(AttemptRecord) /\ n \in DOMAIN rows /\ DOMAIN rows = 1 .. Len(rows) /\ n \in Nat
  BY <1>1, EvidenceRows
<1>4. /\ row \in AttemptRecord /\ row.verdict \in Verdict /\ row.ecid \in Device \cup {NoDevice}
  <2>1. row \in AttemptRecord
    BY <1>2, <1>3
  <2> QED
    BY <2>1 DEF AttemptRecord
<1>5. PICK next : next = CollectRetest(x, row, n, id.source, R)
  OBVIOUS
<1>6. x \in Scan /\ next \in Scan
  BY <1>4, <1>5, CollectKeepsType DEF Gathered
<1> DEFINE old(d) == DeviceRows(R, id, d) \cap (1 .. n - 1)
           new(d) == DeviceRows(R, id, d) \cap (1 .. n)
           counts == InScope(row, id.source, R.scope) /\ ~Excluded(R, id.source, n)
<1>7. \A d : DeviceRows(R, id, d) \subseteq 1 .. Len(rows)
  BY <1>1, <1>3 DEF DeviceRows
<1>8. \A d : n \in DeviceRows(R, id, d) <=> counts /\ row.ecid = d
  BY <1>1, <1>2, <1>3 DEF DeviceRows
<1>9. \A d : new(d) = IF counts /\ row.ecid = d THEN old(d) \cup {n} ELSE old(d)
  <2> SUFFICES ASSUME NEW d
               PROVE  new(d) = IF counts /\ row.ecid = d THEN old(d) \cup {n} ELSE old(d)
    OBVIOUS
  <2>1. PICK S : S = DeviceRows(R, id, d)
    OBVIOUS
  <2>2. PICK N : N = Len(rows)
    OBVIOUS
  <2>3. S \subseteq 1 .. N /\ N \in Nat /\ n \in 1 .. N
    BY <1>1, <1>3, <1>7, <2>1, <2>2
  <2>4. /\ n \in S => S \cap (1 .. n) = (S \cap (1 .. n - 1)) \cup {n}
        /\ n \notin S => S \cap (1 .. n) = S \cap (1 .. n - 1)
    BY <2>3, PrefixGrows
  <2> HIDE DEF counts
  <2> QED
    BY <1>8, <2>1, <2>4
<1>10. \A d : n \notin old(d) /\ IsFiniteSet(old(d)) /\ old(d) \in SUBSET Nat /\ \A i \in old(d) : i < n
  <2> SUFFICES ASSUME NEW d
               PROVE  /\ n \notin old(d) /\ IsFiniteSet(old(d)) /\ old(d) \in SUBSET Nat
                      /\ \A i \in old(d) : i < n
    OBVIOUS
  <2>1. PICK S : S = DeviceRows(R, id, d)
    OBVIOUS
  <2>2. n - 1 \in Nat
    BY <1>3
  <2>3. IsFiniteSet(S \cap (1 .. n - 1))
    BY <2>2, BoundedFinite
  <2> QED
    BY <1>3, <2>1, <2>3
<1>11. /\ x.unresolved = Cardinality(old(NoDevice))
       /\ DOMAIN x.history = {d \in Device : old(d) # {}}
       /\ \A d \in DOMAIN x.history : Tells(rows, x.history[d], old(d))
       /\ x.selected = {d \in Device : \E i \in old(d) : rows[i].latest = "true"}
  BY <1>1 DEF Gathered
<1> HIDE DEF old, new
<1> SUFFICES /\ next.unresolved = Cardinality(new(NoDevice))
             /\ DOMAIN next.history = {d \in Device : new(d) # {}}
             /\ \A d \in DOMAIN next.history : Tells(rows, next.history[d], new(d))
             /\ next.selected = {d \in Device : \E i \in new(d) : rows[i].latest = "true"}
  BY <1>1, <1>2, <1>5, <1>6 DEF Gathered, new
<1>12. CASE ~counts
  <2>1. next = x
    BY <1>5, <1>12 DEF CollectRetest
  <2>2. \A d : new(d) = old(d)
    BY <1>9, <1>12
  <2> QED
    BY <1>11, <2>1, <2>2
<1>13. CASE counts /\ row.ecid = NoDevice
  <2>1. next = [x EXCEPT !.unresolved = @ + 1]
    BY <1>5, <1>13 DEF CollectRetest
  <2>2. /\ next.unresolved = x.unresolved + 1 /\ next.history = x.history
        /\ next.selected = x.selected
    BY <1>6, <2>1 DEF Scan
  <2>3. \A d \in Device : new(d) = old(d)
    BY <1>9, <1>13, DeviceAssumption
  <2>4. new(NoDevice) = old(NoDevice) \cup {n}
    BY <1>9, <1>13
  <2>5. Cardinality(old(NoDevice) \cup {n}) = Cardinality(old(NoDevice)) + 1
    <3>1. PICK S : S = old(NoDevice)
      OBVIOUS
    <3>2. IsFiniteSet(S) /\ n \notin S
      BY <1>10, <3>1
    <3>3. Cardinality(S \cup {n}) = Cardinality(S) + 1
      BY <3>2, FS_AddElement
    <3> QED
      BY <3>1, <3>3
  <2> QED
    BY <1>11, <2>2, <2>3, <2>4, <2>5
<1>14. CASE counts /\ row.ecid # NoDevice
  <2>1. PICK e \in Device : e = row.ecid
    BY <1>4, <1>14
  <2> DEFINE grown(d) == IF d # e THEN x.history[d]
                         ELSE IF d \in DOMAIN x.history THEN Append(x.history[d], row.verdict)
                         ELSE <<row.verdict>>
  <2>2. next = [x EXCEPT !.selected = IF row.latest = "true" THEN @ \cup {e} ELSE @,
                         !.history = [d \in DOMAIN x.history \cup {e} |-> grown(d)]]
    BY <1>5, <1>14, <2>1 DEF CollectRetest
  <2>3. /\ next.unresolved = x.unresolved
        /\ next.history = [d \in DOMAIN x.history \cup {e} |-> grown(d)]
        /\ next.selected = IF row.latest = "true" THEN x.selected \cup {e} ELSE x.selected
    BY <1>6, <2>2 DEF Scan
  <2>4. new(e) = old(e) \cup {n} /\ \A d : d # e => new(d) = old(d)
    BY <1>9, <1>14, <2>1
  <2>5. new(NoDevice) = old(NoDevice)
    BY <2>1, <2>4, DeviceAssumption
  <2>6. DOMAIN next.history = {d \in Device : new(d) # {}}
    BY <1>11, <2>1, <2>3, <2>4
  <2>7. ASSUME NEW d \in DOMAIN next.history
        PROVE  Tells(rows, next.history[d], new(d))
    <3>1. next.history[d] = grown(d)
      BY <2>3
    <3>2. CASE d # e
      <4>1. d \in DOMAIN x.history
        BY <2>3, <3>2
      <4> QED
        BY <1>11, <2>4, <3>1, <3>2, <4>1
    <3>3. CASE d = e /\ d \in DOMAIN x.history
      <4>1. PICK h, X : h = x.history[e] /\ X = old(e)
        OBVIOUS
      <4>2. Tells(rows, h, X) /\ X \in SUBSET Nat /\ \A i \in X : i < n
        BY <1>10, <1>11, <3>3, <4>1
      <4>3. Tells(rows, Append(h, rows[n].verdict), X \cup {n})
        BY <1>2, <1>3, <1>4, <4>2, TellsMore
      <4> QED
        BY <1>2, <2>4, <3>1, <3>3, <4>1, <4>3
    <3>4. CASE d = e /\ d \notin DOMAIN x.history
      <4>1. old(e) = {}
        BY <1>11, <3>4
      <4>2. new(e) = {n}
        BY <2>4, <4>1
      <4>3. Tells(rows, <<rows[n].verdict>>, {n})
        BY <1>2, <1>3, <1>4, TellsOne
      <4> QED
        BY <1>2, <3>1, <3>4, <4>2, <4>3
    <3> QED
      BY <3>2, <3>3, <3>4
  <2>8. next.selected = {d \in Device : \E i \in new(d) : rows[i].latest = "true"}
    <3>1. ASSUME NEW d \in Device
          PROVE  d \in next.selected <=> \E i \in new(d) : rows[i].latest = "true"
      <4>1. CASE d # e
        BY <1>11, <2>3, <2>4, <4>1
      <4>2. CASE d = e
        BY <1>2, <1>11, <2>3, <2>4, <4>2
      <4> QED
        BY <4>1, <4>2
    <3>2. next.selected \subseteq Device
      BY <1>6 DEF Scan
    <3> QED
      BY <3>1, <3>2
  <2> QED
    BY <1>11, <2>3, <2>5, <2>6, <2>7, <2>8
<1> QED
  BY <1>12, <1>13, <1>14

LEMMA HistoriesGathered ==
  ASSUME NEW R, NEW id \in EvidenceId
  PROVE  Gathered(R, id, DeviceHistories(AttemptsOf(id), id.source, R), Len(AttemptsOf(id)))
<1>0. PICK N : N = Len(AttemptsOf(id))
  OBVIOUS
<1> DEFINE rows == AttemptsOf(id)
           next(x, n) == CollectRetest(x, rows[n], n, id.source, R)
           Follows(g) == g = [n \in 0 .. N |-> IF n = 0 THEN NoScan ELSE next(g[n - 1], n)]
<1>1. N \in Nat /\ \A n \in 1 .. N : rows[n] \in AttemptRecord
  BY <1>0, EvidenceRows
<1>2. DeviceHistories(rows, id.source, R) = (CHOOSE g : Follows(g))[N]
  BY <1>0, Zenon DEF DeviceHistories, NoScan
<1>3. \E f : Follows(f)
  <2> DEFINE step == [s \in Scan \X (1 .. N) |-> next(s[1], s[2])]
  <2>1. step \in [Scan \X (1 .. N) -> Scan]
    <3>1. \A s \in Scan \X (1 .. N) : next(s[1], s[2]) \in Scan
      BY <1>1, CollectKeepsType
    <3> HIDE DEF next
    <3> QED
      BY <3>1
  <2>2. \A x \in Scan : \A n \in 1 .. N : step[<<x, n>>] = next(x, n)
    <3> HIDE DEF next
    <3> QED
      OBVIOUS
  <2> HIDE DEF step
  <2>3. PICK f \in [0 .. N -> Scan] :
          \A n \in 0 .. N : f[n] = IF n = 0 THEN NoScan ELSE step[<<f[n - 1], n>>]
    <3>1. PICK V, base, given : V = Scan /\ base = NoScan /\ given = step
      OBVIOUS
    <3>2. base \in V /\ given \in [V \X (1 .. N) -> V]
      BY <2>1, <3>1, ScanStarts
    <3>3. \E f \in [0 .. N -> V] : Recurs(f, N, base, given)
      BY <1>1, <3>2, RecursionExists
    <3> QED
      BY <3>1, <3>3 DEF Recurs
  <2> HIDE DEF next
  <2>4. \A n \in 0 .. N : f[n] = IF n = 0 THEN NoScan ELSE next(f[n - 1], n)
    <3> SUFFICES ASSUME NEW n \in 0 .. N, n # 0 PROVE f[n] = next(f[n - 1], n)
      BY <2>3
    <3>1. n \in 1 .. N /\ n - 1 \in 0 .. N
      BY <1>1
    <3> QED
      BY <2>2, <2>3, <3>1
  <2>5. f = [n \in 0 .. N |-> f[n]]
    BY <2>3
  <2> QED
    BY <2>4, <2>5
<1>4. PICK g : Follows(g) /\ DeviceHistories(rows, id.source, R) = g[N]
  <2> HIDE DEF Follows
  <2> QED
    BY <1>2, <1>3
<1> DEFINE T == {n \in Nat : n <= N => Gathered(R, id, g[n], n)}
<1>5. 0 \in T
  <2>1. g[0] = NoScan
    BY <1>1, <1>4
  <2> QED
    BY <2>1, NothingGathered
<1>6. ASSUME NEW n \in T PROVE n + 1 \in T
  <2> SUFFICES ASSUME n + 1 <= N PROVE Gathered(R, id, g[n + 1], n + 1)
    OBVIOUS
  <2>1. PICK m : m = n + 1
    OBVIOUS
  <2>2. m \in 1 .. N /\ m \in 0 .. N /\ m # 0 /\ m - 1 = n /\ n <= N
    BY <1>1, <2>1
  <2>3. Gathered(R, id, g[m - 1], m - 1)
    BY <2>2
  <2>4. g[m] = next(g[m - 1], m)
    <3> HIDE DEF next
    <3> QED
      BY <1>4, <2>2
  <2>5. Gathered(R, id, next(g[m - 1], m), m)
    BY <1>0, <2>2, <2>3, GatherStep
  <2> HIDE DEF next
  <2> QED
    BY <2>1, <2>4, <2>5
<1> HIDE DEF T
<1>7. T \in SUBSET Nat
  BY DEF T
<1>8. T = Nat
  BY <1>5, <1>6, <1>7, NatSetInduction
<1>9. Gathered(R, id, g[N], N)
  BY <1>1, <1>8 DEF T
<1> QED
  BY <1>0, <1>4, <1>9

\* The same numbers of a set of pieces.
HistoryIn(R, id, d) == {id} \X DeviceRows(R, id, d)
HistoriesIn(R, S) ==
  {h \in {HistoryIn(R, id, d) : id \in S, d \in Device} :
     \E c \in h : InPopulation(Archive!Row(c), R.population)}
WithoutDevice(R, S) == UNION {HistoryIn(R, id, NoDevice) : id \in S}
FirstOf(h) == Archive!Row(CHOOSE c \in h : \A d \in h : c[2] <= d[2]).verdict
LastOf(h) == Archive!Row(CHOOSE c \in h : \A d \in h : c[2] >= d[2]).verdict
VerdictsOf(h) == {Archive!Row(c).verdict : c \in h}
Qualifies(n, h) ==
  CASE n = "retested" -> Cardinality(h) # 1
    [] n = "changed" -> {"pass", "fail"} \subseteq VerdictsOf(h)
    [] n = "first_fail" -> FirstOf(h) = "fail"
    [] n = "recovered" -> <<FirstOf(h), LastOf(h)>> = <<"fail", "pass">>
    [] n = "first_pass" -> FirstOf(h) = "pass"
    [] n = "degraded" -> <<FirstOf(h), LastOf(h)>> = <<"pass", "fail">>
    [] n = "latest_pass" -> LastOf(h) = "pass"
    [] n = "latest_fail" -> LastOf(h) = "fail"
    [] OTHER -> TRUE
Simple == RetestCount \ {"unresolved", "devices", "extra"}
RetestIn(R, S) ==
  [n \in RetestCount |->
     CASE n = "unresolved" -> Cardinality(WithoutDevice(R, S))
       [] n = "devices" -> Cardinality(HistoriesIn(R, S))
       [] n = "extra" -> Cardinality(UNION HistoriesIn(R, S)) - Cardinality(HistoriesIn(R, S))
       [] OTHER -> Cardinality({h \in HistoriesIn(R, S) : Qualifies(n, h)})]

LEMMA HistoryIs ==
  ASSUME NEW R, NEW id \in Archive!Named(R), id \in EvidenceId, NEW d
  PROVE  Archive!History(R, id, d) = HistoryIn(R, id, d)
<1> DEFINE rows == AttemptsOf(id)
<1>1. \A c : c \in Archive!Attempts(R) /\ c[1] = id <=> c \in {id} \X DOMAIN rows
  <2>1. \A c : c \in Archive!Attempts(R)
               <=> \E other \in Archive!Named(R) : c \in {other} \X DOMAIN RowsById[other]
    BY DEF Archive!Attempts
  <2>2. RowsById[id] = rows
    BY EvidenceRows
  <2> QED
    BY <2>1, <2>2
<1>2. ASSUME NEW c
      PROVE  c \in Archive!History(R, id, d) <=> c \in HistoryIn(R, id, d)
  <2>1. CASE c \in {id} \X DOMAIN rows
    <3>1. PICK i \in DOMAIN rows : c = <<id, i>>
      BY <2>1
    <3>2. c \in HistoryIn(R, id, d)
            <=> /\ rows[i].ecid = d /\ InScope(rows[i], id.source, R.scope)
                /\ ~Excluded(R, id.source, i)
      BY <3>1 DEF HistoryIn, DeviceRows
    <3>3. /\ Archive!Row(c) = rows[i]
          /\ Archive!Counted(c, R) <=> ~Excluded(R, id.source, i)
      BY <3>1, EvidenceRows
    <3>4. c \in Archive!History(R, id, d)
            <=> /\ rows[i].ecid = d /\ Archive!InScope(rows[i], id.source, R.scope)
                /\ Archive!Counted(c, R)
      BY <1>1, <2>1, <3>1, <3>3 DEF Archive!History
    <3>5. Archive!InScope(rows[i], id.source, R.scope) <=> InScope(rows[i], id.source, R.scope)
      BY DEF Archive!InScope, InScope
    <3> QED
      BY <3>2, <3>3, <3>4, <3>5
  <2>2. CASE c \notin {id} \X DOMAIN rows
    <3>1. c \notin HistoryIn(R, id, d)
      BY <2>2 DEF HistoryIn, DeviceRows
    <3>2. c \notin Archive!History(R, id, d)
      BY <1>1, <2>2 DEF Archive!History
    <3> QED
      BY <3>1, <3>2
  <2> QED
    BY <2>1, <2>2
<1>3. \A c \in Archive!History(R, id, d) : c \in HistoryIn(R, id, d)
  BY <1>2
<1>4. \A c \in HistoryIn(R, id, d) : c \in Archive!History(R, id, d)
  BY <1>2
<1> QED
  BY <1>3, <1>4

LEMMA RetestIs ==
  ASSUME NEW R, Archive!Named(R) \subseteq EvidenceId
  PROVE  Archive!RetestOf(R) = RetestIn(R, Archive!Named(R))
<1>1. PICK S : S = Archive!Named(R)
  OBVIOUS
<1>2. \A id \in S : id \in EvidenceId /\ \A d : Archive!History(R, id, d) = HistoryIn(R, id, d)
  BY <1>1, HistoryIs
<1>3. Archive!Histories(R) = HistoriesIn(R, S)
  <2>1. \A row : Archive!InPopulation(row, R.population) <=> InPopulation(row, R.population)
    BY DEF Archive!InPopulation, InPopulation
  <2>2. {Archive!History(R, id, d) : id \in S, d \in Device}
          = {HistoryIn(R, id, d) : id \in S, d \in Device}
    BY <1>2
  <2> QED
    BY <1>1, <2>1, <2>2 DEF Archive!Histories, HistoriesIn
<1>4. UNION {Archive!History(R, id, NoDevice) : id \in S} = WithoutDevice(R, S)
  BY <1>2 DEF WithoutDevice
<1>5. PICK H : H = HistoriesIn(R, S)
  OBVIOUS
<1> DEFINE chosen(n) == {h \in H : Qualifies(n, h)}
           value(n) ==
             CASE n = "unresolved" -> Cardinality(WithoutDevice(R, S))
               [] n = "devices" -> Cardinality(H)
               [] n = "retested" -> Cardinality({h \in H : Cardinality(h) # 1})
               [] n = "extra" -> Cardinality(UNION H) - Cardinality(H)
               [] n = "changed" -> Cardinality({h \in H : {"pass", "fail"} \subseteq VerdictsOf(h)})
               [] n = "first_fail" -> Cardinality({h \in H : FirstOf(h) = "fail"})
               [] n = "recovered" ->
                    Cardinality({h \in H : <<FirstOf(h), LastOf(h)>> = <<"fail", "pass">>})
               [] n = "first_pass" -> Cardinality({h \in H : FirstOf(h) = "pass"})
               [] n = "degraded" ->
                    Cardinality({h \in H : <<FirstOf(h), LastOf(h)>> = <<"pass", "fail">>})
               [] n = "latest_pass" -> Cardinality({h \in H : LastOf(h) = "pass"})
               [] n = "latest_fail" -> Cardinality({h \in H : LastOf(h) = "fail"})
<1>6. Archive!RetestOf(R) = [n \in RetestCount |-> value(n)]
  BY <1>1, <1>3, <1>4, <1>5, SameSize, ZenonT(60)
     DEF Archive!RetestOf, Archive!RetestCount, RetestCount, FirstOf, LastOf, VerdictsOf
<1>7. ASSUME NEW n \in RetestCount
      PROVE  value(n) = RetestIn(R, S)[n]
  <2>1. RetestIn(R, S)[n] =
          CASE n = "unresolved" -> Cardinality(WithoutDevice(R, S))
            [] n = "devices" -> Cardinality(H)
            [] n = "extra" -> Cardinality(UNION H) - Cardinality(H)
            [] OTHER -> Cardinality(chosen(n))
    BY <1>5 DEF RetestIn
  <2>2. CASE n \in {"unresolved", "devices", "extra"}
    BY <2>1, <2>2
  <2>3. CASE n \in Simple
    <3>1. RetestIn(R, S)[n] = Cardinality(chosen(n))
      BY <2>1, <2>3 DEF Simple
    <3>2. value(n) = Cardinality(chosen(n))
      <4>1. CASE n = "retested"
        BY <4>1 DEF Qualifies
      <4>2. CASE n = "changed"
        BY <4>2 DEF Qualifies
      <4>3. CASE n = "first_fail"
        BY <4>3 DEF Qualifies
      <4>4. CASE n = "recovered"
        BY <4>4 DEF Qualifies
      <4>5. CASE n = "first_pass"
        BY <4>5 DEF Qualifies
      <4>6. CASE n = "degraded"
        BY <4>6 DEF Qualifies
      <4>7. CASE n = "latest_pass"
        BY <4>7 DEF Qualifies
      <4>8. CASE n = "latest_fail"
        BY <4>8 DEF Qualifies
      <4> QED
        BY <2>3, <4>1, <4>2, <4>3, <4>4, <4>5, <4>6, <4>7, <4>8 DEF Simple, RetestCount
    <3> QED
      BY <3>1, <3>2
  <2> QED
    BY <2>2, <2>3 DEF Simple
<1>8. RetestIn(R, S) = [n \in RetestCount |-> RetestIn(R, S)[n]]
  BY DEF RetestIn
<1> QED
  BY <1>1, <1>6, <1>7, <1>8

\* The attempts of a set of pieces are finitely many, and so are their histories.
LEMMA HistoriesFinite ==
  ASSUME NEW R, NEW S, S \subseteq EvidenceId, IsFiniteSet(S)
  PROVE  /\ IsFiniteSet(HistoriesIn(R, S)) /\ IsFiniteSet(UNION HistoriesIn(R, S))
         /\ IsFiniteSet(WithoutDevice(R, S))
<1> DEFINE rowsOf == [id \in S |-> {id} \X DOMAIN AttemptsOf(id)]
           all == UNION {rowsOf[id] : id \in S}
<1>1. \A id \in S : IsFiniteSet(rowsOf[id])
  <2> SUFFICES ASSUME NEW id \in S PROVE IsFiniteSet({id} \X DOMAIN AttemptsOf(id))
    OBVIOUS
  <2>1. PICK D : D = DOMAIN AttemptsOf(id)
    OBVIOUS
  <2>2. PICK N \in Nat : D = 1 .. N
    BY <2>1, EvidenceRows
  <2>3. IsFiniteSet(D) /\ IsFiniteSet({id})
    <3>1. 1 \in Int /\ N \in Int
      OBVIOUS
    <3>2. IsFiniteSet(1 .. N)
      BY <3>1, FS_Interval
    <3> QED
      BY <2>2, <3>2, FS_Singleton
  <2> QED
    BY <2>1, <2>3, FS_Product
<1>2. IsFiniteSet({rowsOf[id] : id \in S})
  <2>1. PICK f : f = rowsOf
    OBVIOUS
  <2>2. IsFiniteSet({f[id] : id \in S})
    BY ImageFinite
  <2> QED
    BY <2>1, <2>2
<1>3. IsFiniteSet(all)
  <2>1. PICK F : F = {rowsOf[id] : id \in S}
    OBVIOUS
  <2>2. IsFiniteSet(F) /\ \A x \in F : IsFiniteSet(x)
    BY <1>1, <1>2, <2>1
  <2>3. IsFiniteSet(UNION F)
    BY <2>2, FS_UNION
  <2> QED
    BY <2>1, <2>3
<1>4. \A id \in S : \A d : HistoryIn(R, id, d) \subseteq rowsOf[id]
  BY DEF HistoryIn, DeviceRows
<1>5. \A id \in S : rowsOf[id] \subseteq all
  OBVIOUS
<1> HIDE DEF rowsOf, all
<1>6. \A id \in S : \A d : HistoryIn(R, id, d) \subseteq all
  BY <1>4, <1>5
<1>7. /\ HistoriesIn(R, S) \subseteq SUBSET all
      /\ UNION HistoriesIn(R, S) \subseteq all /\ WithoutDevice(R, S) \subseteq all
  <2>1. HistoriesIn(R, S) \subseteq SUBSET all
    BY <1>6 DEF HistoriesIn
  <2>2. WithoutDevice(R, S) \subseteq all
    BY <1>6 DEF WithoutDevice
  <2> QED
    BY <2>1, <2>2
<1>8. IsFiniteSet(SUBSET all)
  BY <1>3, FS_SUBSET
<1> QED
  BY <1>3, <1>7, <1>8, FS_Subset

\* Histories are of one piece, so that a piece more adds its own.
LEMMA RetestAdd ==
  ASSUME NEW R, NEW S, S \subseteq EvidenceId, IsFiniteSet(S), NEW id \in EvidenceId, id \notin S
  PROVE  RetestIn(R, S \cup {id})
           = [n \in RetestCount |-> RetestIn(R, S)[n] + RetestIn(R, {id})[n]]
<1>1. PICK A, B : A = HistoriesIn(R, S) /\ B = HistoriesIn(R, {id})
  OBVIOUS
<1>2. PICK wa, wb : wa = WithoutDevice(R, S) /\ wb = WithoutDevice(R, {id})
  OBVIOUS
<1>3. {id} \subseteq EvidenceId /\ IsFiniteSet({id})
  BY FS_Singleton
<1>4. /\ IsFiniteSet(A) /\ IsFiniteSet(B) /\ IsFiniteSet(UNION A) /\ IsFiniteSet(UNION B)
      /\ IsFiniteSet(wa) /\ IsFiniteSet(wb)
  BY <1>1, <1>2, <1>3, HistoriesFinite
<1>5. \A h \in A : h # {} /\ \A c \in h : c[1] \in S
  <2>1. \A other, d : \A c \in HistoryIn(R, other, d) : c[1] = other
    BY DEF HistoryIn
  <2> QED
    BY <1>1, <2>1 DEF HistoriesIn
<1>6. \A h \in B : h # {} /\ \A c \in h : c[1] = id
  <2>1. \A other, d : \A c \in HistoryIn(R, other, d) : c[1] = other
    BY DEF HistoryIn
  <2> QED
    BY <1>1, <2>1 DEF HistoriesIn
<1>7. A \cap B = {} /\ (UNION A) \cap (UNION B) = {}
  <2>1. A \cap B = {}
    BY <1>5, <1>6
  <2>2. (UNION A) \cap (UNION B) = {}
    BY <1>5, <1>6
  <2> QED
    BY <2>1, <2>2
<1>8. wa \cap wb = {}
  <2>1. \A other, d : \A c \in HistoryIn(R, other, d) : c[1] = other
    BY DEF HistoryIn
  <2>2. (\A c \in wa : c[1] \in S) /\ (\A c \in wb : c[1] = id)
    BY <1>2, <2>1 DEF WithoutDevice
  <2> QED
    BY <2>2
<1>9. HistoriesIn(R, S \cup {id}) = A \cup B
  BY <1>1 DEF HistoriesIn
<1>10. WithoutDevice(R, S \cup {id}) = wa \cup wb
  BY <1>2 DEF WithoutDevice
<1>11. UNION (A \cup B) = (UNION A) \cup (UNION B)
  OBVIOUS
<1>12. ASSUME NEW n \in RetestCount
       PROVE  RetestIn(R, S \cup {id})[n] = RetestIn(R, S)[n] + RetestIn(R, {id})[n]
  <2>1. CASE n = "unresolved"
    <3>1. Cardinality(wa \cup wb) = Cardinality(wa) + Cardinality(wb)
      BY <1>4, <1>8, DisjointSizes
    <3> QED
      BY <1>2, <1>10, <2>1, <3>1 DEF RetestIn
  <2>2. CASE n = "devices"
    <3>1. Cardinality(A \cup B) = Cardinality(A) + Cardinality(B)
      BY <1>4, <1>7, DisjointSizes
    <3> QED
      BY <1>1, <1>9, <2>2, <3>1 DEF RetestIn
  <2>3. CASE n = "extra"
    <3>1. PICK ua, ub : ua = UNION A /\ ub = UNION B
      OBVIOUS
    <3>2. /\ Cardinality(A \cup B) = Cardinality(A) + Cardinality(B)
          /\ Cardinality(A) \in Nat /\ Cardinality(B) \in Nat
      BY <1>4, <1>7, DisjointSizes
    <3>3. /\ Cardinality(ua \cup ub) = Cardinality(ua) + Cardinality(ub)
          /\ Cardinality(ua) \in Nat /\ Cardinality(ub) \in Nat
      BY <1>4, <1>7, <3>1, DisjointSizes
    <3>4. /\ RetestIn(R, S \cup {id})[n] = Cardinality(ua \cup ub) - Cardinality(A \cup B)
          /\ RetestIn(R, S)[n] = Cardinality(ua) - Cardinality(A)
          /\ RetestIn(R, {id})[n] = Cardinality(ub) - Cardinality(B)
      BY <1>1, <1>9, <1>11, <2>3, <3>1 DEF RetestIn
    <3> QED
      BY <3>2, <3>3, <3>4
  <2>4. CASE n \in Simple
    <3>1. PICK a, b : a = {h \in A : Qualifies(n, h)} /\ b = {h \in B : Qualifies(n, h)}
      OBVIOUS
    <3>2. /\ a \subseteq A /\ b \subseteq B /\ a \cap b = {}
          /\ {h \in A \cup B : Qualifies(n, h)} = a \cup b
      BY <1>7, <3>1
    <3>3. IsFiniteSet(a) /\ IsFiniteSet(b)
      BY <1>4, <3>2, FS_Subset
    <3>4. Cardinality(a \cup b) = Cardinality(a) + Cardinality(b)
      BY <3>2, <3>3, DisjointSizes
    <3>5. \A T : RetestIn(R, T)[n] = Cardinality({h \in HistoriesIn(R, T) : Qualifies(n, h)})
      BY <2>4 DEF RetestIn, Simple
    <3>6. RetestIn(R, S)[n] = Cardinality(a) /\ RetestIn(R, {id})[n] = Cardinality(b)
      BY <1>1, <3>1, <3>5
    <3>7. RetestIn(R, S \cup {id})[n] = Cardinality(a \cup b)
      BY <1>9, <3>2, <3>5
    <3> QED
      BY <3>4, <3>6, <3>7
  <2> QED
    BY <2>1, <2>2, <2>3, <2>4 DEF Simple
<1>13. RetestIn(R, S \cup {id}) = [n \in RetestCount |-> RetestIn(R, S \cup {id})[n]]
  BY DEF RetestIn
<1> QED
  BY <1>12, <1>13

LEMMA RetestOfNone ==
  ASSUME NEW R
  PROVE  RetestIn(R, {}) = [n \in RetestCount |-> 0]
<1>1. HistoriesIn(R, {}) = {} /\ WithoutDevice(R, {}) = {}
  BY DEF HistoriesIn, WithoutDevice
<1>2. \A n : {h \in {} : Qualifies(n, h)} = {}
  OBVIOUS
<1>3. Cardinality({}) = 0 /\ UNION {} = {}
  BY FS_EmptySet
<1> QED
  BY <1>1, <1>2, <1>3 DEF RetestIn

\* The numbers that histories have.
Summary(unresolved, history, kept) ==
  LET saw(d, verdict) == \E i \in DOMAIN history[d] : history[d][i] = verdict
  IN [n \in RetestCount |->
        CASE n = "unresolved" -> unresolved
          [] n = "devices" -> Cardinality(kept)
          [] n = "retested" -> Cardinality({d \in kept : Len(history[d]) > 1})
          [] n = "extra" -> SumFunction([d \in kept |-> Len(history[d]) - 1])
          [] n = "changed" -> Cardinality({d \in kept : saw(d, "pass") /\ saw(d, "fail")})
          [] n = "first_fail" -> Cardinality({d \in kept : Head(history[d]) = "fail"})
          [] n = "recovered" ->
               Cardinality({d \in kept : Head(history[d]) = "fail" /\ Last(history[d]) = "pass"})
          [] n = "first_pass" -> Cardinality({d \in kept : Head(history[d]) = "pass"})
          [] n = "degraded" ->
               Cardinality({d \in kept : Head(history[d]) = "pass" /\ Last(history[d]) = "fail"})
          [] n = "latest_pass" -> Cardinality({d \in kept : Last(history[d]) = "pass"})
          [] n = "latest_fail" -> Cardinality({d \in kept : Last(history[d]) = "fail"})]

\* The histories of one piece, by the devices that are kept.
LEMMA RetestOfPiece ==
  ASSUME NEW R, NEW id \in EvidenceId
  PROVE  accumulate_retest(AttemptsOf(id), id.source, R) = RetestIn(R, {id})
<1>1. PICK rows : rows = AttemptsOf(id)
  OBVIOUS
<1>2. PICK scan : scan = DeviceHistories(rows, id.source, R)
  OBVIOUS
<1>3. PICK history : history = scan.history
  OBVIOUS
<1> DEFINE upto(d) == DeviceRows(R, id, d)
<1>4. \A d : DeviceRows(R, id, d) \cap (1 .. Len(rows)) = upto(d)
  BY <1>1, EvidenceRows DEF DeviceRows
<1>5. /\ scan.unresolved = Cardinality(upto(NoDevice))
      /\ DOMAIN history = {d \in Device : upto(d) # {}}
      /\ \A d \in DOMAIN history : Tells(rows, history[d], upto(d))
      /\ scan.selected = {d \in Device : \E i \in upto(d) : rows[i].latest = "true"}
  <2>1. Gathered(R, id, scan, Len(rows))
    BY <1>1, <1>2, HistoriesGathered
  <2> HIDE DEF upto
  <2> QED
    BY <1>1, <1>3, <1>4, <2>1 DEF Gathered
<1>6. \A i : Archive!Row(<<id, i>>) = rows[i]
  BY <1>1, EvidenceRows
<1>7. PICK kept : kept = {d \in DOMAIN history :
                            R.population = "latest_device" => d \in scan.selected}
  OBVIOUS
<1>8. PICK f : f = [d \in kept |-> HistoryIn(R, id, d)]
  OBVIOUS
<1>9. ASSUME NEW d \in kept
      PROVE  /\ f[d] = {id} \X upto(d) /\ upto(d) # {} /\ Tells(rows, history[d], upto(d))
             /\ d \in Device
  BY <1>5, <1>7, <1>8 DEF HistoryIn
<1>10. \A d, e \in kept : f[d] = f[e] => d = e
  <2> SUFFICES ASSUME NEW d \in kept, NEW e \in kept, f[d] = f[e] PROVE d = e
    OBVIOUS
  <2>1. PICK i : i \in upto(d)
    BY <1>9
  <2>2. <<id, i>> \in {id} \X upto(e)
    BY <1>9, <2>1
  <2>3. i \in upto(e)
    BY <2>2
  <2> QED
    BY <2>1, <2>3 DEF DeviceRows
<1>11. HistoriesIn(R, {id}) = {f[d] : d \in kept}
  <2>1. ASSUME NEW d \in Device
        PROVE  (\E c \in HistoryIn(R, id, d) : InPopulation(Archive!Row(c), R.population))
                 <=> d \in kept
    <3>1. (\E c \in HistoryIn(R, id, d) : InPopulation(Archive!Row(c), R.population))
            <=> \E i \in upto(d) : InPopulation(rows[i], R.population)
      <4>1. PICK D : D = upto(d)
        OBVIOUS
      <4>2. HistoryIn(R, id, d) = {id} \X D
        BY <4>1 DEF HistoryIn
      <4>3. (\E c \in {id} \X D : InPopulation(Archive!Row(c), R.population))
              <=> \E i \in D : InPopulation(rows[i], R.population)
        <5>1. ASSUME NEW c \in {id} \X D, InPopulation(Archive!Row(c), R.population)
              PROVE  \E i \in D : InPopulation(rows[i], R.population)
          <6>1. PICK i \in D : c = <<id, i>>
            OBVIOUS
          <6> QED
            BY <1>6, <5>1, <6>1
        <5>2. ASSUME NEW i \in D, InPopulation(rows[i], R.population)
              PROVE  \E c \in {id} \X D : InPopulation(Archive!Row(c), R.population)
          <6>1. Archive!Row(<<id, i>>) = rows[i] /\ <<id, i>> \in {id} \X D
            BY <1>6
          <6> QED
            BY <5>2, <6>1
        <5> QED
          BY <5>1, <5>2
      <4> QED
        BY <4>1, <4>2, <4>3
    <3> HIDE DEF upto
    <3> QED
      BY <1>5, <1>7, <3>1 DEF InPopulation
  <2>2. HistoriesIn(R, {id})
          = {h \in {HistoryIn(R, id, d) : d \in Device} :
               \E c \in h : InPopulation(Archive!Row(c), R.population)}
    BY DEF HistoriesIn
  <2>3. kept \subseteq Device
    BY <1>9
  <2>4. \A d \in kept : f[d] = HistoryIn(R, id, d)
    BY <1>8
  <2> QED
    BY <2>1, <2>2, <2>3, <2>4
<1>12. IsFiniteSet(kept)
  <2>1. PICK N \in Nat : N = Len(rows) /\ DOMAIN rows = 1 .. N
    BY <1>1, EvidenceRows
  <2>2. PICK e : e = [i \in 1 .. N |-> rows[i].ecid]
    OBVIOUS
  <2>3. IsFiniteSet(1 .. N)
    <3>1. 1 \in Int /\ N \in Int
      OBVIOUS
    <3> QED
      BY <3>1, FS_Interval
  <2>4. IsFiniteSet({e[i] : i \in 1 .. N})
    BY <2>3, ImageFinite
  <2>5. ASSUME NEW d \in kept PROVE d \in {e[i] : i \in 1 .. N}
    <3>1. PICK i : i \in upto(d)
      BY <1>9
    <3> QED
      BY <1>1, <2>1, <2>2, <3>1 DEF DeviceRows
  <2>6. kept \subseteq {e[i] : i \in 1 .. N}
    BY <2>5
  <2> QED
    BY <2>4, <2>6, FS_Subset
<1>13. ASSUME NEW K \in SUBSET kept
       PROVE  Cardinality({f[d] : d \in K}) = Cardinality(K)
  <2>1. IsFiniteSet(K) /\ \A d, e \in K : f[d] = f[e] => d = e
    BY <1>10, <1>12, FS_Subset
  <2> QED
    BY <2>1, ImageSize
<1>14. ASSUME NEW d \in kept
       PROVE  /\ IsFiniteSet(f[d]) /\ Cardinality(f[d]) = Len(history[d])
              /\ Len(history[d]) \in Nat /\ Len(history[d]) >= 1
  <2>1. PICK h, X : h = history[d] /\ X = upto(d)
    OBVIOUS
  <2>2. h \in Seq(Verdict) /\ h # <<>> /\ IsFiniteSet(X) /\ Cardinality(X) = Len(h)
    BY <1>9, <2>1 DEF Tells
  <2>3. Len(h) \in Nat /\ Len(h) >= 1
    BY <2>2
  <2>4. IsFiniteSet({id}) /\ Cardinality({id}) = 1
    BY FS_Singleton
  <2>5. /\ IsFiniteSet({id} \X X)
        /\ Cardinality({id} \X X) = Cardinality({id}) * Cardinality(X)
    BY <2>2, <2>4, FS_Product
  <2>6. Cardinality({id} \X X) = Len(h)
    BY <2>2, <2>3, <2>4, <2>5
  <2>7. f[d] = {id} \X X
    BY <1>9, <2>1
  <2> QED
    BY <2>1, <2>3, <2>5, <2>6, <2>7
<1>15. ASSUME NEW d \in kept
       PROVE  /\ FirstOf(f[d]) = Head(history[d]) /\ LastOf(f[d]) = Last(history[d])
              /\ \A v \in Verdict : v \in VerdictsOf(f[d])
                                      <=> \E i \in DOMAIN history[d] : history[d][i] = v
  <2>1. PICK h, X : h = history[d] /\ X = upto(d)
    OBVIOUS
  <2>2. h \in Seq(Verdict) /\ h # <<>> /\ Tells(rows, h, X) /\ f[d] = {id} \X X
    BY <1>9, <2>1 DEF Tells
  <2>3. Head(h) = h[1] /\ Last(h) = h[Len(h)]
    BY <2>2 DEF Last
  <2>4. X \subseteq Nat
    <3>1. X \subseteq DOMAIN rows
      BY <1>1, <2>1 DEF DeviceRows
    <3> QED
      BY <1>1, <3>1, EvidenceRows
  <2>5. FirstOf(f[d]) = h[1]
    <3>1. PICK i \in X : (\A j \in X : i <= j) /\ h[1] = rows[i].verdict
      BY <2>2 DEF Tells
    <3>2. PICK c : c = <<id, i>>
      OBVIOUS
    <3>3. c \in f[d] /\ \A e \in f[d] : c[2] <= e[2]
      BY <2>2, <3>1, <3>2
    <3>4. ASSUME NEW e \in f[d], \A g \in f[d] : e[2] <= g[2] PROVE e = c
      <4>1. PICK j \in X : e = <<id, j>>
        BY <2>2
      <4>2. i <= j /\ j <= i
        BY <2>2, <3>1, <3>2, <3>3, <3>4, <4>1
      <4>3. i = j
        BY <2>4, <4>2
      <4> QED
        BY <3>2, <4>1, <4>3
    <3>5. (CHOOSE e \in f[d] : \A g \in f[d] : e[2] <= g[2]) = c
      BY <3>3, <3>4
    <3> QED
      BY <1>6, <3>1, <3>2, <3>5 DEF FirstOf
  <2>6. LastOf(f[d]) = h[Len(h)]
    <3>1. PICK i \in X : (\A j \in X : i >= j) /\ h[Len(h)] = rows[i].verdict
      BY <2>2 DEF Tells
    <3>2. PICK c : c = <<id, i>>
      OBVIOUS
    <3>3. c \in f[d] /\ \A e \in f[d] : c[2] >= e[2]
      BY <2>2, <3>1, <3>2
    <3>4. ASSUME NEW e \in f[d], \A g \in f[d] : e[2] >= g[2] PROVE e = c
      <4>1. PICK j \in X : e = <<id, j>>
        BY <2>2
      <4>2. i >= j /\ j >= i
        BY <2>2, <3>1, <3>2, <3>3, <3>4, <4>1
      <4>3. i = j
        BY <2>4, <4>2
      <4> QED
        BY <3>2, <4>1, <4>3
    <3>5. (CHOOSE e \in f[d] : \A g \in f[d] : e[2] >= g[2]) = c
      BY <3>3, <3>4
    <3> QED
      BY <1>6, <3>1, <3>2, <3>5 DEF LastOf
  <2>7. ASSUME NEW v \in Verdict
        PROVE  v \in VerdictsOf(f[d]) <=> \E j \in DOMAIN h : h[j] = v
    <3>1. v \in VerdictsOf(f[d]) <=> \E i \in X : rows[i].verdict = v
      <4>1. v \in VerdictsOf(f[d]) <=> \E c \in {id} \X X : Archive!Row(c).verdict = v
        BY <2>2 DEF VerdictsOf
      <4>2. ASSUME NEW c \in {id} \X X, Archive!Row(c).verdict = v
            PROVE  \E i \in X : rows[i].verdict = v
        <5>1. PICK i \in X : c = <<id, i>>
          OBVIOUS
        <5> QED
          BY <1>6, <4>2, <5>1
      <4>3. ASSUME NEW i \in X, rows[i].verdict = v
            PROVE  \E c \in {id} \X X : Archive!Row(c).verdict = v
        <5>1. Archive!Row(<<id, i>>) = rows[i] /\ <<id, i>> \in {id} \X X
          BY <1>6
        <5> QED
          BY <4>3, <5>1
      <4> QED
        BY <4>1, <4>2, <4>3
    <3> QED
      BY <2>2, <3>1 DEF Tells
  <2> QED
    BY <2>1, <2>3, <2>5, <2>6, <2>7
<1> DEFINE those(n) == {h \in HistoriesIn(R, {id}) : Qualifies(n, h)}
           saw(d, verdict) == \E i \in DOMAIN history[d] : history[d][i] = verdict
           fits(n) == CASE n = "retested" -> {d \in kept : Len(history[d]) > 1}
                        [] n = "changed" -> {d \in kept : saw(d, "pass") /\ saw(d, "fail")}
                        [] n = "first_fail" -> {d \in kept : Head(history[d]) = "fail"}
                        [] n = "recovered" ->
                             {d \in kept : Head(history[d]) = "fail" /\ Last(history[d]) = "pass"}
                        [] n = "first_pass" -> {d \in kept : Head(history[d]) = "pass"}
                        [] n = "degraded" ->
                             {d \in kept : Head(history[d]) = "pass" /\ Last(history[d]) = "fail"}
                        [] n = "latest_pass" -> {d \in kept : Last(history[d]) = "pass"}
                        [] n = "latest_fail" -> {d \in kept : Last(history[d]) = "fail"}
           value(n) ==
             CASE n = "unresolved" -> scan.unresolved
               [] n = "devices" -> Cardinality(kept)
               [] n = "retested" -> Cardinality({d \in kept : Len(history[d]) > 1})
               [] n = "extra" -> SumFunction([d \in kept |-> Len(history[d]) - 1])
               [] n = "changed" -> Cardinality({d \in kept : saw(d, "pass") /\ saw(d, "fail")})
               [] n = "first_fail" -> Cardinality({d \in kept : Head(history[d]) = "fail"})
               [] n = "recovered" ->
                    Cardinality({d \in kept : Head(history[d]) = "fail" /\ Last(history[d]) = "pass"})
               [] n = "first_pass" -> Cardinality({d \in kept : Head(history[d]) = "pass"})
               [] n = "degraded" ->
                    Cardinality({d \in kept : Head(history[d]) = "pass" /\ Last(history[d]) = "fail"})
               [] n = "latest_pass" -> Cardinality({d \in kept : Last(history[d]) = "pass"})
               [] n = "latest_fail" -> Cardinality({d \in kept : Last(history[d]) = "fail"})
<1>16. accumulate_retest(rows, id.source, R) = [n \in RetestCount |-> value(n)]
  <2>1. accumulate_retest(rows, id.source, R)
          = LET x == DeviceHistories(rows, id.source, R)
            IN Summary(x.unresolved, x.history,
                       {d \in DOMAIN x.history : R.population = "latest_device" => d \in x.selected})
    BY Zenon DEF accumulate_retest, Summary
  <2>2. accumulate_retest(rows, id.source, R) = Summary(scan.unresolved, history, kept)
    BY <1>2, <1>3, <1>7, <2>1
  <2> QED
    BY <2>2, Zenon DEF Summary
<1>17. ASSUME NEW n \in Simple
       PROVE  fits(n) \subseteq kept /\ \A d \in kept : d \in fits(n) <=> Qualifies(n, f[d])
  <2> HIDE DEF upto
  <2> USE DEF Qualifies
  <2>1. CASE n = "retested"
    <3>1. \A d \in kept : Len(history[d]) > 1 <=> Cardinality(f[d]) # 1
      BY <1>14
    <3> QED
      BY <2>1, <3>1
  <2>2. CASE n = "changed"
    <3>1. ASSUME NEW d \in kept
          PROVE  saw(d, "pass") /\ saw(d, "fail") <=> {"pass", "fail"} \subseteq VerdictsOf(f[d])
      BY <1>15 DEF Verdict
    <3> HIDE DEF saw
    <3> QED
      BY <2>2, <3>1
  <2>3. CASE n = "first_fail"
    BY <1>15, <2>3
  <2>4. CASE n = "recovered"
    BY <1>15, <2>4
  <2>5. CASE n = "first_pass"
    BY <1>15, <2>5
  <2>6. CASE n = "degraded"
    BY <1>15, <2>6
  <2>7. CASE n = "latest_pass"
    BY <1>15, <2>7
  <2>8. CASE n = "latest_fail"
    BY <1>15, <2>8
  <2> QED
    BY <2>1, <2>2, <2>3, <2>4, <2>5, <2>6, <2>7, <2>8 DEF Simple, RetestCount
<1>18. ASSUME NEW n \in Simple
       PROVE  Cardinality(those(n)) = Cardinality(fits(n))
  <2>1. PICK K : K = fits(n)
    OBVIOUS
  <2>2. K \subseteq kept /\ \A d \in kept : d \in K <=> Qualifies(n, f[d])
    BY <1>17, <2>1
  <2>3. those(n) = {f[d] : d \in K}
    BY <1>11, <2>2
  <2> HIDE DEF those, fits
  <2> QED
    BY <1>13, <2>1, <2>2, <2>3
<1>19. Cardinality(HistoriesIn(R, {id})) = Cardinality(kept)
  BY <1>11, <1>13
<1>20. WithoutDevice(R, {id}) = {id} \X upto(NoDevice)
  BY DEF WithoutDevice, HistoryIn
<1>21. Cardinality(WithoutDevice(R, {id})) = scan.unresolved
  <2>1. PICK X : X = upto(NoDevice)
    OBVIOUS
  <2>2. PICK N \in Nat : N = Len(rows) /\ DOMAIN rows = 1 .. N
    BY <1>1, EvidenceRows
  <2>3. X \subseteq 1 .. N
    BY <1>1, <2>1, <2>2 DEF DeviceRows
  <2>4. IsFiniteSet(1 .. N)
    <3>1. 1 \in Int /\ N \in Int
      OBVIOUS
    <3> QED
      BY <3>1, FS_Interval
  <2>5. IsFiniteSet(X) /\ Cardinality(X) \in Nat
    BY <2>3, <2>4, FS_Subset, FS_CardinalityType
  <2>6. IsFiniteSet({id}) /\ Cardinality({id}) = 1
    BY FS_Singleton
  <2>7. Cardinality({id} \X X) = Cardinality({id}) * Cardinality(X)
    BY <2>5, <2>6, FS_Product
  <2>8. Cardinality({id} \X X) = Cardinality(X)
    BY <2>5, <2>6, <2>7
  <2> HIDE DEF upto
  <2> QED
    BY <1>5, <1>20, <2>1, <2>8
<1>22. SumFunction([d \in kept |-> Len(history[d]) - 1])
         = Cardinality(UNION HistoriesIn(R, {id})) - Cardinality(HistoriesIn(R, {id}))
  <2>1. PICK less : less = [d \in kept |-> Len(history[d]) - 1]
    OBVIOUS
  <2>2. PICK w : w = [d \in kept |-> Len(history[d])]
    OBVIOUS
  <2>3. PICK union : union = UNION HistoriesIn(R, {id})
    OBVIOUS
  <2>4. \A d \in kept : less[d] \in Nat /\ w[d] \in Nat /\ w[d] = less[d] + 1
    BY <1>14, <2>1, <2>2
  <2>5. SumFunctionOnSet(less, kept) = SumFunctionOnSet(w, kept) - Cardinality(kept)
    BY <1>12, <2>4, SumLessOne
  <2>6. Disjoint(f, kept)
    <3>1. ASSUME NEW d \in kept, NEW e \in kept, d # e PROVE f[d] \cap f[e] = {}
      <4>1. upto(d) \cap upto(e) = {}
        BY <3>1 DEF DeviceRows
      <4> HIDE DEF upto
      <4> QED
        BY <1>9, <4>1
    <3> QED
      BY <3>1 DEF Disjoint
  <2>7. \A d \in kept : IsFiniteSet(f[d]) /\ w[d] = Cardinality(f[d])
    BY <1>14, <2>2
  <2>8. \A e : e \in union <=> \E d \in kept : e \in f[d]
    BY <1>11, <2>3
  <2>9. Cardinality(union) = SumFunctionOnSet(w, kept)
    BY <1>12, <2>6, <2>7, <2>8, SumOfSizes, ZenonT(40)
  <2>10. SumFunction(less) = SumFunctionOnSet(less, kept)
    <3>1. DOMAIN less = kept
      BY <2>1
    <3> QED
      BY <3>1, Zenon DEF SumFunction
  <2> QED
    BY <1>19, <2>1, <2>3, <2>5, <2>9, <2>10
<1>23. ASSUME NEW n \in RetestCount
       PROVE  value(n) = RetestIn(R, {id})[n]
  <2>1. CASE n = "unresolved"
    BY <1>21, <2>1 DEF RetestIn
  <2>2. CASE n = "devices"
    BY <1>19, <2>2 DEF RetestIn
  <2>3. CASE n = "extra"
    BY <1>22, <2>3 DEF RetestIn
  <2>4. CASE n \in Simple
    <3>1. RetestIn(R, {id})[n] = Cardinality(those(n))
      BY <2>4 DEF RetestIn, Simple
    <3>2. value(n) = Cardinality(fits(n))
      <4> HIDE DEF saw, those
      <4>1. CASE n = "retested"
        BY <4>1
      <4>2. CASE n = "changed"
        BY <4>2
      <4>3. CASE n = "first_fail"
        BY <4>3
      <4>4. CASE n = "recovered"
        BY <4>4
      <4>5. CASE n = "first_pass"
        BY <4>5
      <4>6. CASE n = "degraded"
        BY <4>6
      <4>7. CASE n = "latest_pass"
        BY <4>7
      <4>8. CASE n = "latest_fail"
        BY <4>8
      <4> QED
        BY <2>4, <4>1, <4>2, <4>3, <4>4, <4>5, <4>6, <4>7, <4>8 DEF Simple, RetestCount
    <3> HIDE DEF those, fits, value
    <3> QED
      BY <1>18, <2>4, <3>1, <3>2
  <2> QED
    BY <2>1, <2>2, <2>3, <2>4 DEF Simple
<1>24. RetestIn(R, {id}) = [n \in RetestCount |-> RetestIn(R, {id})[n]]
  BY DEF RetestIn
<1> HIDE DEF value
<1> QED
  BY <1>1, <1>16, <1>23, <1>24

\* The numbers of a set of pieces.
AttemptsIn(S) == UNION {{id} \X DOMAIN RowsById[id] : id \in S}
CitedIn(R, S) ==
  {c \in AttemptsIn(S) :
     /\ Archive!InScope(Archive!Row(c), c[1].source, R.scope)
     /\ Archive!InPopulation(Archive!Row(c), R.population)}
NumbersOf(R, S) ==
  CASE R.op = "yield" -> Archive!CountOf(R, CitedIn(R, S))
    [] R.op = "groups" -> GroupsOf(R, CitedIn(R, S))
    [] R.op = "retest" -> RetestIn(R, S)

LEMMA RequestShape ==
  ASSUME NEW R \in Request
  PROVE  /\ R.op \in {"yield", "groups", "retest"} /\ R.snapshot \in DOMAIN Catalog
         /\ R.ids \in Seq(EvidenceId) /\ R.ids # <<>>
         /\ Archive!Named(R) \subseteq EvidenceId
         /\ Archive!Named(R) = {R.ids[i] : i \in 1 .. Len(R.ids)}
<1>1. /\ R.op \in {"yield", "groups", "retest"} /\ R.snapshot \in DOMAIN Catalog
      /\ R.ids \in Seq(EvidenceId) \ {<<>>}
  BY RequestAssumption
<1>2. DOMAIN R.ids = 1 .. Len(R.ids) /\ \A i \in 1 .. Len(R.ids) : R.ids[i] \in EvidenceId
  BY <1>1
<1> QED
  BY <1>1, <1>2 DEF Archive!Named

LEMMA NumbersAre ==
  ASSUME NEW R \in Request
  PROVE  Archive!Numbers(R) = NumbersOf(R, Archive!Named(R))
<1>1. Archive!Cited(R) = CitedIn(R, Archive!Named(R))
  BY Zenon DEF Archive!Cited, Archive!Attempts, CitedIn, AttemptsIn
<1>2. PICK A : A = CitedIn(R, Archive!Named(R))
  OBVIOUS
<1>3. CASE R.op = "yield"
  <2>1. Archive!Numbers(R) = Archive!CountOf(R, Archive!Cited(R))
    BY <1>3, Zenon DEF Archive!Numbers
  <2> QED
    BY <1>1, <1>3, <2>1 DEF NumbersOf
<1>4. CASE R.op = "groups"
  <2>1. Archive!Numbers(R)
          = [k \in {Archive!Row(c).place : c \in Archive!Cited(R)} |->
               Archive!CountOf(R, {c \in Archive!Cited(R) : Archive!Row(c).place = k})]
    BY <1>4 DEF Archive!Numbers
  <2>2. Archive!Numbers(R) = GroupsOf(R, Archive!Cited(R))
    BY <2>1 DEF GroupsOf, AtPlace, PlaceOf
  <2> QED
    BY <1>1, <1>4, <2>2 DEF NumbersOf
<1>5. CASE R.op = "retest"
  <2>1. Archive!Numbers(R) = Archive!RetestOf(R)
    BY <1>5 DEF Archive!Numbers
  <2>2. Archive!RetestOf(R) = RetestIn(R, Archive!Named(R))
    BY RequestShape, RetestIs
  <2> QED
    BY <1>5, <2>1, <2>2 DEF NumbersOf
<1> QED
  BY <1>3, <1>4, <1>5, RequestShape

LEMMA NumbersOfNone ==
  ASSUME NEW R \in Request
  PROVE  NumbersOf(R, {}) = ZeroResult(R.op)
<1>1. CitedIn(R, {}) = {}
  BY DEF CitedIn, AttemptsIn
<1>2. CASE R.op = "yield"
  BY <1>1, <1>2, CountsOfNone DEF NumbersOf, ZeroResult
<1>3. CASE R.op = "groups"
  BY <1>1, <1>3, GroupsOfNone DEF NumbersOf, ZeroResult
<1>4. CASE R.op = "retest"
  BY <1>4, RetestOfNone DEF NumbersOf, ZeroResult
<1> QED
  BY <1>2, <1>3, <1>4, RequestShape

LEMMA CitedInOne ==
  ASSUME NEW R, NEW id \in EvidenceId
  PROVE  CitedIn(R, {id}) = ScopedPart(R, id) /\ IsFiniteSet(CitedIn(R, {id}))
<1>1. PICK rows : rows = AttemptsOf(id)
  OBVIOUS
<1>2. /\ RowsById[id] = rows /\ \A i : Archive!Row(<<id, i>>) = rows[i]
      /\ DOMAIN rows = 1 .. Len(rows) /\ Len(rows) \in Nat
  BY <1>1, EvidenceRows
<1>3. AttemptsIn({id}) = {id} \X DOMAIN rows
  BY <1>2 DEF AttemptsIn
<1>4. \A i : (/\ Archive!InScope(rows[i], id.source, R.scope)
              /\ Archive!InPopulation(rows[i], R.population))
             <=> InPopulation(rows[i], R.population) /\ InScope(rows[i], id.source, R.scope)
  BY DEF Archive!InScope, InScope, Archive!InPopulation, InPopulation
<1>5. PICK S : S = Scoped(rows, id.source, R)
  OBVIOUS
<1>6. \A i \in DOMAIN rows : <<id, i>> \in CitedIn(R, {id}) <=> i \in S
  <2> SUFFICES ASSUME NEW i \in DOMAIN rows
               PROVE  <<id, i>> \in CitedIn(R, {id}) <=> i \in S
    OBVIOUS
  <2>1. PICK c : c = <<id, i>>
    OBVIOUS
  <2>2. c \in AttemptsIn({id}) /\ Archive!Row(c) = rows[i] /\ c[1] = id
    BY <1>2, <1>3, <2>1
  <2>3. c \in CitedIn(R, {id}) <=> /\ Archive!InScope(rows[i], id.source, R.scope)
                                   /\ Archive!InPopulation(rows[i], R.population)
    BY <2>2 DEF CitedIn
  <2> QED
    BY <1>4, <1>5, <2>1, <2>3 DEF Scoped
<1>7. S \subseteq DOMAIN rows
  BY <1>5 DEF Scoped
<1>8. CitedIn(R, {id}) \subseteq {id} \X DOMAIN rows
  BY <1>3 DEF CitedIn
<1>9. CitedIn(R, {id}) = {id} \X S
  <2>1. ASSUME NEW c \in CitedIn(R, {id}) PROVE c \in {id} \X S
    <3>1. PICK i \in DOMAIN rows : c = <<id, i>>
      BY <1>8
    <3> QED
      BY <1>6, <3>1
  <2>2. ASSUME NEW c \in {id} \X S PROVE c \in CitedIn(R, {id})
    <3>1. PICK i \in S : c = <<id, i>>
      OBVIOUS
    <3> QED
      BY <1>6, <1>7, <3>1
  <2> QED
    BY <2>1, <2>2
<1>10. IsFiniteSet({id} \X S)
  <2>1. PICK N \in Nat : N = Len(rows)
    BY <1>2
  <2>2. S \cap (1 .. N) = S
    BY <1>2, <1>7, <2>1
  <2>3. IsFiniteSet({id} \X (S \cap (1 .. N)))
    BY BoundedFinite
  <2> QED
    BY <2>2, <2>3
<1> QED
  BY <1>1, <1>5, <1>9, <1>10 DEF ScopedPart

LEMMA CitedGrow ==
  ASSUME NEW R, NEW S, S \subseteq EvidenceId, NEW id, id \notin S
  PROVE  /\ CitedIn(R, S \cup {id}) = CitedIn(R, S) \cup CitedIn(R, {id})
         /\ CitedIn(R, S) \cap CitedIn(R, {id}) = {}
<1>1. AttemptsIn(S \cup {id}) = AttemptsIn(S) \cup AttemptsIn({id})
  BY DEF AttemptsIn
<1>2. (\A c \in AttemptsIn(S) : c[1] \in S) /\ \A c \in AttemptsIn({id}) : c[1] = id
  BY DEF AttemptsIn
<1>3. CitedIn(R, S \cup {id}) = CitedIn(R, S) \cup CitedIn(R, {id})
  BY <1>1 DEF CitedIn
<1>4. CitedIn(R, S) \subseteq AttemptsIn(S) /\ CitedIn(R, {id}) \subseteq AttemptsIn({id})
  BY DEF CitedIn
<1>5. CitedIn(R, S) \cap CitedIn(R, {id}) = {}
  BY <1>2, <1>4
<1> QED
  BY <1>3, <1>5

LEMMA CitedFinite ==
  ASSUME NEW R, NEW S, S \subseteq EvidenceId, IsFiniteSet(S)
  PROVE  IsFiniteSet(CitedIn(R, S))
<1> DEFINE F == {t \in SUBSET S : IsFiniteSet(CitedIn(R, t))}
<1>1. {} \in F
  <2>1. CitedIn(R, {}) = {}
    BY DEF CitedIn, AttemptsIn
  <2> QED
    BY <2>1, FS_EmptySet
<1>2. ASSUME NEW t \in SUBSET S, t # {}, \A x \in t : t \ {x} \in F PROVE t \in F
  <2>1. PICK x \in t : TRUE
    BY <1>2
  <2>2. PICK rest : rest = t \ {x}
    OBVIOUS
  <2>3. rest \cup {x} = t /\ rest \subseteq EvidenceId /\ x \notin rest /\ x \in EvidenceId
    BY <2>2
  <2>4. PICK a, b : a = CitedIn(R, rest) /\ b = CitedIn(R, {x})
    OBVIOUS
  <2>5. IsFiniteSet(a) /\ IsFiniteSet(b)
    BY <1>2, <2>2, <2>3, <2>4, CitedInOne
  <2>6. CitedIn(R, t) = a \cup b
    BY <2>3, <2>4, CitedGrow
  <2> QED
    BY <2>5, <2>6, FS_Union
<1> HIDE DEF F
<1>3. SUBSET S \subseteq F
  BY <1>1, <1>2, FiniteSetInduction
<1> QED
  BY <1>3 DEF F

\* Each reduction of stdf-analytics, one attempt after the other, gives for a request about one
\* piece the numbers that its attempts have as a set, whatever the attempts of the piece are.
THEOREM ReductionsCount ==
  \A R \in Request : \A id \in EvidenceId :
    Archive!Named(R) = {id} => Reduce(AttemptsOf(id), id.source, R) = Archive!Numbers(R)
<1> SUFFICES ASSUME NEW R \in Request, NEW id \in EvidenceId, Archive!Named(R) = {id}
             PROVE  Reduce(AttemptsOf(id), id.source, R) = Archive!Numbers(R)
  OBVIOUS
<1>1. Archive!Numbers(R) = NumbersOf(R, {id})
  BY NumbersAre
<1>2. CASE R.op = "yield"
  BY <1>1, <1>2, CitedInOne, YieldOfPiece DEF NumbersOf, Reduce
<1>3. CASE R.op = "groups"
  BY <1>1, <1>3, CitedInOne, GroupsOfPiece DEF NumbersOf, Reduce
<1>4. CASE R.op = "retest"
  BY <1>1, <1>4, RetestOfPiece DEF NumbersOf, Reduce
<1> QED
  BY <1>2, <1>3, <1>4, RequestShape

\* What a request makes of one piece more is added to the numbers of the others.
LEMMA NumbersAdd ==
  ASSUME NEW R \in Request, NEW S, S \subseteq EvidenceId, IsFiniteSet(S),
         NEW id \in EvidenceId, id \notin S
  PROVE  NumbersOf(R, S \cup {id})
           = AddResults(R.op, NumbersOf(R, S), Reduce(AttemptsOf(id), id.source, R))
<1>1. PICK A, B : A = CitedIn(R, S) /\ B = CitedIn(R, {id})
  OBVIOUS
<1>2. /\ IsFiniteSet(A) /\ IsFiniteSet(B) /\ A \cap B = {} /\ B = ScopedPart(R, id)
      /\ CitedIn(R, S \cup {id}) = A \cup B
  BY <1>1, CitedFinite, CitedInOne, CitedGrow
<1>3. CASE R.op = "yield"
  <2>1. PICK a, b : a = Archive!CountOf(R, A) /\ b = Archive!CountOf(R, B)
    OBVIOUS
  <2>2. Archive!CountOf(R, A \cup B) = MergeCounts(a, b)
    BY <1>2, <2>1, CountsAdd
  <2>3. DOMAIN a = Count
    BY <1>2, <2>1, CountsAreNumbers
  <2>4. MergeCounts(a, b) = AddResults("yield", a, b)
    BY <2>3 DEF MergeCounts, AddResults
  <2>5. Reduce(AttemptsOf(id), id.source, R) = b
    BY <1>2, <1>3, <2>1, YieldOfPiece DEF Reduce
  <2>6. NumbersOf(R, S) = a /\ NumbersOf(R, S \cup {id}) = Archive!CountOf(R, A \cup B)
    BY <1>1, <1>2, <1>3, <2>1 DEF NumbersOf
  <2> QED
    BY <1>3, <2>2, <2>4, <2>5, <2>6
<1>4. CASE R.op = "groups"
  <2>1. PICK a, b : a = GroupsOf(R, A) /\ b = GroupsOf(R, B)
    OBVIOUS
  <2>2. GroupsOf(R, A \cup B) = merge_group_maps(a, b)
    BY <1>2, <2>1, GroupsAdd
  <2>3. Reduce(AttemptsOf(id), id.source, R) = b
    BY <1>2, <1>4, <2>1, GroupsOfPiece DEF Reduce
  <2>4. NumbersOf(R, S) = a /\ NumbersOf(R, S \cup {id}) = GroupsOf(R, A \cup B)
    BY <1>1, <1>2, <1>4, <2>1 DEF NumbersOf
  <2> QED
    BY <1>4, <2>2, <2>3, <2>4 DEF AddResults
<1>5. CASE R.op = "retest"
  <2>1. PICK a, b : a = RetestIn(R, S) /\ b = RetestIn(R, {id})
    OBVIOUS
  <2>2. RetestIn(R, S \cup {id}) = [n \in RetestCount |-> a[n] + b[n]]
    BY <2>1, RetestAdd
  <2>3. DOMAIN a = RetestCount
    BY <2>1 DEF RetestIn
  <2>4. Reduce(AttemptsOf(id), id.source, R) = b
    BY <1>5, <2>1, RetestOfPiece DEF Reduce
  <2>5. NumbersOf(R, S) = a /\ NumbersOf(R, S \cup {id}) = RetestIn(R, S \cup {id})
    BY <1>5, <2>1 DEF NumbersOf
  <2> QED
    BY <1>5, <2>2, <2>3, <2>4, <2>5 DEF AddResults
<1> QED
  BY <1>3, <1>4, <1>5, RequestShape

-----------------------------------------------------------------------------
(***************************************************************************)
(* What an analysis has come to: it first notes every piece that it is     *)
(* asked for (Noting), and then adds what the pieces give (Scanning).      *)
(* Pieces are never removed from the published ones, P.                    *)
(***************************************************************************)
WritePcs == {"receipt", "write", "expose"}
TurnPcs == {"lock", "envelope", "regenerate", "opened"}

\* The first k pieces were taken, and the others are left.
Taken(j, k) ==
  LET ids == j.cmd.request.ids
  IN /\ k \in 0 .. Len(ids) /\ j.left \in Seq(EvidenceId) /\ Len(j.left) = Len(ids) - k
     /\ \A i \in 1 .. Len(j.left) : j.left[i] = ids[k + i]

\* The first k pieces are published and of the snapshot, each with a source of its own.
Pieces(R, k, seen, P) ==
  /\ \A i \in 1 .. k : R.ids[i] \in P /\ R.ids[i].snapshot = R.snapshot
  /\ \A i, h \in 1 .. k : R.ids[i].source = R.ids[h].source => i = h
  /\ seen = {R.ids[i].source : i \in 1 .. k}
Noted(j, k, P) == Pieces(j.cmd.request, k, j.seen, P)

Noting(j, P) ==
  /\ j.result = None
  /\ \E k \in 0 .. Len(j.cmd.request.ids) :
       /\ Taken(j, k) /\ Noted(j, k, P)
       /\ IF j.pc = "compile" THEN k = Len(j.cmd.request.ids)
                             ELSE j.pc \in TurnPcs /\ k < Len(j.cmd.request.ids)

FirstIds(R, k) == {R.ids[i] : i \in 1 .. k}

Scanning(j, P) ==
  LET R == j.cmd.request
  IN /\ Noted(j, Len(R.ids), P)
     /\ SourcesIn(R.snapshot) \ j.seen # {} => R.allow_partial
     /\ \E k \in 0 .. Len(R.ids) :
          /\ Taken(j, k) /\ j.result = NumbersOf(R, FirstIds(R, k))
          /\ IF j.pc \in WritePcs THEN k = Len(R.ids) ELSE j.pc \in TurnPcs /\ k < Len(R.ids)

Analyzing(j) == j.pc # "idle" /\ j.cmd.op = "analyze"

AnalysisSound(j, P) ==
  Analyzing(j) =>
    /\ j.cmd.request \in Request
    /\ j.pc \in OpenPcs => Head(j.left) \in P
    /\ Noting(j, P) \/ Scanning(j, P)

AnalysesSound == \A p \in Proc : AnalysisSound(job[p], DOMAIN bundles)

LEMMA MorePublished ==
  ASSUME NEW j, NEW P, NEW Q, P \subseteq Q, AnalysisSound(j, P)
  PROVE  AnalysisSound(j, Q)
<1> SUFFICES ASSUME Analyzing(j) PROVE AnalysisSound(j, Q)
  BY DEF AnalysisSound
<1>1. \A k : Noted(j, k, P) => Noted(j, k, Q)
  BY DEF Noted, Pieces
<1>2. Noting(j, P) => Noting(j, Q)
  BY <1>1 DEF Noting
<1>3. Scanning(j, P) => Scanning(j, Q)
  BY <1>1 DEF Scanning
<1> QED
  BY <1>2, <1>3 DEF AnalysisSound

\* A step from one place to another of the same phase.
LEMMA MovedOn ==
  ASSUME NEW j, NEW next, NEW P, AnalysisSound(j, P),
         next.cmd = j.cmd, next.left = j.left, next.seen = j.seen, next.result = j.result,
         Analyzing(j),
         IF j.pc \in WritePcs THEN next.pc \in WritePcs ELSE {j.pc, next.pc} \subseteq TurnPcs,
         next.pc \in OpenPcs => Head(next.left) \in P
  PROVE  AnalysisSound(next, P)
<1>1. \A k : (Taken(next, k) <=> Taken(j, k)) /\ (Noted(next, k, P) <=> Noted(j, k, P))
  BY DEF Taken, Noted
<1>2. Noting(j, P) => Noting(next, P)
  BY <1>1 DEF Noting, TurnPcs, WritePcs
<1>3. Scanning(j, P) => Scanning(next, P)
  BY <1>1 DEF Scanning, TurnPcs, WritePcs
<1> QED
  BY <1>2, <1>3 DEF AnalysisSound, Analyzing

\* The piece whose turn it is.
LEMMA NextPiece ==
  ASSUME NEW j, NEW k, j.cmd.request \in Request, Taken(j, k), k < Len(j.cmd.request.ids)
  PROVE  LET ids == j.cmd.request.ids
         IN /\ k \in Nat /\ k + 1 \in 1 .. Len(ids) /\ Len(ids) \in Nat /\ ids \in Seq(EvidenceId)
            /\ Head(j.left) = ids[k + 1] /\ ids[k + 1] \in EvidenceId
            /\ (Len(j.left) = 1 <=> k + 1 = Len(ids))
            /\ Tail(j.left) \in Seq(EvidenceId) /\ Len(Tail(j.left)) = Len(ids) - (k + 1)
            /\ \A i \in 1 .. Len(Tail(j.left)) : Tail(j.left)[i] = ids[(k + 1) + i]
<1>1. PICK ids : ids = j.cmd.request.ids
  OBVIOUS
<1>2. PICK s : s = j.left
  OBVIOUS
<1>3. /\ ids \in Seq(EvidenceId) /\ k \in 0 .. Len(ids) /\ s \in Seq(EvidenceId)
      /\ Len(s) = Len(ids) - k /\ k < Len(ids)
      /\ \A i \in 1 .. Len(s) : s[i] = ids[k + i]
  BY <1>1, <1>2, RequestShape DEF Taken
<1>4. Len(ids) \in Nat /\ k \in Nat /\ k + 1 \in 1 .. Len(ids) /\ Len(s) >= 1 /\ s # <<>>
  BY <1>3
<1>5. /\ Head(s) = s[1] /\ Tail(s) \in Seq(EvidenceId) /\ Len(Tail(s)) = Len(s) - 1
      /\ \A i \in 1 .. Len(Tail(s)) : Tail(s)[i] = s[i + 1]
  BY <1>3, <1>4
<1>6. s[1] = ids[k + 1] /\ ids[k + 1] \in EvidenceId
  BY <1>3, <1>4
<1>7. \A i \in 1 .. Len(Tail(s)) : Tail(s)[i] = ids[(k + 1) + i]
  <2> SUFFICES ASSUME NEW i \in 1 .. Len(Tail(s)) PROVE Tail(s)[i] = ids[(k + 1) + i]
    OBVIOUS
  <2>1. i \in Nat /\ i + 1 \in 1 .. Len(s) /\ k + (i + 1) = (k + 1) + i
    BY <1>3, <1>4, <1>5
  <2>2. Tail(s)[i] = s[i + 1]
    BY <1>5
  <2>3. s[i + 1] = ids[k + (i + 1)]
    BY <1>3, <2>1
  <2> QED
    BY <2>1, <2>2, <2>3
<1>8. (Len(s) = 1 <=> k + 1 = Len(ids)) /\ Len(Tail(s)) = Len(ids) - (k + 1)
  BY <1>3, <1>4, <1>5
<1> QED
  BY <1>1, <1>2, <1>3, <1>4, <1>5, <1>6, <1>7, <1>8

LEMMA NoteSound ==
  ASSUME NEW j, NEW next, NEW P, AnalysisSound(j, P), Analyzing(j),
         j.pc = "opened", Head(j.left).snapshot = j.cmd.request.snapshot,
         Head(j.left).source \notin j.seen,
         next.cmd = j.cmd, next.left = Tail(j.left), next.result = j.result,
         next.seen = j.seen \cup {Head(j.left).source},
         next.pc = IF Len(j.left) = 1 THEN "compile" ELSE "lock"
  PROVE  AnalysisSound(next, P)
<1>1. PICK R : R = j.cmd.request
  OBVIOUS
<1>2. R \in Request /\ Head(j.left) \in P
  BY <1>1 DEF AnalysisSound
<1>3. CASE Noting(j, P)
  <2>1. PICK k \in 0 .. Len(R.ids) :
          Taken(j, k) /\ Noted(j, k, P) /\ k < Len(R.ids)
    BY <1>1, <1>3 DEF Noting, TurnPcs
  <2>2. /\ k \in Nat /\ k + 1 \in 1 .. Len(R.ids) /\ Len(R.ids) \in Nat
        /\ Head(j.left) = R.ids[k + 1] /\ (Len(j.left) = 1 <=> k + 1 = Len(R.ids))
        /\ Tail(j.left) \in Seq(EvidenceId) /\ Len(Tail(j.left)) = Len(R.ids) - (k + 1)
        /\ \A i \in 1 .. Len(Tail(j.left)) : Tail(j.left)[i] = R.ids[(k + 1) + i]
    BY <1>1, <1>2, <2>1, NextPiece, ZenonT(40)
  <2>3. PICK m : m = k + 1
    OBVIOUS
  <2>4. Taken(next, m)
    <3>1. PICK s : s = Tail(j.left)
      OBVIOUS
    <3>2. /\ s \in Seq(EvidenceId) /\ Len(s) = Len(R.ids) - m /\ m \in 0 .. Len(R.ids)
          /\ \A i \in 1 .. Len(s) : s[i] = R.ids[m + i]
      BY <2>2, <2>3, <3>1
    <3> QED
      BY <1>1, <3>1, <3>2 DEF Taken
  <2>5. 1 .. m = (1 .. k) \cup {m}
    BY <2>2, <2>3
  <2>6. Noted(next, m, P)
    <3>1. /\ \A i \in 1 .. k : R.ids[i] \in P /\ R.ids[i].snapshot = R.snapshot
          /\ \A i, h \in 1 .. k : R.ids[i].source = R.ids[h].source => i = h
          /\ j.seen = {R.ids[i].source : i \in 1 .. k}
      <4>1. Pieces(R, k, j.seen, P)
        BY <1>1, <2>1 DEF Noted
      <4> QED
        BY <4>1 DEF Pieces
    <3>2. /\ R.ids[m] \in P /\ R.ids[m].snapshot = R.snapshot
          /\ \A i \in 1 .. k : R.ids[i].source # R.ids[m].source
      BY <1>1, <1>2, <2>2, <2>3, <3>1, ZenonT(40)
    <3>3. next.seen = {R.ids[i].source : i \in 1 .. m}
      BY <2>2, <2>3, <2>5, <3>1
    <3>4. \A i \in 1 .. m : R.ids[i] \in P /\ R.ids[i].snapshot = R.snapshot
      BY <2>5, <3>1, <3>2
    <3>5. \A i, h \in 1 .. m : R.ids[i].source = R.ids[h].source => i = h
      BY <2>5, <3>1, <3>2
    <3>6. Pieces(R, m, next.seen, P)
      BY <3>3, <3>4, <3>5 DEF Pieces
    <3> QED
      BY <1>1, <3>6 DEF Noted
  <2>7. m \in 0 .. Len(R.ids) /\ (m = Len(R.ids) \/ m < Len(R.ids))
    BY <2>2, <2>3
  <2>8. /\ next.result = None
        /\ IF m = Len(R.ids) THEN next.pc = "compile" ELSE next.pc = "lock" /\ m < Len(R.ids)
    BY <1>1, <1>3, <2>2, <2>3, <2>7 DEF Noting
  <2>9. Noting(next, P)
    BY <1>1, <2>4, <2>6, <2>7, <2>8 DEF Noting, TurnPcs
  <2> QED
    BY <1>1, <1>2, <2>8, <2>9 DEF AnalysisSound
<1>4. CASE Scanning(j, P)
  <2>1. PICK k \in 0 .. Len(R.ids) : Taken(j, k) /\ k < Len(R.ids)
    BY <1>1, <1>4 DEF Scanning, WritePcs
  <2>2. Head(j.left) = R.ids[k + 1] /\ k + 1 \in 1 .. Len(R.ids)
    BY <1>1, <1>2, <2>1, NextPiece
  <2>3. Noted(j, Len(R.ids), P)
    BY <1>1, <1>4 DEF Scanning
  <2>4. j.seen = {R.ids[i].source : i \in 1 .. Len(R.ids)}
    <3>1. Pieces(R, Len(R.ids), j.seen, P)
      BY <1>1, <2>3 DEF Noted
    <3> QED
      BY <3>1 DEF Pieces
  <2> QED
    BY <2>2, <2>4
<1> QED
  BY <1>3, <1>4 DEF AnalysisSound

LEMMA CompileSound ==
  ASSUME NEW j, NEW next, NEW P, AnalysisSound(j, P), Analyzing(j), j.pc = "compile",
         SourcesIn(j.cmd.request.snapshot) \ j.seen # {} => j.cmd.request.allow_partial,
         next.cmd = j.cmd, next.left = j.cmd.request.ids, next.seen = j.seen,
         next.result = ZeroResult(j.cmd.request.op), next.pc = "lock"
  PROVE  AnalysisSound(next, P)
<1>1. PICK R : R = j.cmd.request
  OBVIOUS
<1>2. R \in Request
  BY <1>1 DEF AnalysisSound
<1>3. Noting(j, P)
  BY DEF AnalysisSound, Scanning, WritePcs, TurnPcs
<1>4. R.ids \in Seq(EvidenceId) /\ R.ids # <<>>
  BY <1>2, RequestShape
<1>5. Len(R.ids) \in Nat /\ 0 < Len(R.ids) /\ \A i \in 1 .. Len(R.ids) : 0 + i = i
  BY <1>4
<1>6. Noted(j, Len(R.ids), P)
  BY <1>1, <1>3 DEF Noting, TurnPcs
<1>7. Noted(next, Len(R.ids), P)
  BY <1>1, <1>6 DEF Noted
<1>8. Taken(next, 0)
  BY <1>1, <1>4, <1>5 DEF Taken
<1>9. next.result = NumbersOf(R, FirstIds(R, 0))
  <2>1. FirstIds(R, 0) = {}
    BY DEF FirstIds
  <2> QED
    BY <1>1, <1>2, <2>1, NumbersOfNone
<1>10. SourcesIn(R.snapshot) \ next.seen # {} => R.allow_partial
  BY <1>1
<1>11. \E k \in 0 .. Len(R.ids) :
         /\ Taken(next, k) /\ next.result = NumbersOf(R, FirstIds(R, k))
         /\ IF next.pc \in WritePcs THEN k = Len(R.ids) ELSE next.pc \in TurnPcs /\ k < Len(R.ids)
  BY <1>5, <1>8, <1>9 DEF WritePcs, TurnPcs
<1>12. Scanning(next, P)
  BY <1>1, <1>7, <1>10, <1>11 DEF Scanning
<1> QED
  BY <1>1, <1>2, <1>12 DEF AnalysisSound

LEMMA ScanSound ==
  ASSUME NEW j, NEW next, NEW P, AnalysisSound(j, P), Analyzing(j), j.pc = "opened",
         j.result # None, next.cmd = j.cmd, next.left = Tail(j.left), next.seen = j.seen,
         next.result = AddResults(j.cmd.request.op, j.result, Part[j.cmd.request][Head(j.left)]),
         next.pc = IF Len(j.left) = 1 THEN "receipt" ELSE "lock"
  PROVE  AnalysisSound(next, P)
<1>1. PICK R : R = j.cmd.request
  OBVIOUS
<1>2. R \in Request /\ Scanning(j, P)
  BY <1>1 DEF AnalysisSound, Noting
<1>3. /\ Noted(j, Len(R.ids), P)
      /\ SourcesIn(R.snapshot) \ j.seen # {} => R.allow_partial
  BY <1>1, <1>2 DEF Scanning
<1>4. PICK k \in 0 .. Len(R.ids) :
        Taken(j, k) /\ j.result = NumbersOf(R, FirstIds(R, k)) /\ k < Len(R.ids)
  BY <1>1, <1>2 DEF Scanning, WritePcs
<1>5. /\ k \in Nat /\ k + 1 \in 1 .. Len(R.ids) /\ Len(R.ids) \in Nat
      /\ R.ids \in Seq(EvidenceId)
      /\ Head(j.left) = R.ids[k + 1] /\ R.ids[k + 1] \in EvidenceId
      /\ (Len(j.left) = 1 <=> k + 1 = Len(R.ids))
      /\ Tail(j.left) \in Seq(EvidenceId) /\ Len(Tail(j.left)) = Len(R.ids) - (k + 1)
      /\ \A i \in 1 .. Len(Tail(j.left)) : Tail(j.left)[i] = R.ids[(k + 1) + i]
  BY <1>1, <1>2, <1>4, NextPiece
<1>6. PICK m : m = k + 1
  OBVIOUS
<1>7. PICK id : id = R.ids[m]
  OBVIOUS
<1>8. Taken(next, m)
  <2>1. PICK s : s = Tail(j.left)
    OBVIOUS
  <2>2. /\ s \in Seq(EvidenceId) /\ Len(s) = Len(R.ids) - m /\ m \in 0 .. Len(R.ids)
        /\ \A i \in 1 .. Len(s) : s[i] = R.ids[m + i]
    BY <1>5, <1>6, <2>1
  <2> QED
    BY <1>1, <2>1, <2>2 DEF Taken
<1>9. 1 .. m = (1 .. k) \cup {m}
  BY <1>5, <1>6
<1>10. PICK S : S = FirstIds(R, k)
  OBVIOUS
<1>11. FirstIds(R, m) = S \cup {id}
  BY <1>7, <1>9, <1>10 DEF FirstIds
<1>12. S \subseteq EvidenceId /\ IsFiniteSet(S)
  <2>1. \A i \in 1 .. k : R.ids[i] \in EvidenceId
    BY <1>5
  <2>2. IsFiniteSet(1 .. k)
    <3>1. 1 \in Int /\ k \in Int
      BY <1>5
    <3> QED
      BY <3>1, FS_Interval
  <2>3. PICK ids : ids = R.ids
    OBVIOUS
  <2>4. IsFiniteSet({ids[i] : i \in 1 .. k})
    BY <2>2, ImageFinite
  <2> QED
    BY <1>10, <2>1, <2>3, <2>4 DEF FirstIds
<1>13. id \notin S /\ id \in EvidenceId
  <2>1. \A i \in 1 .. k : R.ids[i].source = R.ids[m].source => i = m
    <3>1. Pieces(R, Len(R.ids), j.seen, P)
      BY <1>1, <1>3 DEF Noted
    <3>2. m \in 1 .. Len(R.ids) /\ \A i \in 1 .. k : i \in 1 .. Len(R.ids)
      BY <1>5, <1>6
    <3> QED
      BY <3>1, <3>2 DEF Pieces
  <2>2. \A i \in 1 .. k : i # m
    BY <1>5, <1>6
  <2> QED
    BY <1>5, <1>6, <1>7, <1>10, <2>1, <2>2 DEF FirstIds
<1>14. Part[R][id] = Reduce(AttemptsOf(id), id.source, R)
  BY <1>2, <1>13 DEF Part
<1>15. next.result = NumbersOf(R, FirstIds(R, m))
  <2>1. NumbersOf(R, S \cup {id})
          = AddResults(R.op, NumbersOf(R, S), Reduce(AttemptsOf(id), id.source, R))
    BY <1>2, <1>12, <1>13, NumbersAdd
  <2>2. next.result = AddResults(R.op, NumbersOf(R, S), Part[R][id])
    BY <1>1, <1>4, <1>5, <1>6, <1>7, <1>10
  <2> QED
    BY <1>11, <1>14, <2>1, <2>2
<1>16. Noted(next, Len(R.ids), P)
  BY <1>1, <1>3 DEF Noted
<1>17. m \in 0 .. Len(R.ids) /\ (m = Len(R.ids) \/ m < Len(R.ids))
  BY <1>5, <1>6
<1>18. IF m = Len(R.ids) THEN next.pc = "receipt" ELSE next.pc = "lock" /\ m < Len(R.ids)
  BY <1>5, <1>6, <1>17
<1>19. \E i \in 0 .. Len(R.ids) :
         /\ Taken(next, i) /\ next.result = NumbersOf(R, FirstIds(R, i))
         /\ IF next.pc \in WritePcs THEN i = Len(R.ids) ELSE next.pc \in TurnPcs /\ i < Len(R.ids)
  BY <1>8, <1>15, <1>17, <1>18 DEF WritePcs, TurnPcs
<1>20. Scanning(next, P)
  BY <1>1, <1>3, <1>16, <1>19 DEF Scanning
<1> QED
  BY <1>1, <1>2, <1>18, <1>20 DEF AnalysisSound

-----------------------------------------------------------------------------
(***************************************************************************)
(* The steps that keep the analyses sound and show nothing in the archive. *)
(***************************************************************************)
Unseen(p) ==
  /\ \A q \in Proc \ {p} : job'[q] = job[q]
  /\ DOMAIN bundles' = DOMAIN bundles /\ DOMAIN receipts' = DOMAIN receipts
  /\ AnalysisSound(job'[p], DOMAIN bundles)

\* Where only other commands are than analyses.
OtherPcs == ViewPcs \cup StagePcs \cup {"bind", "room"}

LEMMA Quits ==
  ASSUME EvidenceInv, NEW p \in Proc, Leave(p)
  PROVE  /\ \A q \in Proc \ {p} : job'[q] = job[q]
         /\ \A P : AnalysisSound(job'[p], P)
<1>1. job'[p] = NoJob /\ \A q \in Proc \ {p} : job'[q] = job[q]
  BY DEF Leave, EvidenceInv, Processes
<1>2. NoJob.pc = "idle"
  BY DEF NoJob
<1> QED
  BY <1>1, <1>2 DEF AnalysisSound, Analyzing

LEMMA QuitsUnseen ==
  ASSUME EvidenceInv, NEW p \in Proc, Leave(p), UNCHANGED <<bundles, receipts>>
  PROVE  Unseen(p)
  BY Quits DEF Unseen

LEMMA OtherCommand ==
  ASSUME EvidenceInv, NEW p \in Proc, job[p].pc \in OtherPcs, job'[p].cmd = job[p].cmd,
         \A q \in Proc \ {p} : job'[q] = job[q], UNCHANGED <<bundles, receipts>>
  PROVE  Unseen(p)
<1>1. Sound(p, job[p])
  BY DEF EvidenceInv, Processes
<1>2. job[p].cmd.op # "analyze"
  BY <1>1 DEF Sound, Commands, NoJob, OtherPcs
<1> QED
  BY <1>2 DEF Unseen, AnalysisSound, Analyzing

LEMMA PrepareUnseen ==
  ASSUME EvidenceInv, NEW p \in Proc, PrepareStep(p), UNCHANGED <<spillVars, evidenceVars, receipts>>
  PROVE  Unseen(p)
<1>1. DOMAIN job = Proc /\ DOMAIN job[p] = Fields /\ UNCHANGED <<bundles, receipts>>
  BY DEF EvidenceInv, Processes, Sound, evidenceVars
<1>2. CASE RefuseCache(p) \/ SourceChanged(p) \/ CacheTaken(p)
  BY <1>1, <1>2, QuitsUnseen DEF RefuseCache, SourceChanged, CacheTaken
<1>3. CASE HashSource(p) \/ ReuseCache(p) \/ MakeStage(p)
  <2>1. /\ job'[p].cmd = job[p].cmd /\ \A q \in Proc \ {p} : job'[q] = job[q]
        /\ job[p].pc \in OtherPcs
    BY <1>1, <1>3 DEF Fields, HashSource, ReuseCache, MakeStage, At, Go, OtherPcs
  <2> QED
    BY <1>1, <2>1, OtherCommand
<1>4. CASE Spool(p) \/ RehashSource(p) \/ PublishCache(p)
  <2>1. /\ job'[p].cmd = job[p].cmd /\ \A q \in Proc \ {p} : job'[q] = job[q]
        /\ job[p].pc \in OtherPcs
    BY <1>1, <1>4 DEF Fields, Spool, RehashSource, PublishCache, At, Go, OtherPcs
  <2> QED
    BY <1>1, <2>1, OtherCommand
<1> QED
  BY <1>2, <1>3, <1>4 DEF PrepareStep

\* Retention, but for the lock, which analyses take as well, and the last step.
RetainsOn(p) ==
  \/ BindSource(p) \/ StageRetention(p) \/ BindIndex(p)
  \/ OpenDigest(p) \/ PushRow(p) \/ FinishRows(p) \/ MergeRows(p) \/ FirstDigest(p)
  \/ CompareDigests(p) \/ SealBundle(p) \/ RecheckSource(p)

LEMMA RetainUnseen ==
  ASSUME EvidenceInv, NEW p \in Proc, RetainsOn(p), UNCHANGED receipts
  PROVE  Unseen(p)
<1>1. DOMAIN job = Proc /\ DOMAIN job[p] = Fields
  BY DEF EvidenceInv, Processes, Sound
<1>2. UNCHANGED <<bundles, receipts>> /\ job[p].pc \in OtherPcs
  BY DEF RetainsOn, BindSource, StageRetention, BindIndex, OpenDigest, PushRow, FinishRows,
         MergeRows, FirstDigest, CompareDigests, SealBundle, RecheckSource, evidenceVars, At, OtherPcs
<1>3. job'[p].cmd = job[p].cmd /\ \A q \in Proc \ {p} : job'[q] = job[q]
  <2>1. CASE BindSource(p) \/ StageRetention(p) \/ BindIndex(p) \/ OpenDigest(p)
    BY <1>1, <2>1 DEF Fields, BindSource, StageRetention, BindIndex, OpenDigest, Go
  <2>2. CASE PushRow(p) \/ FinishRows(p) \/ MergeRows(p) \/ FirstDigest(p)
    BY <1>1, <2>2 DEF Fields, PushRow, FinishRows, MergeRows, FirstDigest, Go
  <2>3. CASE CompareDigests(p) \/ SealBundle(p) \/ RecheckSource(p)
    BY <1>1, <2>3 DEF Fields, CompareDigests, SealBundle, RecheckSource, Go
  <2> QED
    BY <2>1, <2>2, <2>3 DEF RetainsOn
<1> QED
  BY <1>2, <1>3, OtherCommand

\* The steps of opening evidence, for an analysis and for others.
LEMMA OpenUnseen ==
  ASSUME EvidenceInv, AnalysesSound, NEW p \in Proc, UNCHANGED receipts,
         Acquire(p) \/ CheckEnvelope(p) \/ Regenerate(p)
  PROVE  Unseen(p)
<1>1. /\ DOMAIN job = Proc /\ DOMAIN job[p] = Fields /\ Sound(p, job[p])
      /\ AnalysisSound(job[p], DOMAIN bundles)
  BY DEF EvidenceInv, Processes, Sound, AnalysesSound
<1>2. UNCHANGED <<bundles, receipts>>
  BY DEF Acquire, CheckEnvelope, Regenerate, evidenceVars
<1>3. /\ \A q \in Proc \ {p} : job'[q] = job[q]
      /\ job'[p].cmd = job[p].cmd /\ job'[p].left = job[p].left /\ job'[p].seen = job[p].seen
      /\ job'[p].result = job[p].result
      /\ job[p].pc \in {"lock", "envelope", "regenerate"}
      /\ ~Retains(p) => job'[p].pc \in TurnPcs
  BY <1>1 DEF Fields, Acquire, CheckEnvelope, Regenerate, At, Go, TurnPcs
<1>4. CASE job[p].cmd.op # "analyze"
  BY <1>2, <1>3, <1>4 DEF Unseen, AnalysisSound, Analyzing
<1>5. CASE job[p].cmd.op = "analyze"
  <2>1. Analyzing(job[p]) /\ ~Retains(p) /\ Opening(p) = Head(job[p].left)
    BY <1>3, <1>5 DEF Analyzing, Retains, Opening
  <2>2. Head(job[p].left) \in DOMAIN bundles
    <3>1. CASE Acquire(p)
      BY <2>1, <3>1 DEF Acquire, Locks
    <3>2. CASE CheckEnvelope(p) \/ Regenerate(p)
      BY <1>1, <2>1, <3>2 DEF CheckEnvelope, Regenerate, At, AnalysisSound
    <3> QED
      BY <3>1, <3>2
  <2>3. job[p].pc \notin WritePcs /\ {job[p].pc, job'[p].pc} \subseteq TurnPcs
    BY <1>3, <2>1 DEF WritePcs, TurnPcs
  <2>4. AnalysisSound(job'[p], DOMAIN bundles)
    BY <1>1, <1>3, <2>1, <2>2, <2>3, MovedOn
  <2> QED
    BY <1>2, <1>3, <2>4 DEF Unseen
<1> QED
  BY <1>4, <1>5

-----------------------------------------------------------------------------
(***************************************************************************)
(* The steps of an analysis, and the step that publishes it.               *)
(***************************************************************************)
LEMMA AnalyzeUnseen ==
  ASSUME EvidenceInv, AnalysesSound, NEW p \in Proc,
         NoteEvidence(p) \/ Compile(p) \/ ScanAttempts(p) \/ WriteResult(p) \/ WriteReceipt(p)
  PROVE  Unseen(p)
<1>1. /\ DOMAIN job = Proc /\ DOMAIN job[p] = Fields /\ Sound(p, job[p])
      /\ AnalysisSound(job[p], DOMAIN bundles)
  BY DEF EvidenceInv, Processes, Sound, AnalysesSound
<1>2. UNCHANGED <<bundles, receipts>>
  BY DEF NoteEvidence, Compile, ScanAttempts, WriteResult, WriteReceipt, evidenceVars
<1>3. /\ \A q \in Proc \ {p} : job'[q] = job[q]
      /\ job'[p].cmd = job[p].cmd
  BY <1>1 DEF Fields, NoteEvidence, Compile, ScanAttempts, WriteResult, WriteReceipt
<1>4. Analyzing(job[p])
  BY <1>1 DEF Analyzing, NoteEvidence, Compile, ScanAttempts, WriteResult, WriteReceipt, At,
              Analyzes, Running, Sound, Commands, NoJob
<1>5. CASE NoteEvidence(p)
  <2>1. Opening(p) = Head(job[p].left) /\ job[p].pc = "opened"
    BY <1>5 DEF NoteEvidence, Analyzes, Opening, At
  <2>2. /\ job'[p].seen = job[p].seen \cup {Head(job[p].left).source}
        /\ job'[p].left = Tail(job[p].left) /\ job'[p].result = job[p].result
        /\ job'[p].pc = IF Len(job[p].left) = 1 THEN "compile" ELSE "lock"
    BY <1>1, <1>5, <2>1 DEF NoteEvidence, Proceed, Fields
  <2>3. /\ Head(job[p].left).snapshot = job[p].cmd.request.snapshot
        /\ Head(job[p].left).source \notin job[p].seen
    BY <1>5, <2>1 DEF NoteEvidence, Wanted
  <2>4. AnalysisSound(job'[p], DOMAIN bundles)
    BY <1>1, <1>3, <1>4, <2>1, <2>2, <2>3, NoteSound
  <2> QED
    BY <1>2, <1>3, <2>4 DEF Unseen
<1>6. CASE Compile(p)
  <2>1. /\ job[p].pc = "compile"
        /\ SourcesIn(job[p].cmd.request.snapshot) \ job[p].seen # {} => job[p].cmd.request.allow_partial
    BY <1>6 DEF Compile, At, SourcesLeftOut, Wanted
  <2>2. /\ job'[p].left = job[p].cmd.request.ids /\ job'[p].seen = job[p].seen
        /\ job'[p].result = ZeroResult(job[p].cmd.request.op) /\ job'[p].pc = "lock"
    BY <1>1, <1>6 DEF Compile, Wanted, Fields
  <2>3. AnalysisSound(job'[p], DOMAIN bundles)
    BY <1>1, <1>3, <1>4, <2>1, <2>2, CompileSound
  <2> QED
    BY <1>2, <1>3, <2>3 DEF Unseen
<1>7. CASE ScanAttempts(p)
  <2>1. Opening(p) = Head(job[p].left) /\ job[p].pc = "opened" /\ job[p].result # None
    BY <1>7 DEF ScanAttempts, Analyzes, Opening, At
  <2>2. /\ job'[p].seen = job[p].seen /\ job'[p].left = Tail(job[p].left)
        /\ job'[p].result = AddResults(job[p].cmd.request.op, job[p].result,
                                       Part[job[p].cmd.request][Head(job[p].left)])
        /\ job'[p].pc = IF Len(job[p].left) = 1 THEN "receipt" ELSE "lock"
    BY <1>1, <1>7, <2>1 DEF ScanAttempts, Proceed, Wanted, Fields
  <2>3. AnalysisSound(job'[p], DOMAIN bundles)
    BY <1>1, <1>3, <1>4, <2>1, <2>2, ScanSound
  <2> QED
    BY <1>2, <1>3, <2>3 DEF Unseen
<1>8. CASE WriteResult(p) \/ WriteReceipt(p)
  <2>1. /\ job'[p].left = job[p].left /\ job'[p].seen = job[p].seen
        /\ job'[p].result = job[p].result /\ {job[p].pc, job'[p].pc} \subseteq WritePcs
    BY <1>1, <1>8 DEF WriteResult, WriteReceipt, At, Fields, WritePcs
  <2>2. job'[p].pc \notin OpenPcs /\ job[p].pc \in WritePcs /\ job'[p].pc \in WritePcs
    BY <2>1 DEF WritePcs
  <2>3. AnalysisSound(job'[p], DOMAIN bundles)
    BY <1>1, <1>3, <1>4, <2>1, <2>2, MovedOn
  <2> QED
    BY <1>2, <1>3, <2>3 DEF Unseen
<1> QED
  BY <1>5, <1>6, <1>7, <1>8

\* What is about to be shown is the answer of the archive.
LEMMA ExposesAnswer ==
  ASSUME NEW p, NEW P, AnalysisSound(job[p], P), Analyzing(job[p]), job[p].pc = "expose"
  PROVE  LET R == Wanted(p)
         IN /\ R \in Request /\ Archive!Named(R) \subseteq P /\ Archive!Answerable(R)
            /\ Execution(p) = [request |-> R, result |-> Archive!Answer(R)]
<1>1. PICK R : R = job[p].cmd.request
  OBVIOUS
<1>2. R \in Request /\ Wanted(p) = R
  BY <1>1 DEF AnalysisSound, Wanted
<1>3. Scanning(job[p], P)
  BY DEF AnalysisSound, Noting, TurnPcs
<1>4. /\ Noted(job[p], Len(R.ids), P) /\ job[p].result = NumbersOf(R, FirstIds(R, Len(R.ids)))
      /\ SourcesIn(R.snapshot) \ job[p].seen # {} => R.allow_partial
  BY <1>1, <1>3 DEF Scanning, WritePcs
<1>5. /\ \A i \in 1 .. Len(R.ids) : R.ids[i] \in P /\ R.ids[i].snapshot = R.snapshot
      /\ \A i, h \in 1 .. Len(R.ids) : R.ids[i].source = R.ids[h].source => i = h
      /\ job[p].seen = {R.ids[i].source : i \in 1 .. Len(R.ids)}
  <2>1. Pieces(R, Len(R.ids), job[p].seen, P)
    BY <1>1, <1>4 DEF Noted
  <2> QED
    BY <2>1 DEF Pieces
<1>6. DOMAIN R.ids = 1 .. Len(R.ids) /\ R.snapshot \in DOMAIN Catalog
  BY <1>2, RequestShape, RequestAssumption
<1>7. Archive!Named(R) = FirstIds(R, Len(R.ids))
  BY <1>6 DEF Archive!Named, FirstIds
<1>8. job[p].seen = {id.source : id \in Archive!Named(R)}
  BY <1>5, <1>7 DEF FirstIds
<1>9. Archive!MissingFrom(R) = SourcesIn(R.snapshot) \ job[p].seen
  BY <1>6, <1>8 DEF Archive!MissingFrom, CatalogSources
<1>10. Archive!Named(R) \subseteq P /\ \A id \in Archive!Named(R) : id.snapshot = R.snapshot
  BY <1>5, <1>7 DEF FirstIds
<1>11. \A x, y \in Archive!Named(R) : x.source = y.source => x = y
  BY <1>5, <1>7 DEF FirstIds
<1>12. Archive!Answerable(R)
  BY <1>4, <1>9, <1>10, <1>11 DEF Archive!Answerable
<1>13. Archive!Numbers(R) = job[p].result
  BY <1>2, <1>4, <1>7, NumbersAre
<1>14. Execution(p) = [request |-> R, result |-> Archive!Answer(R)]
  BY <1>2, <1>9, <1>13 DEF Execution, SourcesLeftOut, Archive!Answer
<1> QED
  BY <1>2, <1>10, <1>12, <1>14

LEMMA StartUnseen ==
  ASSUME EvidenceInv, NEW p \in Proc, Start(p)
  PROVE  Unseen(p)
<1>1. DOMAIN job = Proc
  BY DEF EvidenceInv, Processes
<1>2. UNCHANGED <<bundles, receipts>>
  BY DEF Start, StartView, StartRetain, StartVerify, StartAnalyze, evidenceVars
<1>3. CASE \E request \in Request : StartAnalyze(p, request)
  <2>1. PICK request \in Request : StartAnalyze(p, request)
    BY <1>3
  <2>2. PICK j : j = job'[p]
    OBVIOUS
  <2>3. /\ \A q \in Proc \ {p} : job'[q] = job[q]
        /\ j.cmd = [op |-> "analyze", request |-> request] /\ j.left = request.ids
        /\ j.pc = "lock" /\ j.seen = {} /\ j.result = None
    BY <1>1, <2>1, <2>2 DEF StartAnalyze, NoJob
  <2>4. request.ids \in Seq(EvidenceId) /\ request.ids # <<>> /\ j.cmd.request = request
    BY <2>3, RequestShape
  <2>5. Len(request.ids) \in Nat /\ 0 < Len(request.ids)
        /\ \A i \in 1 .. Len(request.ids) : 0 + i = i
    BY <2>4
  <2>6. Taken(j, 0) /\ Noted(j, 0, DOMAIN bundles)
    BY <2>3, <2>4, <2>5 DEF Taken, Noted, Pieces
  <2>7. Noting(j, DOMAIN bundles)
    BY <2>3, <2>4, <2>5, <2>6 DEF Noting, TurnPcs
  <2>8. AnalysisSound(j, DOMAIN bundles)
    BY <2>3, <2>4, <2>7 DEF AnalysisSound
  <2> QED
    BY <1>2, <2>2, <2>3, <2>8 DEF Unseen
<1>4. CASE ~ \E request \in Request : StartAnalyze(p, request)
  <2>1. /\ \A q \in Proc \ {p} : job'[q] = job[q]
        /\ job'[p].cmd.op \in {"view", "retain", "verify"}
    <3>1. CASE StartView(p)
      BY <1>1, <3>1 DEF StartView, NoJob
    <3>2. CASE \E r \in Retentions : StartRetain(p, r[1], r[2])
      BY <1>1, <3>2 DEF StartRetain, NoJob
    <3>3. CASE \E id \in DOMAIN bundles : StartVerify(p, id)
      BY <1>1, <3>3 DEF StartVerify, NoJob
    <3> QED
      BY <1>4, <3>1, <3>2, <3>3 DEF Start
  <2> QED
    BY <1>2, <2>1 DEF Unseen, AnalysisSound, Analyzing
<1> QED
  BY <1>3, <1>4

-----------------------------------------------------------------------------
(***************************************************************************)
(* Every step is one of the archive, or shows nothing.                     *)
(***************************************************************************)
ArchiveStep == [Archive!ArchiveNext]_<<DOMAIN bundles, DOMAIN receipts>>

LEMMA UnseenSound ==
  ASSUME AnalysesSound, NEW p \in Proc, Unseen(p)
  PROVE  AnalysesSound' /\ ArchiveStep
<1>1. ASSUME NEW q \in Proc PROVE AnalysisSound(job'[q], DOMAIN bundles')
  BY DEF AnalysesSound, Unseen
<1>2. AnalysesSound'
  BY <1>1 DEF AnalysesSound
<1> QED
  BY <1>2 DEF ArchiveStep, Unseen

LEMMA PublishSound ==
  ASSUME EvidenceInv, AnalysesSound, NEW p \in Proc, PublishBundle(p), UNCHANGED receipts
  PROVE  AnalysesSound' /\ ArchiveStep
<1>1. /\ job[p].pc = "rename" /\ Leave(p) /\ NewId(p) \notin DOMAIN bundles
      /\ DOMAIN bundles' = DOMAIN bundles \cup {NewId(p)}
  BY DEF PublishBundle, At
<1>2. Sound(p, job[p])
  BY DEF EvidenceInv, Processes
<1>3. job[p].cmd.op = "retain" /\ job[p].cmd.snapshot \in DOMAIN Catalog
      /\ job[p].cmd.source \in SourcesIn(job[p].cmd.snapshot)
  BY <1>1, <1>2 DEF Sound, Commands, NoJob
<1>4. /\ job[p].hash \in File /\ job[p].body \in Body
      /\ job[p].hash = CatalogSource(job[p].cmd).file
  BY <1>1, <1>2 DEF Sound, SourceRead, RowsFed
<1>5. job[p].cmd.source \in UNION {SourcesIn(s) : s \in DOMAIN Catalog}
  BY <1>3
<1>6. NewId(p) \in EvidenceId /\ NewId(p) \in BoundIds
  BY <1>3, <1>4, <1>5 DEF NewId, EvidenceId, BoundIds, CatalogSource
<1>7. ASSUME NEW q \in Proc PROVE AnalysisSound(job'[q], DOMAIN bundles')
  <2>1. CASE q = p
    BY <1>1, <2>1, Quits
  <2>2. CASE q # p
    <3>1. job'[q] = job[q] /\ AnalysisSound(job[q], DOMAIN bundles)
      BY <1>1, <2>2, Quits DEF AnalysesSound
    <3> QED
      BY <1>1, <3>1, MorePublished
  <2> QED
    BY <2>1, <2>2
<1>8. AnalysesSound'
  BY <1>7 DEF AnalysesSound
<1>9. Archive!Retain(NewId(p)) /\ DOMAIN bundles' # DOMAIN bundles
  BY <1>1, <1>6 DEF Archive!Retain
<1>10. Archive!ArchiveNext
  BY <1>6, <1>9 DEF Archive!ArchiveNext
<1> QED
  BY <1>8, <1>10 DEF ArchiveStep

LEMMA RenameSound ==
  ASSUME EvidenceInv, AnalysesSound, NEW p \in Proc, RenameReceipt(p)
  PROVE  AnalysesSound' /\ ArchiveStep
<1>1. /\ job[p].pc = "expose" /\ Leave(p) /\ Execution(p) \notin DOMAIN receipts
      /\ UNCHANGED bundles /\ DOMAIN receipts' = DOMAIN receipts \cup {Execution(p)}
  BY DEF RenameReceipt, At, evidenceVars
<1>2. Sound(p, job[p]) /\ AnalysisSound(job[p], DOMAIN bundles)
  BY DEF EvidenceInv, Processes, AnalysesSound
<1>3. Analyzing(job[p])
  BY <1>1, <1>2 DEF Sound, Commands, NoJob, Analyzing
<1>4. PICK R : R = Wanted(p)
  OBVIOUS
<1>5. /\ R \in Request /\ Archive!Named(R) \subseteq DOMAIN bundles /\ Archive!Answerable(R)
      /\ Execution(p) = [request |-> R, result |-> Archive!Answer(R)]
  BY <1>1, <1>2, <1>3, <1>4, ExposesAnswer
<1>6. ASSUME NEW q \in Proc PROVE AnalysisSound(job'[q], DOMAIN bundles')
  BY <1>1, Quits DEF AnalysesSound
<1>7. AnalysesSound'
  BY <1>6 DEF AnalysesSound
<1>8. Archive!Report(R) /\ DOMAIN receipts' # DOMAIN receipts
  BY <1>1, <1>5 DEF Archive!Report
<1>9. Archive!ArchiveNext
  BY <1>5, <1>8 DEF Archive!ArchiveNext
<1> QED
  BY <1>7, <1>9 DEF ArchiveStep

LEMMA StepSound ==
  ASSUME EvidenceInv, AnalysesSound, [Next]_vars
  PROVE  AnalysesSound' /\ ArchiveStep
<1>1. ASSUME NEW p \in Proc, Start(p) PROVE Unseen(p)
  BY <1>1, StartUnseen
<1>2. ASSUME NEW p \in Proc, Return(p) \/ Kill(p) \/ EndSession(p), UNCHANGED receipts
      PROVE  Unseen(p)
  <2>1. Leave(p) /\ UNCHANGED <<bundles, receipts>>
    BY <1>2 DEF Return, Kill, EndSession, EndView, evidenceVars
  <2> QED
    BY <2>1, QuitsUnseen
<1>3. ASSUME NEW p \in Proc, CommandStep(p) PROVE AnalysesSound' /\ ArchiveStep
  <2>1. CASE PublishBundle(p) /\ UNCHANGED receipts
    BY <2>1, PublishSound
  <2>2. CASE RenameReceipt(p)
    BY <2>2, RenameSound
  <2>3. CASE PrepareStep(p) /\ UNCHANGED <<spillVars, evidenceVars, receipts>>
    BY <2>3, PrepareUnseen, UnseenSound
  <2>4. CASE RetainsOn(p) /\ UNCHANGED receipts
    BY <2>4, RetainUnseen, UnseenSound
  <2>5. CASE (Acquire(p) \/ CheckEnvelope(p) \/ Regenerate(p)) /\ UNCHANGED receipts
    BY <2>5, OpenUnseen, UnseenSound
  <2>6. CASE Return(p) /\ UNCHANGED receipts
    BY <1>2, <2>6, UnseenSound
  <2>7. CASE NoteEvidence(p) \/ Compile(p) \/ ScanAttempts(p) \/ WriteResult(p) \/ WriteReceipt(p)
    BY <2>7, AnalyzeUnseen, UnseenSound
  <2> QED
    BY <1>3, <2>1, <2>2, <2>3, <2>4, <2>5, <2>6, <2>7
    DEF CommandStep, RetainStep, RetainsOn, OpenStep, EndVerify, AnalyzeStep, Refuse
<1>4. ASSUME NEW p \in Proc, EndSession(p) \/ Fail(p) \/ Kill(p) PROVE Unseen(p)
  <2>1. UNCHANGED receipts /\ (Return(p) \/ Kill(p) \/ EndSession(p))
    BY <1>4 DEF EndSession, Fail, Kill
  <2> QED
    BY <1>2, <2>1
<1>5. CASE Disturb \/ UNCHANGED vars
  <2>1. UNCHANGED job /\ DOMAIN bundles' = DOMAIN bundles /\ UNCHANGED receipts
    BY <1>5 DEF Disturb, Rewrite, DamageCache, DamageBundle, vars, evidenceVars
  <2> QED
    BY <2>1 DEF AnalysesSound, ArchiveStep
<1> QED
  BY <1>1, <1>3, <1>4, <1>5, UnseenSound DEF Next

\* Retained evidence is added and never changed or removed, each piece bound to the file
\* that its snapshot names; and an analysis that can be seen is the answer to its request,
\* counted over all attempts of evidence that is retained (viewer/evidence.rs, viewer/analysis.rs).
THEOREM AnalysesImplementArchive == Spec => ImplementsArchive
<1>1. Init => AnalysesSound /\ Archive!ArchiveInit
  <2> SUFFICES ASSUME Init PROVE AnalysesSound /\ Archive!ArchiveInit
    OBVIOUS
  <2>1. job = [p \in Proc |-> NoJob] /\ DOMAIN receipts = {} /\ NoJob.pc = "idle"
    BY DEF Init, NoJob
  <2>2. DOMAIN bundles \subseteq EvidenceId
    BY BundlesAssumption DEF Init
  <2> QED
    BY <2>1, <2>2 DEF AnalysesSound, AnalysisSound, Analyzing, Archive!ArchiveInit
<1>2. EvidenceInv /\ AnalysesSound /\ [Next]_vars
        => AnalysesSound' /\ [Archive!ArchiveNext]_<<DOMAIN bundles, DOMAIN receipts>>
  BY StepSound DEF ArchiveStep
<1> QED
  BY <1>1, <1>2, EvidenceStaysSound, PTL DEF Spec, ImplementsArchive, Archive!ArchiveSpec
=============================================================================
