------------------------- MODULE FileChecks_proofs --------------------------
(***************************************************************************)
(* What FileChecks says of a file, for every value of its constants.       *)
(*                                                                         *)
(* Where rows are stored, for every list of batches and digests and every  *)
(* limit of a conversion.  In the order of the module:                     *)
(*                                                                         *)
(* FragmentsHold.  What every operation of the writer cache keeps (Kept):  *)
(* a writer and a fragment know how many rows they hold, and a fragment    *)
(* of a partition has a lower part than those finished after it, so that   *)
(* the order of parts is the order in which the rows came.  Evictions      *)
(* (Reached) take the least recently used writer until there is room and   *)
(* store what it holds; a chunk then adds its rows to those of its         *)
(* partition and to no other's (Written, ChunkWritten).  A batch is the    *)
(* sum of its chunks (Chunked, Batched), and the batches up to the n-th    *)
(* are what is stored after n (AfterBatches).  Sorting the fragments by    *)
(* path keeps those of a partition in the order of their parts, hence the  *)
(* rows of a partition are its rows, in order.                             *)
(*                                                                         *)
(* ReusedRowsAre.  Two lists of digests hold the same ones as often as     *)
(* each other exactly if, both sorted, they are the same list: a digest    *)
(* stands in a sorted list behind as many as are lower than it (Lower).    *)
(* What the fragments are copied to is bounded by the rows that fit, and   *)
(* an address is the place of a row in its fragment, so no two are equal.  *)
(*                                                                         *)
(* How a file is framed, for every head, every list of records of every    *)
(* size, every cut and every way in which the bytes arrive.                *)
(*                                                                         *)
(* RawItems, Filled and Events are recursions along a way that ends        *)
(* (WalkExists): positions that grow, bytes got, readers that have less    *)
(* left.  A read that is repeated gets what is wanted or what is there     *)
(* (FilledIs), so an event is a function of what is left of the data       *)
(* (NextEventIs), and from a record on the stream yields what the buffer   *)
(* walk does from there (StreamFollowsBuffer, EventsAreItems).             *)
(*                                                                         *)
(* The bytes of a recording: a header written by HeaderBytes is read back  *)
(* by from_bytes in either byte order (PieceIs), and the header of a       *)
(* record lies where the sizes of those before it end (EncodeIs, FullIs);  *)
(* a cut keeps the headers it reaches (CutIs).  Whole(records, n, w): the  *)
(* first w records, and no more, end within n bytes.  The items are their  *)
(* frames and one error if bytes are left (RawItemsAre), and the summary   *)
(* counts them by type (SummaryIs, CountsAddUp), hence CutsAreRead.        *)
(*                                                                         *)
(* HeadsAreJudged and OpenersAreAgreed, of heads that are no FAR and of    *)
(* files of two members, are case distinctions.                            *)
(***************************************************************************)
EXTENDS FileChecks, DataFacts

-----------------------------------------------------------------------------
(* The writer cache: what its operations keep.                             *)

LEMMA WriterSums ==
  ASSUME NEW f
  PROVE  SumFunction(f) = SumFunctionOnSet(f, DOMAIN f)
  BY Zenon DEF SumFunction

LEMMA WriterBounds ==
  /\ \A a, b \in Nat : Min({a, b}) = IF a <= b THEN a ELSE b
  /\ \A a, b \in Nat : Max({a, b}) = IF a <= b THEN b ELSE a
  /\ \A a, b, c \in Nat : Min({a, b, c}) = IF a <= b /\ a <= c THEN a ELSE IF b <= c THEN b ELSE c
<1>1. ASSUME NEW a \in Nat, NEW b \in Nat PROVE Min({a, b}) = IF a <= b THEN a ELSE b
  BY DEF Min
<1>2. ASSUME NEW a \in Nat, NEW b \in Nat PROVE Max({a, b}) = IF a <= b THEN b ELSE a
  BY DEF Max
<1>3. ASSUME NEW a \in Nat, NEW b \in Nat, NEW c \in Nat
      PROVE Min({a, b, c}) = IF a <= b /\ a <= c THEN a ELSE IF b <= c THEN b ELSE c
  BY DEF Min
<1> QED
  BY <1>1, <1>2, <1>3

\* A row is named by its batch and its position there.
Rows == Seq(Nat \X Nat)
Writer == [part : Nat, ids : Rows, weights : Seq(Nat), batches : Nat, tick : Nat]
Done == [key : Nat, part : Nat, ids : Rows, rows : Nat, batches : Nat]

Errors == {"none", "output files", "writer bytes", "writer reservation bytes", "Arrow batch bytes"}
CacheSet ==
  [open : UNION {[K -> Writer] : K \in SUBSET Nat}, outputs : Seq(Done), created : Nat, tick : Nat,
   error : Errors]

CacheType(c) ==
  /\ c = [open |-> c.open, outputs |-> c.outputs, created |-> c.created, tick |-> c.tick,
          error |-> c.error]
  /\ c.open \in [DOMAIN c.open -> Writer] /\ DOMAIN c.open \subseteq Nat
  /\ IsFiniteSet(DOMAIN c.open)
  /\ c.outputs \in Seq(Done) /\ c.created \in Nat /\ c.tick \in Nat /\ c.error \in Errors

WriterKept(w, created, o) ==
  /\ Len(w.weights) = Len(w.ids) /\ w.part < created
  /\ w.batches <= Len(w.ids) /\ Len(w.ids) <= o.row_group_rows
OutputKept(d, created, o) ==
  /\ d.rows = Len(d.ids) /\ d.part < created
  /\ 0 < d.batches /\ d.batches <= d.rows /\ d.rows <= o.row_group_rows

\* A fragment of a partition has a lower part than those that are finished after it.
PartsOrdered(c) ==
  /\ \A i, j \in DOMAIN c.outputs :
       i < j /\ c.outputs[i].key = c.outputs[j].key => c.outputs[i].part < c.outputs[j].part
  /\ \A i \in DOMAIN c.outputs : \A k \in DOMAIN c.open :
       c.outputs[i].key = k => c.outputs[i].part < c.open[k].part

\* What is kept while no batch failed: the writers but the new ones hold rows.
Kept(c, o, new) ==
  /\ CacheType(c)
  /\ Cardinality(DOMAIN c.open) <= o.max_open_writers
  /\ Len(c.outputs) + Cardinality(DOMAIN c.open) <= c.created /\ c.created <= o.max_files
  /\ \A k \in DOMAIN c.open : WriterKept(c.open[k], c.created, o)
  /\ \A k \in DOMAIN c.open : k \in new \/ 0 < c.open[k].batches
  /\ \A i \in DOMAIN c.outputs : OutputKept(c.outputs[i], c.created, o)
  /\ PartsOrdered(c)

Allowed(o) ==
  /\ o.max_open_writers \in Nat \ {0} /\ o.row_group_rows \in Nat \ {0} /\ o.max_files \in Nat \ {0}
  /\ writer_budget(o) \in Nat /\ 2 * FileReserve <= writer_budget(o)

\* The rows of a partition, and how many rows there are, finished or not.
Finished(outputs, k) ==
  FlattenSeq([i \in DOMAIN outputs |-> IF outputs[i].key = k THEN outputs[i].ids ELSE <<>>])
StoredRows(c, k) == Finished(c.outputs, k) \o (IF k \in DOMAIN c.open THEN c.open[k].ids ELSE <<>>)
Counted(c) ==
  SumFunctionOnSet([i \in DOMAIN c.outputs |-> c.outputs[i].rows], DOMAIN c.outputs)
    + SumFunctionOnSet([k \in DOMAIN c.open |-> Len(c.open[k].ids)], DOMAIN c.open)

Load(w) == SumFunctionOnSet(w.weights, DOMAIN w.weights) + FileReserve
SameRows(c, d) ==
  /\ \A k \in Nat : StoredRows(d, k) = StoredRows(c, k)
  /\ Counted(d) = Counted(c) /\ d.error = c.error

LEMMA LoadType ==
  ASSUME NEW w \in Writer
  PROVE  Load(w) \in Nat /\ FileReserve <= Load(w)
<1>1. w.weights \in Seq(Nat) /\ DOMAIN w.weights = 1 .. Len(w.weights) /\ Len(w.weights) \in Nat
  BY DEF Writer
<1>2. IsFiniteSet(1 .. Len(w.weights))
  BY <1>1, PrefixFinite, Zenon
<1>3. SumFunctionOnSet(w.weights, DOMAIN w.weights) \in Nat
  BY <1>1, <1>2, SumNat
<1> QED
  BY <1>3, ReserveAssumption DEF Load, ReserveAssumption

LEMMA MemoryIsLoads ==
  ASSUME NEW c, CacheType(c)
  PROVE  LET loads == [k \in DOMAIN c.open |-> Load(c.open[k])]
         IN /\ memory(c) = SumFunctionOnSet(loads, DOMAIN c.open)
            /\ memory(c) \in Nat
            /\ \A k \in DOMAIN c.open : c.open[k] \in Writer /\ loads[k] \in Nat /\ loads[k] = Load(c.open[k])
<1> DEFINE loads == [k \in DOMAIN c.open |-> Load(c.open[k])]
<1>1. [k \in DOMAIN c.open |-> SumFunction(c.open[k].weights) + FileReserve] = loads
  BY WriterSums DEF Load
<1>2. memory(c) = SumFunctionOnSet(loads, DOMAIN loads)
  BY <1>1, WriterSums, Zenon DEF memory
<1>3. DOMAIN loads = DOMAIN c.open
  OBVIOUS
<1>4. IsFiniteSet(DOMAIN c.open) /\ \A k \in DOMAIN c.open : c.open[k] \in Writer
  BY DEF CacheType
<1>5. \A k \in DOMAIN c.open : loads[k] \in Nat /\ loads[k] = Load(c.open[k])
  BY <1>4, LoadType
<1>6. SumFunctionOnSet(loads, DOMAIN c.open) \in Nat
  BY <1>4, <1>5, SumNat
<1> QED
  BY <1>2, <1>3, <1>4, <1>5, <1>6

FinishedOf(c, key) ==
  [key |-> key, part |-> c.open[key].part, ids |-> c.open[key].ids, rows |-> Len(c.open[key].ids),
   batches |-> c.open[key].batches]

LEMMA CloseIs ==
  ASSUME NEW c, CacheType(c), NEW key \in DOMAIN c.open
  PROVE  LET d == close(c, key)
         IN /\ CacheType(d) /\ DOMAIN d.open = DOMAIN c.open \ {key}
            /\ \A k \in DOMAIN c.open : k # key => d.open[k] = c.open[k]
            /\ FinishedOf(c, key) \in Done /\ d.outputs = Append(c.outputs, FinishedOf(c, key))
            /\ d.created = c.created /\ d.tick = c.tick /\ d.error = c.error
<1> PICK o : o = c.open[key]
  OBVIOUS
<1>1. o \in Writer
  BY DEF CacheType
<1>2. FinishedOf(c, key) \in Done
  <2>1. key \in Nat
    BY DEF CacheType
  <2>2. o.part \in Nat /\ o.ids \in Rows /\ o.batches \in Nat /\ Len(o.ids) \in Nat
    BY <1>1 DEF Writer, Rows
  <2> QED
    BY <2>1, <2>2 DEF FinishedOf, Done
<1> PICK d : d = close(c, key)
  OBVIOUS
<1>3. d = [c EXCEPT !.open = Restrict(c.open, DOMAIN c.open \ {key}),
                    !.outputs = Append(c.outputs, FinishedOf(c, key))]
  BY Zenon DEF close, FinishedOf
<1>4. Restrict(c.open, DOMAIN c.open \ {key}) = [k \in DOMAIN c.open \ {key} |-> c.open[k]]
  BY Zenon DEF Restrict
<1>5. d = [open |-> [k \in DOMAIN c.open \ {key} |-> c.open[k]],
           outputs |-> Append(c.outputs, FinishedOf(c, key)),
           created |-> c.created, tick |-> c.tick, error |-> c.error]
  BY <1>3, <1>4 DEF CacheType
<1>6. DOMAIN d.open = DOMAIN c.open \ {key} /\ \A k \in DOMAIN d.open : d.open[k] = c.open[k]
  BY <1>5
<1>7. /\ d.outputs = Append(c.outputs, FinishedOf(c, key)) /\ d.created = c.created
      /\ d.tick = c.tick /\ d.error = c.error
  BY <1>5
<1>8. d.open \in [DOMAIN d.open -> Writer]
  BY <1>5 DEF CacheType
<1>9. DOMAIN d.open \subseteq Nat /\ IsFiniteSet(DOMAIN d.open)
  BY <1>6, FS_RemoveElement DEF CacheType
<1>10. d.outputs \in Seq(Done) /\ d.created \in Nat /\ d.tick \in Nat /\ d.error \in Errors
  BY <1>2, <1>7 DEF CacheType
<1>11. d = [open |-> d.open, outputs |-> d.outputs, created |-> d.created, tick |-> d.tick,
            error |-> d.error]
  BY <1>5
<1>12. CacheType(d)
  BY <1>8, <1>9, <1>10, <1>11 DEF CacheType
<1> QED
  BY <1>2, <1>6, <1>7, <1>12

LEMMA CloseKeeps ==
  ASSUME NEW c, NEW o, Allowed(o), NEW new, Kept(c, o, new), NEW key \in DOMAIN c.open,
         0 < c.open[key].batches
  PROVE  LET d == close(c, key)
         IN /\ Kept(d, o, new) /\ Cardinality(DOMAIN d.open) = Cardinality(DOMAIN c.open) - 1
            /\ DOMAIN d.open = DOMAIN c.open \ {key}
            /\ \A k \in DOMAIN d.open : d.open[k] = c.open[k]
            /\ d.created = c.created
<1> PICK d, done : d = close(c, key) /\ done = FinishedOf(c, key)
  OBVIOUS
<1>0. CacheType(c)
  BY DEF Kept
<1>1. /\ CacheType(d) /\ DOMAIN d.open = DOMAIN c.open \ {key}
      /\ \A k \in DOMAIN c.open : k # key => d.open[k] = c.open[k]
      /\ done \in Done /\ d.outputs = Append(c.outputs, done)
      /\ d.created = c.created
  BY <1>0, CloseIs
<1>2. /\ c.outputs \in Seq(Done) /\ Len(c.outputs) \in Nat
      /\ Len(d.outputs) = Len(c.outputs) + 1 /\ d.outputs[Len(c.outputs) + 1] = done
      /\ DOMAIN c.outputs = 1 .. Len(c.outputs) /\ DOMAIN d.outputs = 1 .. Len(c.outputs) + 1
      /\ \A i \in 1 .. Len(c.outputs) : d.outputs[i] = c.outputs[i]
  BY <1>0, <1>1 DEF CacheType
<1>3. /\ Cardinality(DOMAIN d.open) = Cardinality(DOMAIN c.open) - 1
      /\ Cardinality(DOMAIN c.open) \in Nat
  BY <1>0, <1>1, FS_RemoveElement, FS_CardinalityType DEF CacheType
<1>4. c.open[key] \in Writer /\ o.max_open_writers \in Nat /\ o.max_files \in Nat /\ c.created \in Nat
  BY <1>0 DEF CacheType, Allowed
<1>5. OutputKept(done, c.created, o)
  BY <1>4 DEF Kept, WriterKept, OutputKept, FinishedOf
<1>6. \A i \in DOMAIN d.outputs : i \in DOMAIN c.outputs \/ i = Len(c.outputs) + 1
  BY <1>2
<1>7. \A i \in DOMAIN d.outputs : OutputKept(d.outputs[i], d.created, o)
  <2> TAKE i \in DOMAIN d.outputs
  <2>1. CASE i \in DOMAIN c.outputs
    BY <1>1, <1>2, <2>1 DEF Kept
  <2>2. CASE i = Len(c.outputs) + 1
    BY <1>1, <1>2, <1>5, <2>2
  <2> QED
    BY <1>6, <2>1, <2>2
<1>8. PartsOrdered(d)
  <2>1. ASSUME NEW i \in DOMAIN d.outputs, NEW j \in DOMAIN d.outputs, i < j,
               d.outputs[i].key = d.outputs[j].key
        PROVE  d.outputs[i].part < d.outputs[j].part
    <3>1. i \in DOMAIN c.outputs /\ d.outputs[i] = c.outputs[i]
      BY <1>2, <2>1
    <3>2. CASE j \in DOMAIN c.outputs
      <4>1. d.outputs[j] = c.outputs[j]
        BY <1>2, <3>2
      <4> QED
        BY <2>1, <3>1, <3>2, <4>1 DEF Kept, PartsOrdered
    <3>3. CASE j = Len(c.outputs) + 1
      <4>1. d.outputs[j] = done /\ done.key = key /\ done.part = c.open[key].part
        BY <1>2, <3>3 DEF FinishedOf
      <4> QED
        BY <2>1, <3>1, <4>1 DEF Kept, PartsOrdered
    <3> QED
      BY <1>6, <3>2, <3>3
  <2>2. ASSUME NEW i \in DOMAIN d.outputs, NEW k \in DOMAIN d.open, d.outputs[i].key = k
        PROVE  d.outputs[i].part < d.open[k].part
    <3>1. k \in DOMAIN c.open /\ k # key /\ d.open[k] = c.open[k]
      BY <1>1
    <3>2. i # Len(c.outputs) + 1
      BY <1>2, <2>2, <3>1 DEF FinishedOf
    <3>3. i \in DOMAIN c.outputs /\ d.outputs[i] = c.outputs[i]
      BY <1>2, <1>6, <3>2
    <3> QED
      BY <2>2, <3>1, <3>3 DEF Kept, PartsOrdered
  <2> QED
    BY <2>1, <2>2 DEF PartsOrdered
<1>9. \A k \in DOMAIN d.open : k \in DOMAIN c.open /\ d.open[k] = c.open[k]
  BY <1>1
<1>10. /\ Cardinality(DOMAIN d.open) <= o.max_open_writers
       /\ Len(d.outputs) + Cardinality(DOMAIN d.open) <= d.created /\ d.created <= o.max_files
  BY <1>1, <1>2, <1>3, <1>4 DEF Kept
<1>11. \A k \in DOMAIN d.open : /\ WriterKept(d.open[k], d.created, o)
                                /\ k \in new \/ 0 < d.open[k].batches
  BY <1>1, <1>9 DEF Kept
<1>12. Kept(d, o, new)
  BY <1>1, <1>7, <1>8, <1>10, <1>11 DEF Kept
<1> QED
  BY <1>1, <1>3, <1>9, <1>12

LEMMA FinishedAppend ==
  ASSUME NEW outputs \in Seq(Done), NEW e \in Done, NEW k
  PROVE  /\ Finished(outputs, k) \in Rows
         /\ Finished(Append(outputs, e), k) =
              Finished(outputs, k) \o (IF e.key = k THEN e.ids ELSE <<>>)
<1> DEFINE part(x) == IF x.key = k THEN x.ids ELSE <<>>
           parts(s) == [i \in DOMAIN s |-> part(s[i])]
           N == Len(outputs)
<1>1. N \in Nat /\ DOMAIN outputs = 1 .. N /\ \A i \in 1 .. N : outputs[i] \in Done
  OBVIOUS
<1>2. \A x \in Done : part(x) \in Rows
  BY DEF Done, Rows
<1>3. parts(outputs) \in Seq(Rows)
  <2> HIDE DEF part
  <2> QED
    BY <1>1, <1>2
<1> PICK t : t = Append(outputs, e)
  OBVIOUS
<1>4. /\ DOMAIN t = 1 .. N + 1 /\ t[N + 1] = e /\ \A i \in 1 .. N : t[i] = outputs[i]
  BY <1>1
<1> HIDE DEF part
<1>5. parts(t) = Append(parts(outputs), part(e))
  <2>1. \A i \in 1 .. N + 1 : i \in 1 .. N \/ i = N + 1
    BY <1>1
  <2>2. parts(t) = [i \in 1 .. N + 1 |-> part(t[i])]
    BY <1>4
  <2>3. parts(outputs) = [i \in 1 .. N |-> part(outputs[i])] /\ Len(parts(outputs)) = N
    BY <1>1
  <2>4. part(e) \in Rows
    BY <1>2
  <2> PICK u, r : u = parts(outputs) /\ r = part(e)
    OBVIOUS
  <2>5. u \in Seq(Rows) /\ r \in Rows /\ Len(u) = N /\ \A i \in 1 .. N : u[i] = part(outputs[i])
    BY <1>3, <2>3, <2>4
  <2>6. Append(u, r) = [i \in 1 .. N + 1 |-> IF i = N + 1 THEN r ELSE u[i]]
    BY <2>5
  <2>7. \A i \in 1 .. N + 1 : part(t[i]) = IF i = N + 1 THEN r ELSE u[i]
    BY <1>4, <2>1, <2>5
  <2> QED
    BY <2>2, <2>6, <2>7
<1>6. Finished(outputs, k) = FlattenSeq(parts(outputs)) /\ Finished(t, k) = FlattenSeq(parts(t))
  BY Zenon DEF Finished, part
<1> HIDE DEF parts
<1>7. part(e) \in Rows
  BY <1>2
<1>8. /\ FlattenSeq(parts(outputs)) \in Rows
      /\ FlattenSeq(Append(parts(outputs), part(e))) = FlattenSeq(parts(outputs)) \o part(e)
  BY <1>3, <1>7, FlattenType, FlattenAppend DEF Rows
<1> QED
  BY <1>5, <1>6, <1>8 DEF part

LEMMA StoredType ==
  ASSUME NEW c, CacheType(c), NEW k
  PROVE  /\ Finished(c.outputs, k) \in Rows /\ StoredRows(c, k) \in Rows
         /\ k \in DOMAIN c.open => c.open[k].ids \in Rows
<1>1. c.outputs \in Seq(Done)
  BY DEF CacheType
<1>2. k \in DOMAIN c.open => c.open[k].ids \in Rows
  BY DEF CacheType, Writer
<1>3. Finished(c.outputs, k) \in Rows
  <2>1. PICK e : e = [key |-> 0, part |-> 0, ids |-> <<>>, rows |-> 0, batches |-> 0]
    OBVIOUS
  <2>2. e \in Done
    BY <2>1 DEF Done, Rows
  <2> QED
    BY <1>1, <2>2, FinishedAppend
<1> QED
  BY <1>2, <1>3 DEF StoredRows, Rows

LEMMA ConcatEmpty ==
  ASSUME NEW X, NEW f \in Seq(X)
  PROVE  f \o <<>> = f /\ <<>> \o f = f
  OBVIOUS

LEMMA CloseStored ==
  ASSUME NEW c, CacheType(c), NEW key \in DOMAIN c.open, NEW k
  PROVE  StoredRows(close(c, key), k) = StoredRows(c, k)
<1> PICK d, done : d = close(c, key) /\ done = FinishedOf(c, key)
  OBVIOUS
<1>1. /\ CacheType(d) /\ DOMAIN d.open = DOMAIN c.open \ {key}
      /\ \A l \in DOMAIN c.open : l # key => d.open[l] = c.open[l]
      /\ done \in Done /\ d.outputs = Append(c.outputs, done)
  BY CloseIs
<1>2. c.outputs \in Seq(Done) /\ done.key = key /\ done.ids = c.open[key].ids
  BY DEF CacheType, FinishedOf
<1>3. Finished(d.outputs, k) = Finished(c.outputs, k) \o (IF key = k THEN done.ids ELSE <<>>)
  <2>1. Finished(Append(c.outputs, done), k)
          = Finished(c.outputs, k) \o (IF done.key = k THEN done.ids ELSE <<>>)
    BY <1>1, <1>2, FinishedAppend, Zenon
  <2> QED
    BY <1>1, <1>2, <2>1, Zenon
<1> PICK f : f = Finished(c.outputs, k)
  OBVIOUS
<1>4. f \in Rows /\ f \o <<>> = f
  <2>1. f \in Rows
    BY StoredType
  <2> QED
    BY <2>1, ConcatEmpty DEF Rows
<1>5. CASE k = key
  <2>1. done.ids \in Rows /\ f \o done.ids \in Rows
    BY <1>1, <1>4 DEF Done, Rows
  <2>2. (f \o done.ids) \o <<>> = f \o done.ids
    BY <2>1 DEF Rows
  <2>3. StoredRows(d, k) = (f \o done.ids) \o <<>>
    BY <1>1, <1>3, <1>5 DEF StoredRows
  <2>4. StoredRows(c, k) = f \o done.ids
    BY <1>2, <1>5 DEF StoredRows
  <2> QED
    BY <2>2, <2>3, <2>4
<1>6. CASE k # key
  <2>1. Finished(d.outputs, k) = f
    BY <1>3, <1>4, <1>6
  <2>2. k \in DOMAIN d.open <=> k \in DOMAIN c.open
    BY <1>1, <1>6
  <2>3. k \in DOMAIN c.open => d.open[k] = c.open[k]
    BY <1>1, <1>6
  <2> QED
    BY <2>1, <2>2, <2>3, Zenon DEF StoredRows
<1> QED
  BY <1>5, <1>6

-----------------------------------------------------------------------------
(* Closing the least recently used writer.                                 *)

\* A sum without one of its elements.
LessElement(v, T, w, S, e) ==
  /\ SumFunctionOnSet(v, T) \in Nat
  /\ SumFunctionOnSet(w, S) = SumFunctionOnSet(v, T) + w[e]

LEMMA SumLessElement ==
  ASSUME NEW v, NEW w, NEW S, IsFiniteSet(S), NEW e \in S, \A x \in S : w[x] \in Nat,
         NEW T, T = S \ {e}, \A x \in T : v[x] = w[x]
  PROVE  LessElement(v, T, w, S, e)
<1>1. IsFiniteSet(T)
  BY FS_RemoveElement
<1>2. SumFunctionOnSet(w, S) = w[e] + SumFunctionOnSet(w, T)
  BY SumTake
<1>3. SumFunctionOnSet(v, T) = SumFunctionOnSet(w, T)
  BY <1>1, SumSame
<1>4. \A x \in T : w[x] \in Nat
  OBVIOUS
<1>5. SumFunctionOnSet(w, T) \in Nat
  BY <1>1, <1>4, SumNat
<1>6. w[e] \in Nat
  OBVIOUS
<1> QED
  BY <1>2, <1>3, <1>5, <1>6 DEF LessElement

LEMMA CloseCounted ==
  ASSUME NEW c, CacheType(c), NEW key \in DOMAIN c.open, \A i \in DOMAIN c.outputs : c.outputs[i].rows \in Nat
  PROVE  LET d == close(c, key)
         IN /\ Counted(d) = Counted(c)
            /\ memory(d) <= memory(c)
<1> PICK d, done : d = close(c, key) /\ done = FinishedOf(c, key)
  OBVIOUS
<1>1. /\ CacheType(d) /\ DOMAIN d.open = DOMAIN c.open \ {key}
      /\ \A l \in DOMAIN c.open : l # key => d.open[l] = c.open[l]
      /\ done \in Done /\ d.outputs = Append(c.outputs, done)
  BY CloseIs
<1>2. /\ c.outputs \in Seq(Done) /\ Len(c.outputs) \in Nat
      /\ Len(d.outputs) = Len(c.outputs) + 1 /\ d.outputs[Len(c.outputs) + 1] = done
      /\ DOMAIN c.outputs = 1 .. Len(c.outputs) /\ DOMAIN d.outputs = 1 .. Len(c.outputs) + 1
      /\ \A i \in 1 .. Len(c.outputs) : d.outputs[i] = c.outputs[i]
  BY <1>1 DEF CacheType
<1>3. IsFiniteSet(DOMAIN c.open) /\ \A k \in DOMAIN c.open : c.open[k] \in Writer
  BY DEF CacheType
<1> DEFINE rc == [i \in DOMAIN c.outputs |-> c.outputs[i].rows]
           rd == [i \in DOMAIN d.outputs |-> d.outputs[i].rows]
           nc == [k \in DOMAIN c.open |-> Len(c.open[k].ids)]
           nd == [k \in DOMAIN d.open |-> Len(d.open[k].ids)]
           lc == [k \in DOMAIN c.open |-> Load(c.open[k])]
           ld == [k \in DOMAIN d.open |-> Load(d.open[k])]
           N == Len(c.outputs)
<1>4. /\ memory(c) = SumFunctionOnSet(lc, DOMAIN c.open)
      /\ memory(d) = SumFunctionOnSet(ld, DOMAIN d.open)
      /\ \A k \in DOMAIN c.open : lc[k] \in Nat
  BY <1>1, MemoryIsLoads
<1>5. \A k \in DOMAIN d.open : nd[k] = nc[k] /\ ld[k] = lc[k]
  BY <1>1
<1>6. \A k \in DOMAIN c.open : nc[k] \in Nat /\ nc[k] = Len(c.open[k].ids)
  BY <1>3 DEF Writer, Rows
<1>7. /\ \A i \in 1 .. N : rd[i] = rc[i] /\ rc[i] \in Nat
      /\ rd[N + 1] = Len(c.open[key].ids)
  BY <1>2 DEF FinishedOf
<1>8. /\ Counted(c) = SumFunctionOnSet(rc, 1 .. N) + SumFunctionOnSet(nc, DOMAIN c.open)
      /\ Counted(d) = SumFunctionOnSet(rd, 1 .. N + 1) + SumFunctionOnSet(nd, DOMAIN d.open)
  BY <1>2 DEF Counted
<1> HIDE DEF rc, rd, nc, nd, lc, ld
<1> PICK S, T : S = DOMAIN c.open /\ T = DOMAIN d.open
  OBVIOUS
<1>9. IsFiniteSet(S) /\ key \in S /\ T = S \ {key} /\ \A k \in S : nc[k] \in Nat /\ lc[k] \in Nat
  BY <1>1, <1>3, <1>4, <1>6
<1>10. \A k \in T : nd[k] = nc[k] /\ ld[k] = lc[k]
  BY <1>5
<1>11. /\ SumFunctionOnSet(nd, T) \in Nat
       /\ SumFunctionOnSet(nc, S) = SumFunctionOnSet(nd, T) + nc[key]
  <2>0. IsFiniteSet(S) /\ key \in S /\ T = S \ {key}
    BY <1>9
  <2>1. /\ \A k \in S : nc[k] \in Nat
        /\ \A k \in T : nd[k] = nc[k]
    BY <1>9, <1>10
  <2>2. LessElement(nd, T, nc, S, key)
    BY <2>0, <2>1, SumLessElement
  <2> QED
    BY <2>2 DEF LessElement
<1>12. /\ SumFunctionOnSet(ld, T) \in Nat
       /\ SumFunctionOnSet(lc, S) = SumFunctionOnSet(ld, T) + lc[key]
  <2>0. IsFiniteSet(S) /\ key \in S /\ T = S \ {key}
    BY <1>9
  <2>1. /\ \A k \in S : lc[k] \in Nat
        /\ \A k \in T : ld[k] = lc[k]
    BY <1>9, <1>10
  <2>2. LessElement(ld, T, lc, S, key)
    BY <2>0, <2>1, SumLessElement
  <2> QED
    BY <2>2 DEF LessElement
<1>13. SumFunctionOnSet(rd, 1 .. N + 1) = SumFunctionOnSet(rc, 1 .. N) + nc[key]
  <2>1. \A i \in 1 .. N : rd[i] \in Nat
    BY <1>7
  <2>2. rd[N + 1] = nc[key] /\ rd[N + 1] \in Nat
    BY <1>6, <1>7, <1>9
  <2>3. SumFunctionOnSet(rd, 1 .. N + 1) = SumFunctionOnSet(rd, 1 .. N) + rd[N + 1]
    BY <1>2, <2>1, <2>2, SumNext
  <2>4. IsFiniteSet(1 .. N)
    BY <1>2, PrefixFinite, Zenon
  <2>5. SumFunctionOnSet(rd, 1 .. N) = SumFunctionOnSet(rc, 1 .. N)
    BY <1>7, <2>4, SumSame
  <2> QED
    BY <2>2, <2>3, <2>5
<1>14. SumFunctionOnSet(rc, 1 .. N) \in Nat
  <2>1. IsFiniteSet(1 .. N)
    BY <1>2, PrefixFinite, Zenon
  <2> QED
    BY <1>7, <2>1, SumNat
<1> PICK a, b, e : a = SumFunctionOnSet(rc, 1 .. N) /\ b = SumFunctionOnSet(nd, T) /\ e = nc[key]
  OBVIOUS
<1>15. a \in Nat /\ b \in Nat /\ e \in Nat
  BY <1>9, <1>11, <1>14
<1>16. Counted(c) = a + (b + e) /\ Counted(d) = (a + e) + b
  BY <1>8, <1>11, <1>13
<1>17. Counted(d) = Counted(c)
  BY <1>15, <1>16
<1>18. memory(d) <= memory(c)
  BY <1>4, <1>9, <1>12
<1> QED
  BY <1>17, <1>18

LEMMA OutputTypes ==
  ASSUME NEW c, CacheType(c)
  PROVE  \A i \in DOMAIN c.outputs : c.outputs[i] \in Done /\ c.outputs[i].rows \in Nat
<1>1. \A i \in DOMAIN c.outputs : c.outputs[i] \in Done
  BY DEF CacheType
<1>2. \A d \in Done : d.rows \in Nat
  BY DEF Done
<1> QED
  BY <1>1, <1>2

LEMMA CacheInSet ==
  ASSUME NEW c, CacheType(c)
  PROVE  c \in CacheSet
<1>1. c.open \in UNION {[K -> Writer] : K \in SUBSET Nat}
  BY DEF CacheType
<1> QED
  BY <1>1 DEF CacheType, CacheSet

-----------------------------------------------------------------------------
(* Evictions.                                                              *)

\* d is c with some of its writers closed.
Reached(c, d, o) ==
  /\ Kept(d, o, {}) /\ SameRows(c, d) /\ memory(d) <= memory(c)
  /\ \A k \in DOMAIN d.open : k \in DOMAIN c.open /\ d.open[k] = c.open[k]
  /\ d.created = c.created

LEMMA ReachedItself ==
  ASSUME NEW c, NEW o, Kept(c, o, {})
  PROVE  Reached(c, c, o)
<1>1. memory(c) \in Nat
  BY MemoryIsLoads DEF Kept
<1> QED
  BY <1>1 DEF Reached, SameRows

LEMMA EvictReaches ==
  ASSUME NEW b, NEW c, NEW o, Allowed(o), Reached(b, c, o), DOMAIN c.open # {}, memory(b) \in Nat
  PROVE  LET d == evict(c)
         IN Reached(b, d, o) /\ Cardinality(DOMAIN d.open) = Cardinality(DOMAIN c.open) - 1
<1>1. Kept(c, o, {}) /\ CacheType(c)
  BY DEF Reached, Kept
<1>2. \E k \in DOMAIN c.open : \A l \in DOMAIN c.open : c.open[k].tick <= c.open[l].tick
  <2> DEFINE T == {c.open[k].tick : k \in DOMAIN c.open}
  <2>1. T \in SUBSET Nat /\ T # {}
    BY <1>1 DEF CacheType, Writer
  <2> HIDE DEF T
  <2>2. PICK m \in T : \A n \in T : m <= n
    BY <2>1, LeastNat
  <2> QED
    BY <2>2 DEF T
<1> DEFINE key == CHOOSE k \in DOMAIN c.open : \A l \in DOMAIN c.open : c.open[k].tick <= c.open[l].tick
<1>3. key \in DOMAIN c.open
  BY <1>2
<1>4. evict(c) = close(c, key)
  BY Zenon DEF evict
<1> HIDE DEF key
<1> PICK d : d = close(c, key)
  OBVIOUS
<1>5. 0 < c.open[key].batches
  BY <1>1, <1>3 DEF Kept
<1>6. /\ Kept(d, o, {}) /\ Cardinality(DOMAIN d.open) = Cardinality(DOMAIN c.open) - 1
      /\ DOMAIN d.open = DOMAIN c.open \ {key}
      /\ \A k \in DOMAIN d.open : d.open[k] = c.open[k]
      /\ d.created = c.created
  BY <1>1, <1>3, <1>5, CloseKeeps, ZenonT(30)
<1>7. \A k \in Nat : StoredRows(d, k) = StoredRows(c, k)
  BY <1>1, <1>3, CloseStored
<1>8. Counted(d) = Counted(c) /\ memory(d) <= memory(c)
  <2>1. \A i \in DOMAIN c.outputs : c.outputs[i].rows \in Nat
    BY <1>1, OutputTypes
  <2> QED
    BY <1>1, <1>3, <2>1, CloseCounted
<1>9. d.error = c.error
  BY <1>1, <1>3, CloseIs
<1>10. memory(c) \in Nat /\ memory(d) \in Nat
  BY <1>1, <1>6, MemoryIsLoads DEF Kept
<1>11. SameRows(b, d)
  BY <1>7, <1>8, <1>9 DEF Reached, SameRows
<1>12. memory(d) <= memory(b)
  BY <1>8, <1>10 DEF Reached
<1>13. /\ \A k \in DOMAIN d.open : k \in DOMAIN b.open /\ d.open[k] = b.open[k]
       /\ d.created = b.created
  BY <1>6 DEF Reached
<1>14. Reached(b, d, o)
  BY <1>6, <1>11, <1>12, <1>13 DEF Reached
<1> QED
  BY <1>4, <1>6, <1>14

LEMMA EvictForReaches ==
  ASSUME NEW c, NEW o, Allowed(o), Kept(c, o, {}), NEW r \in Nat, NEW a \in Nat
  PROVE  LET d == EvictFor(c, r, a)
         IN Reached(c, d, o) /\ (DOMAIN d.open = {} \/ memory(d) + r <= a)
<1> DEFINE N == Cardinality(DOMAIN c.open)
           V == {d \in CacheSet : Reached(c, d, o)}
           next(d) == IF DOMAIN d.open # {} /\ memory(d) + r > a THEN evict(d) ELSE d
           step == [x \in V \X (1 .. N) |-> next(x[1])]
           Follows(f) == f = [n \in 0 .. Cardinality(DOMAIN c.open) |->
                                IF n = 0 THEN c ELSE next(f[n - 1])]
<1>1. EvictFor(c, r, a) = (CHOOSE f : Follows(f))[Cardinality(DOMAIN c.open)]
  BY Zenon DEF EvictFor
<1>2. N \in Nat /\ memory(c) \in Nat
  BY FS_CardinalityType, MemoryIsLoads DEF Kept, CacheType
<1>3. c \in V
  BY ReachedItself, CacheInSet DEF Kept
<1>4. \A d \in V : /\ Reached(c, d, o) /\ IsFiniteSet(DOMAIN d.open)
                   /\ Cardinality(DOMAIN d.open) \in Nat /\ memory(d) \in Nat
  <2> TAKE d \in V
  <2>1. Reached(c, d, o) /\ IsFiniteSet(DOMAIN d.open) /\ CacheType(d)
    BY DEF Reached, Kept, CacheType
  <2> QED
    BY <2>1, FS_CardinalityType, MemoryIsLoads
<1>5. \A d \in V : /\ next(d) \in V
                   /\ DOMAIN d.open # {} /\ memory(d) + r > a =>
                        Cardinality(DOMAIN next(d).open) = Cardinality(DOMAIN d.open) - 1
  <2> TAKE d \in V
  <2>1. CASE DOMAIN d.open # {} /\ memory(d) + r > a
    <3> PICK e : e = evict(d)
      OBVIOUS
    <3>1. Reached(c, e, o) /\ Cardinality(DOMAIN e.open) = Cardinality(DOMAIN d.open) - 1
      BY <1>2, <2>1, EvictReaches
    <3>2. e \in CacheSet
      BY <3>1, CacheInSet DEF Reached, Kept
    <3> QED
      BY <2>1, <3>1, <3>2
  <2>2. CASE ~(DOMAIN d.open # {} /\ memory(d) + r > a)
    BY <2>2
  <2> QED
    BY <2>1, <2>2
<1> HIDE DEF V, next
<1>6. step \in [V \X (1 .. N) -> V] /\ \A d \in V, n \in 1 .. N : step[<<d, n>>] = next(d)
  BY <1>5
<1> HIDE DEF step, N
<1>7. PICK g \in [0 .. N -> V] : Recurs(g, N, c, step)
  BY <1>2, <1>3, <1>6, RecursionExists
<1>8. \A n \in 0 .. N : g[n] = IF n = 0 THEN c ELSE next(g[n - 1])
  <2> TAKE n \in 0 .. N
  <2>1. CASE n = 0
    BY <1>7, <2>1 DEF Recurs
  <2>2. CASE n # 0
    <3>1. n \in 1 .. N /\ n - 1 \in 0 .. N
      BY <1>2, <2>2
    <3>2. g[n] = step[<<g[n - 1], n>>] /\ g[n - 1] \in V
      BY <1>7, <2>2, <3>1 DEF Recurs
    <3> QED
      BY <1>6, <2>2, <3>1, <3>2
  <2> QED
    BY <2>1, <2>2
<1>9. Cardinality(DOMAIN c.open) = N
  BY Zenon DEF N
<1>10. Follows(g)
  BY <1>7, <1>8, <1>9
<1>11. PICK f : f = (CHOOSE h : Follows(h))
  OBVIOUS
<1>12. Follows(f)
  BY <1>10, <1>11, Zenon
<1>13. /\ EvictFor(c, r, a) = f[N]
       /\ \A n \in 0 .. N : f[n] = IF n = 0 THEN c ELSE next(f[n - 1])
  BY <1>1, <1>9, <1>11, <1>12
<1> HIDE DEF Follows
<1> DEFINE fits(d) == DOMAIN d.open = {} \/ ~(memory(d) + r > a)
           T == {n \in Nat : n \in 0 .. N =>
                   /\ f[n] \in V
                   /\ fits(f[n]) \/ Cardinality(DOMAIN f[n].open) <= N - n}
<1>14. 0 \in T
  <2>1. f[0] = c /\ Cardinality(DOMAIN c.open) = N
    BY <1>2, <1>13 DEF N
  <2> QED
    BY <1>2, <1>3, <2>1
<1>15. ASSUME NEW n \in T PROVE n + 1 \in T
  <2> SUFFICES ASSUME n + 1 \in 0 .. N
               PROVE  /\ f[n + 1] \in V
                      /\ fits(f[n + 1]) \/ Cardinality(DOMAIN f[n + 1].open) <= N - (n + 1)
    OBVIOUS
  <2>1. n \in 0 .. N /\ n + 1 # 0 /\ (n + 1) - 1 = n /\ n \in Nat
    BY <1>2
  <2> PICK d, e : d = f[n] /\ e = f[n + 1]
    OBVIOUS
  <2>2. d \in V /\ (fits(d) \/ Cardinality(DOMAIN d.open) <= N - n)
    BY <2>1
  <2>3. e = next(d)
    BY <1>13, <2>1
  <2>4. CASE fits(d)
    <3>1. e = d
      BY <2>3, <2>4 DEF next
    <3> QED
      BY <2>2, <2>4, <3>1
  <2>5. CASE ~fits(d)
    <3>1. e \in V /\ Cardinality(DOMAIN e.open) = Cardinality(DOMAIN d.open) - 1
      BY <1>5, <2>2, <2>3, <2>5
    <3>2. Cardinality(DOMAIN d.open) \in Nat /\ Cardinality(DOMAIN d.open) <= N - n
      BY <1>4, <2>2, <2>5
    <3>3. Cardinality(DOMAIN d.open) - 1 <= N - (n + 1)
      BY <1>2, <2>1, <3>2
    <3> QED
      BY <3>1, <3>3
  <2> QED
    BY <2>4, <2>5
<1> HIDE DEF T
<1>16. T = Nat
  <2>1. T \in SUBSET Nat
    BY DEF T
  <2> QED
    BY <1>14, <1>15, <2>1, NatSetInduction
<1>17. f[N] \in V /\ (fits(f[N]) \/ Cardinality(DOMAIN f[N].open) <= N - N)
  <2>1. N \in 0 .. N
    BY <1>2
  <2> QED
    BY <1>2, <1>16, <2>1 DEF T
<1> PICK d : d = f[N]
  OBVIOUS
<1>18. /\ Reached(c, d, o) /\ IsFiniteSet(DOMAIN d.open)
       /\ Cardinality(DOMAIN d.open) \in Nat /\ memory(d) \in Nat
  BY <1>4, <1>17
<1>19. DOMAIN d.open = {} \/ memory(d) + r <= a
  <2>1. CASE fits(d)
    BY <1>18, <2>1
  <2>2. CASE Cardinality(DOMAIN d.open) <= N - N
    <3>1. Cardinality(DOMAIN d.open) = 0
      BY <1>2, <1>18, <2>2
    <3> QED
      BY <1>18, <3>1, FS_EmptySet
  <2> QED
    BY <1>17, <2>1, <2>2
<1> QED
  BY <1>13, <1>18, <1>19

LEMMA CloseAllReaches ==
  ASSUME NEW c, NEW o, Allowed(o), Kept(c, o, {})
  PROVE  LET d == close_all(c) IN Reached(c, d, o) /\ DOMAIN d.open = {}
<1> DEFINE N == Cardinality(DOMAIN c.open)
           V == {d \in CacheSet : Reached(c, d, o)}
           next(d) == IF DOMAIN d.open = {} THEN d ELSE evict(d)
           step == [x \in V \X (1 .. N) |-> next(x[1])]
           Follows(f) == f = [n \in 0 .. Cardinality(DOMAIN c.open) |->
                                IF n = 0 THEN c ELSE evict(f[n - 1])]
           Left(d, n) == d \in V /\ Cardinality(DOMAIN d.open) = N - n
<1>1. close_all(c) = (CHOOSE f : Follows(f))[Cardinality(DOMAIN c.open)]
  BY Zenon DEF close_all
<1>2. N \in Nat /\ memory(c) \in Nat
  BY FS_CardinalityType, MemoryIsLoads DEF Kept, CacheType
<1>3. c \in V
  BY ReachedItself, CacheInSet DEF Kept
<1>4. \A d \in V : /\ Reached(c, d, o) /\ IsFiniteSet(DOMAIN d.open)
                   /\ Cardinality(DOMAIN d.open) \in Nat
  <2> TAKE d \in V
  <2>1. Reached(c, d, o) /\ IsFiniteSet(DOMAIN d.open)
    BY DEF Reached, Kept, CacheType
  <2> QED
    BY <2>1, FS_CardinalityType
<1>5. \A d \in V : /\ next(d) \in V
                   /\ DOMAIN d.open # {} =>
                        Cardinality(DOMAIN next(d).open) = Cardinality(DOMAIN d.open) - 1
  <2> TAKE d \in V
  <2>1. CASE DOMAIN d.open # {}
    <3> PICK e : e = evict(d)
      OBVIOUS
    <3>1. Reached(c, e, o) /\ Cardinality(DOMAIN e.open) = Cardinality(DOMAIN d.open) - 1
      BY <1>2, <2>1, EvictReaches
    <3>2. e \in CacheSet
      BY <3>1, CacheInSet DEF Reached, Kept
    <3> QED
      BY <2>1, <3>1, <3>2
  <2>2. CASE DOMAIN d.open = {}
    BY <2>2
  <2> QED
    BY <2>1, <2>2
<1>6. Left(c, 0)
  BY <1>2, <1>3
<1> HIDE DEF V
<1>7. ASSUME NEW n \in 1 .. N, NEW d, Left(d, n - 1)
      PROVE  next(d) = evict(d) /\ Left(next(d), n)
  <2>1. Cardinality(DOMAIN d.open) = N - (n - 1) /\ Cardinality(DOMAIN d.open) # 0
    BY <1>2, <1>7
  <2>2. DOMAIN d.open # {}
    BY <2>1, FS_EmptySet
  <2>3. Cardinality(DOMAIN next(d).open) = N - n
    BY <1>2, <1>5, <1>7, <2>1, <2>2
  <2> QED
    BY <1>5, <1>7, <2>2, <2>3
<1> HIDE DEF next
<1>8. step \in [V \X (1 .. N) -> V] /\ \A d \in V, n \in 1 .. N : step[<<d, n>>] = next(d)
  BY <1>5
<1> HIDE DEF step, N
<1>9. PICK g \in [0 .. N -> V] : Recurs(g, N, c, step)
  BY <1>2, <1>3, <1>8, RecursionExists
<1>10. g[0] = c
  <2>1. 0 \in 0 .. N
    BY <1>2
  <2> QED
    BY <1>9, <2>1 DEF Recurs
<1>11. \A n \in 1 .. N : n - 1 \in 0 .. N /\ g[n] = next(g[n - 1])
  <2> TAKE n \in 1 .. N
  <2>1. n \in 0 .. N /\ n # 0 /\ n - 1 \in 0 .. N
    BY <1>2
  <2>2. g[n] = step[<<g[n - 1], n>>] /\ g[n - 1] \in V
    BY <1>9, <2>1 DEF Recurs
  <2> QED
    BY <1>8, <2>1, <2>2
<1> HIDE DEF Left
<1>12. ASSUME NEW h, h[0] = c, \A n \in 1 .. N : Left(h[n - 1], n - 1) => Left(h[n], n)
       PROVE  \A n \in 0 .. N : Left(h[n], n)
  <2> DEFINE T == {n \in Nat : n \in 0 .. N => Left(h[n], n)}
  <2>1. 0 \in T
    BY <1>6, <1>12
  <2>2. ASSUME NEW n \in T PROVE n + 1 \in T
    <3> SUFFICES ASSUME n + 1 \in 0 .. N PROVE Left(h[n + 1], n + 1)
      OBVIOUS
    <3>1. n \in 0 .. N /\ n + 1 \in 1 .. N /\ (n + 1) - 1 = n
      BY <1>2
    <3>2. Left(h[n], n)
      BY <3>1
    <3> QED
      BY <1>12, <3>1, <3>2
  <2> HIDE DEF T
  <2>3. T = Nat
    <3>1. T \in SUBSET Nat
      BY DEF T
    <3> QED
      BY <2>1, <2>2, <3>1, NatSetInduction
  <2> QED
    BY <1>2, <2>3 DEF T
<1>13. \A n \in 1 .. N : g[n] = evict(g[n - 1])
  <2>1. \A n \in 1 .. N : Left(g[n - 1], n - 1) => Left(g[n], n)
    BY <1>7, <1>11
  <2>2. \A n \in 0 .. N : Left(g[n], n)
    BY <1>10, <1>12, <2>1
  <2> QED
    BY <1>7, <1>11, <2>2
<1>14. Cardinality(DOMAIN c.open) = N
  BY Zenon DEF N
<1>15. Follows(g)
  <2>1. \A n \in 0 .. N : n = 0 \/ n \in 1 .. N
    BY <1>2
  <2>2. \A n \in 0 .. N : g[n] = IF n = 0 THEN c ELSE evict(g[n - 1])
    BY <1>10, <1>13, <2>1
  <2> QED
    BY <1>9, <1>14, <2>2
<1>16. PICK f : f = (CHOOSE h : Follows(h))
  OBVIOUS
<1>17. Follows(f)
  BY <1>15, <1>16, Zenon
<1>18. /\ close_all(c) = f[N] /\ f[0] = c
       /\ \A n \in 1 .. N : f[n] = evict(f[n - 1])
  <2>1. f = [n \in 0 .. N |-> IF n = 0 THEN c ELSE evict(f[n - 1])]
    BY <1>14, <1>17
  <2>2. 0 \in 0 .. N /\ \A n \in 1 .. N : n \in 0 .. N /\ n # 0
    BY <1>2
  <2>3. f[0] = c /\ \A n \in 1 .. N : f[n] = evict(f[n - 1])
    BY <2>1, <2>2
  <2> QED
    BY <1>1, <1>14, <1>16, <2>3
<1> HIDE DEF Follows
<1>19. \A n \in 1 .. N : Left(f[n - 1], n - 1) => Left(f[n], n)
  BY <1>7, <1>18
<1>20. Left(f[N], N)
  <2>1. N \in 0 .. N
    BY <1>2
  <2> QED
    BY <1>12, <1>18, <1>19, <2>1
<1>21. f[N] \in V /\ Cardinality(DOMAIN f[N].open) = 0
  BY <1>2, <1>20 DEF Left
<1>22. DOMAIN f[N].open = {}
  BY <1>4, <1>21, FS_EmptySet
<1> QED
  BY <1>4, <1>18, <1>21, <1>22

-----------------------------------------------------------------------------
(* Opening a writer.                                                       *)

NotFull(c, o) == \A k \in DOMAIN c.open : Len(c.open[k].ids) < o.row_group_rows

\* d is c, perhaps with writers closed, and with a writer for key.
WriterOpened(c, d, key, o) ==
  /\ Kept(d, o, {key}) /\ NotFull(d, o) /\ key \in DOMAIN d.open
  /\ SameRows(c, d) /\ memory(d) <= memory(c) + FileReserve

LEMMA OpenedAlready ==
  ASSUME NEW c, NEW o, Kept(c, o, {}), NotFull(c, o), NEW key \in DOMAIN c.open
  PROVE  WriterOpened(c, c, key, o)
<1>1. memory(c) \in Nat
  BY MemoryIsLoads DEF Kept
<1>2. memory(c) <= memory(c) + FileReserve
  BY <1>1, ReserveAssumption DEF ReserveAssumption
<1>3. Kept(c, o, {key})
  BY DEF Kept
<1> QED
  BY <1>2, <1>3 DEF WriterOpened, SameRows

NewWriter(c) == [part |-> c.created, ids |-> <<>>, weights |-> <<>>, batches |-> 0, tick |-> c.tick]
WithWriter(c, key) ==
  [open |-> [k \in DOMAIN c.open \cup {key} |-> IF k = key THEN NewWriter(c) ELSE c.open[k]],
   outputs |-> c.outputs, created |-> c.created + 1, tick |-> c.tick, error |-> c.error]

LEMMA WithWriterKept ==
  ASSUME NEW c, NEW o, Allowed(o), Kept(c, o, {}), NotFull(c, o), NEW key \in Nat,
         key \notin DOMAIN c.open, Cardinality(DOMAIN c.open) < o.max_open_writers,
         c.created + 1 <= o.max_files
  PROVE  LET d == WithWriter(c, key)
         IN /\ Kept(d, o, {key}) /\ NotFull(d, o) /\ DOMAIN d.open = DOMAIN c.open \cup {key}
            /\ d.open[key] = NewWriter(c) /\ NewWriter(c) \in Writer
            /\ \A k \in DOMAIN c.open : d.open[k] = c.open[k]
            /\ d.outputs = c.outputs /\ d.error = c.error
<1> PICK d, w : d = WithWriter(c, key) /\ w = NewWriter(c)
  OBVIOUS
<1>0. /\ CacheType(c) /\ c.created \in Nat /\ IsFiniteSet(DOMAIN c.open)
      /\ Cardinality(DOMAIN c.open) \in Nat
  BY FS_CardinalityType DEF Kept, CacheType
<1>1. /\ DOMAIN d.open = DOMAIN c.open \cup {key} /\ d.open[key] = w
      /\ \A k \in DOMAIN c.open : k # key /\ d.open[k] = c.open[k]
      /\ d.outputs = c.outputs /\ d.error = c.error /\ d.created = c.created + 1 /\ d.tick = c.tick
  BY DEF WithWriter
<1>2. w \in Writer /\ w.ids = <<>> /\ w.weights = <<>> /\ w.batches = 0 /\ w.part = c.created
  BY <1>0 DEF NewWriter, Writer, Rows, CacheType
<1>3. \A k \in DOMAIN d.open : k = key \/ (k \in DOMAIN c.open /\ d.open[k] = c.open[k])
  BY <1>1
<1>4. \A k \in DOMAIN d.open : d.open[k] \in Writer
  BY <1>0, <1>1, <1>2, <1>3 DEF CacheType
<1>5. CacheType(d)
  <2>1. d.open \in [DOMAIN d.open -> Writer]
    <3>1. d.open = [k \in DOMAIN d.open |-> d.open[k]]
      BY DEF WithWriter
    <3> QED
      BY <1>4, <3>1
  <2>2. IsFiniteSet(DOMAIN d.open)
    BY <1>0, <1>1, FS_AddElement
  <2>3. DOMAIN d.open \subseteq Nat
    BY <1>0, <1>1 DEF CacheType
  <2>4. d = [open |-> d.open, outputs |-> d.outputs, created |-> d.created, tick |-> d.tick,
             error |-> d.error]
    BY DEF WithWriter
  <2> QED
    BY <1>0, <1>1, <2>1, <2>2, <2>3, <2>4 DEF CacheType
<1>6. Cardinality(DOMAIN d.open) = Cardinality(DOMAIN c.open) + 1
  BY <1>0, <1>1, FS_AddElement
<1>7. c.outputs \in Seq(Done) /\ Len(c.outputs) \in Nat
  BY <1>0 DEF CacheType
<1>8. /\ Cardinality(DOMAIN d.open) <= o.max_open_writers
      /\ Len(d.outputs) + Cardinality(DOMAIN d.open) <= d.created /\ d.created <= o.max_files
  <2>1. o.max_open_writers \in Nat
    BY DEF Allowed
  <2>2. Len(c.outputs) + Cardinality(DOMAIN c.open) <= c.created
    BY DEF Kept
  <2> QED
    BY <1>0, <1>1, <1>6, <1>7, <2>1, <2>2
<1>9. o.row_group_rows \in Nat /\ 0 < o.row_group_rows
  BY DEF Allowed
<1>10. \A k \in DOMAIN d.open : /\ WriterKept(d.open[k], d.created, o)
                                /\ k \in {key} \/ 0 < d.open[k].batches
                                /\ Len(d.open[k].ids) < o.row_group_rows
  <2> TAKE k \in DOMAIN d.open
  <2>1. CASE k = key
    <3>1. Len(w.weights) = Len(w.ids) /\ Len(w.ids) = 0
      BY <1>2
    <3> QED
      BY <1>0, <1>1, <1>2, <1>9, <2>1, <3>1 DEF WriterKept
  <2>2. CASE k # key
    <3>1. k \in DOMAIN c.open /\ d.open[k] = c.open[k] /\ d.open[k] \in Writer
      BY <1>3, <1>4, <2>2
    <3>2. /\ WriterKept(c.open[k], c.created, o) /\ 0 < c.open[k].batches
          /\ Len(c.open[k].ids) < o.row_group_rows
      BY <3>1 DEF Kept, NotFull
    <3>3. c.open[k].part \in Nat
      BY <3>1 DEF Writer
    <3> QED
      BY <1>0, <1>1, <3>1, <3>2, <3>3 DEF WriterKept
  <2> QED
    BY <2>1, <2>2
<1>11. \A i \in DOMAIN d.outputs :
         /\ OutputKept(d.outputs[i], d.created, o)
         /\ d.outputs[i].part \in Nat /\ d.outputs[i].part < c.created
  <2> TAKE i \in DOMAIN d.outputs
  <2>1. c.outputs[i] \in Done /\ OutputKept(c.outputs[i], c.created, o)
    BY <1>0, <1>1, OutputTypes DEF Kept
  <2>2. c.outputs[i].part \in Nat
    BY <2>1 DEF Done
  <2> QED
    BY <1>0, <1>1, <2>1, <2>2 DEF OutputKept
<1>12. PartsOrdered(d)
  <2>1. \A i, j \in DOMAIN d.outputs :
          i < j /\ d.outputs[i].key = d.outputs[j].key => d.outputs[i].part < d.outputs[j].part
    BY <1>1 DEF Kept, PartsOrdered
  <2>2. ASSUME NEW i \in DOMAIN d.outputs, NEW k \in DOMAIN d.open, d.outputs[i].key = k
        PROVE  d.outputs[i].part < d.open[k].part
    <3>1. CASE k = key
      BY <1>1, <1>2, <1>11, <3>1
    <3>2. CASE k # key
      <4>1. k \in DOMAIN c.open /\ d.open[k] = c.open[k]
        BY <1>3, <3>2
      <4> QED
        BY <1>1, <2>2, <4>1 DEF Kept, PartsOrdered
    <3> QED
      BY <3>1, <3>2
  <2> QED
    BY <2>1, <2>2 DEF PartsOrdered
<1>13. Kept(d, o, {key})
  BY <1>5, <1>8, <1>10, <1>11, <1>12 DEF Kept
<1>14. NotFull(d, o)
  BY <1>10 DEF NotFull
<1> QED
  BY <1>1, <1>2, <1>13, <1>14

LEMMA WithWriterRows ==
  ASSUME NEW c, NEW d, CacheType(c), CacheType(d), NEW key \in Nat, key \notin DOMAIN c.open,
         DOMAIN d.open = DOMAIN c.open \cup {key}, d.open[key] = NewWriter(c), NewWriter(c) \in Writer,
         \A k \in DOMAIN c.open : d.open[k] = c.open[k], d.outputs = c.outputs, d.error = c.error
  PROVE  SameRows(c, d) /\ memory(d) = memory(c) + FileReserve
<1> PICK w : w = NewWriter(c)
  OBVIOUS
<1>1. w.ids = <<>> /\ w.weights = <<>>
  BY DEF NewWriter
<1>2. \A k \in Nat : StoredRows(d, k) = StoredRows(c, k)
  <2> TAKE k \in Nat
  <2>1. CASE k = key
    BY <1>1, <2>1 DEF StoredRows
  <2>2. CASE k # key
    <3>1. /\ k \in DOMAIN d.open <=> k \in DOMAIN c.open
          /\ k \in DOMAIN c.open => d.open[k] = c.open[k]
      BY <2>2
    <3> QED
      BY <3>1, Zenon DEF StoredRows
  <2> QED
    BY <2>1, <2>2
<1> DEFINE nc == [k \in DOMAIN c.open |-> Len(c.open[k].ids)]
           nd == [k \in DOMAIN d.open |-> Len(d.open[k].ids)]
           lc == [k \in DOMAIN c.open |-> Load(c.open[k])]
           ld == [k \in DOMAIN d.open |-> Load(d.open[k])]
<1>3. /\ memory(c) = SumFunctionOnSet(lc, DOMAIN c.open)
      /\ memory(d) = SumFunctionOnSet(ld, DOMAIN d.open)
      /\ \A k \in DOMAIN d.open : d.open[k] \in Writer /\ ld[k] \in Nat /\ ld[k] = Load(d.open[k])
  BY MemoryIsLoads
<1>4. \A k \in DOMAIN c.open : nd[k] = nc[k] /\ ld[k] = lc[k]
  OBVIOUS
<1>5. \A k \in DOMAIN d.open : nd[k] = Len(d.open[k].ids) /\ nd[k] \in Nat
  BY <1>3 DEF Writer, Rows
<1>6. Counted(c) = SumFunctionOnSet([i \in DOMAIN c.outputs |-> c.outputs[i].rows], DOMAIN c.outputs)
                     + SumFunctionOnSet(nc, DOMAIN c.open)
  BY DEF Counted
<1>7. Counted(d) = SumFunctionOnSet([i \in DOMAIN c.outputs |-> c.outputs[i].rows], DOMAIN c.outputs)
                     + SumFunctionOnSet(nd, DOMAIN d.open)
  BY DEF Counted
<1> HIDE DEF nc, nd, lc, ld
<1> PICK S, T : S = DOMAIN d.open /\ T = DOMAIN c.open
  OBVIOUS
<1>8. IsFiniteSet(S) /\ key \in S /\ T = S \ {key}
  BY DEF CacheType
<1>9. (\A k \in S : nd[k] \in Nat) /\ (\A k \in T : nc[k] = nd[k])
  BY <1>4, <1>5
<1>10. (\A k \in S : ld[k] \in Nat) /\ (\A k \in T : lc[k] = ld[k])
  BY <1>3, <1>4
<1>11. LessElement(nc, T, nd, S, key)
  BY <1>8, <1>9, SumLessElement
<1>12. LessElement(lc, T, ld, S, key)
  BY <1>8, <1>10, SumLessElement
<1>13. nd[key] = 0
  BY <1>1, <1>5, <1>8
<1>14. ld[key] = FileReserve
  <2>1. SumFunctionOnSet(w.weights, DOMAIN w.weights) = 0
    BY <1>1, SumEmpty
  <2>2. Load(w) = FileReserve
    BY <2>1, ReserveAssumption DEF Load, ReserveAssumption
  <2> QED
    BY <1>3, <1>8, <2>2
<1>15. SumFunctionOnSet(nd, S) = SumFunctionOnSet(nc, T)
  BY <1>11, <1>13 DEF LessElement
<1>16. SumFunctionOnSet(ld, S) = SumFunctionOnSet(lc, T) + FileReserve
  BY <1>12, <1>14 DEF LessElement
<1>17. Counted(d) = Counted(c)
  BY <1>6, <1>7, <1>15, Zenon
<1>18. memory(d) = memory(c) + FileReserve
  BY <1>3, <1>16, Zenon
<1> QED
  BY <1>2, <1>17, <1>18 DEF SameRows

\* What holds after a batch failed, too.
InLimits(c, o) ==
  CacheType(c) /\ Cardinality(DOMAIN c.open) <= o.max_open_writers /\ c.created <= o.max_files

LEMMA FailBounded ==
  ASSUME NEW c, NEW o, NEW new, Kept(c, o, new), NEW resource \in Errors
  PROVE  LET d == Fail(c, resource) IN InLimits(d, o) /\ d.error = resource
<1>1. Fail(c, resource) = [c EXCEPT !.error = resource]
  BY Zenon DEF Fail
<1> PICK d : d = [open |-> c.open, outputs |-> c.outputs, created |-> c.created, tick |-> c.tick,
                  error |-> resource]
  OBVIOUS
<1>2. Fail(c, resource) = d
  BY <1>1 DEF Kept, CacheType
<1>3. CacheType(d)
  BY DEF Kept, CacheType
<1> QED
  BY <1>2, <1>3 DEF Kept, InLimits

LEMMA MemoryEmpty ==
  ASSUME NEW c, CacheType(c), DOMAIN c.open = {}
  PROVE  memory(c) = 0
<1>1. memory(c) = SumFunctionOnSet([k \in DOMAIN c.open |-> Load(c.open[k])], DOMAIN c.open)
  BY MemoryIsLoads
<1> QED
  BY <1>1, SumEmpty

LEMMA OpenWriterKeeps ==
  ASSUME NEW c, NEW o, Allowed(o), Kept(c, o, {}), NotFull(c, o), NEW key \in Nat
  PROVE  LET d == OpenWriter(c, key, o)
         IN WriterOpened(c, d, key, o) \/ (InLimits(d, o) /\ d.error = "output files")
<1> PICK e : e = IF Cardinality(DOMAIN c.open) = o.max_open_writers THEN evict(c) ELSE c
  OBVIOUS
<1> PICK d : d = OpenWriter(c, key, o)
  OBVIOUS
<1>0. /\ CacheType(c) /\ memory(c) \in Nat /\ Cardinality(DOMAIN c.open) \in Nat
      /\ Cardinality(DOMAIN c.open) <= o.max_open_writers
      /\ o.max_open_writers \in Nat /\ o.max_open_writers # 0
  BY MemoryIsLoads, FS_CardinalityType DEF Kept, CacheType, Allowed
<1>1. d = CASE key \in DOMAIN c.open -> c
            [] key \notin DOMAIN c.open /\ e.created + 1 > o.max_files -> Fail(e, "output files")
            [] OTHER -> [e EXCEPT !.open = [k \in DOMAIN @ \cup {key} |->
                                              IF k = key
                                              THEN [part |-> e.created, ids |-> <<>>, weights |-> <<>>,
                                                    batches |-> 0, tick |-> e.tick]
                                              ELSE @[k]],
                                  !.created = @ + 1]
  <2>1. e = IF Cardinality(DOMAIN c.open) = o.max_open_writers THEN evict(c) ELSE c
    BY Zenon
  <2> QED
    BY <2>1, Zenon DEF OpenWriter
<1>2. CASE key \in DOMAIN c.open
  <2>1. d = c
    BY <1>1, <1>2
  <2> QED
    BY <1>2, <2>1, OpenedAlready
<1>3. CASE key \notin DOMAIN c.open
  <2>1. Reached(c, e, o) /\ Cardinality(DOMAIN e.open) < o.max_open_writers
    <3>1. CASE Cardinality(DOMAIN c.open) = o.max_open_writers
      <4>1. DOMAIN c.open # {}
        BY <1>0, <3>1, FS_EmptySet
      <4>2. e = evict(c)
        BY <3>1
      <4>3. Reached(c, e, o) /\ Cardinality(DOMAIN e.open) = Cardinality(DOMAIN c.open) - 1
        BY <1>0, <4>1, <4>2, ReachedItself, EvictReaches
      <4> QED
        BY <1>0, <4>3
    <3>2. CASE Cardinality(DOMAIN c.open) # o.max_open_writers
      BY <1>0, <3>2, ReachedItself
    <3> QED
      BY <3>1, <3>2
  <2>2. Kept(e, o, {}) /\ CacheType(e) /\ e.created \in Nat
    BY <2>1 DEF Reached, Kept, CacheType
  <2>3. NotFull(e, o) /\ key \notin DOMAIN e.open
    BY <1>3, <2>1 DEF Reached, NotFull
  <2>4. CASE e.created + 1 > o.max_files
    <3>1. d = Fail(e, "output files")
      BY <1>1, <1>3, <2>4
    <3> QED
      BY <2>2, <3>1, FailBounded DEF Errors
  <2>5. CASE ~(e.created + 1 > o.max_files)
    <3>1. d = [e EXCEPT !.open = [k \in DOMAIN e.open \cup {key} |->
                                              IF k = key THEN NewWriter(e) ELSE e.open[k]],
                        !.created = e.created + 1]
      BY <1>1, <1>3, <2>5 DEF NewWriter
    <3>2. d = WithWriter(e, key)
      BY <2>2, <3>1 DEF WithWriter, CacheType
    <3>3. e.created + 1 <= o.max_files
      <4>1. o.max_files \in Nat
        BY DEF Allowed
      <4> QED
        BY <2>2, <2>5, <4>1
    <3>4. /\ Kept(d, o, {key}) /\ NotFull(d, o) /\ DOMAIN d.open = DOMAIN e.open \cup {key}
          /\ d.open[key] = NewWriter(e) /\ NewWriter(e) \in Writer
          /\ \A k \in DOMAIN e.open : d.open[k] = e.open[k]
          /\ d.outputs = e.outputs /\ d.error = e.error
      BY <2>1, <2>2, <2>3, <3>2, <3>3, WithWriterKept
    <3>5. CacheType(d)
      BY <3>4 DEF Kept
    <3>6. SameRows(e, d) /\ memory(d) = memory(e) + FileReserve
      BY <2>2, <2>3, <3>4, <3>5, WithWriterRows
    <3>7. SameRows(c, d)
      BY <2>1, <3>6 DEF Reached, SameRows
    <3>8. memory(d) <= memory(c) + FileReserve
      <4>1. memory(e) \in Nat /\ memory(e) <= memory(c)
        BY <2>1, <2>2, MemoryIsLoads DEF Reached
      <4> QED
        BY <1>0, <3>6, <4>1, ReserveAssumption DEF ReserveAssumption
    <3>9. key \in DOMAIN d.open
      BY <3>4
    <3>10. WriterOpened(c, d, key, o)
      BY <3>4, <3>7, <3>8, <3>9 DEF WriterOpened
    <3> QED
      BY <3>10
  <2> QED
    BY <2>4, <2>5
<1> QED
  BY <1>2, <1>3

-----------------------------------------------------------------------------
(* Writing a chunk.                                                        *)

\* t is s with n times x after it.
Extended(t, s, n, x) == t = s \o [i \in 1 .. n |-> x]

LEMMA SumOfSeq ==
  ASSUME NEW s \in Seq(Nat)
  PROVE  SumFunctionOnSet(s, DOMAIN s) \in Nat
<1>1. Len(s) \in Nat /\ DOMAIN s = 1 .. Len(s) /\ \A i \in DOMAIN s : s[i] \in Nat
  OBVIOUS
<1>2. IsFiniteSet(1 .. Len(s))
  BY <1>1, FS_Interval
<1> QED
  BY <1>1, <1>2, SumNat

LEMMA LoadGrows ==
  ASSUME NEW s \in Seq(Nat), NEW n \in Nat, NEW x \in Nat, NEW t, Extended(t, s, n, x)
  PROVE  /\ t \in Seq(Nat) /\ Len(t) = Len(s) + n
         /\ x <= 1 => SumFunctionOnSet(t, DOMAIN t) <= SumFunctionOnSet(s, DOMAIN s) + n
<1> DEFINE e == [i \in 1 .. n |-> x]
           N == Len(s)
<1>1. e \in Seq(Nat) /\ Len(e) = n /\ \A i \in 1 .. n : e[i] = x
  OBVIOUS
<1>2. N \in Nat /\ DOMAIN s = 1 .. N /\ \A i \in 1 .. N : s[i] \in Nat
  OBVIOUS
<1>3. t = s \o e
  BY DEF Extended
<1> HIDE DEF e
<1>4. /\ t \in Seq(Nat) /\ Len(t) = N + n /\ DOMAIN t = 1 .. N + n
      /\ \A i \in 1 .. N : t[i] = s[i]
      /\ \A i \in 1 .. n : t[N + i] = x
  <2>1. /\ s \o e \in Seq(Nat) /\ Len(s \o e) = Len(s) + Len(e)
        /\ \A i \in 1 .. Len(s) : (s \o e)[i] = s[i]
        /\ \A i \in 1 .. Len(e) : (s \o e)[Len(s) + i] = e[i]
    BY <1>1
  <2> QED
    BY <1>1, <1>2, <1>3, <2>1
<1> HIDE DEF N
<1>5. \A m \in 0 .. n : \A i \in 1 .. N + m : t[i] \in Nat
  BY <1>2, <1>4
<1>6. SumFunctionOnSet(s, 1 .. N) \in Nat
  <2>1. IsFiniteSet(1 .. N)
    BY <1>2, FS_Interval
  <2> QED
    BY <1>2, <2>1, SumNat
<1>7. ASSUME x <= 1
      PROVE  SumFunctionOnSet(t, 1 .. N + n) <= SumFunctionOnSet(s, 1 .. N) + n
  <2> DEFINE Q(m) == /\ SumFunctionOnSet(t, 1 .. N + m) \in Nat
                     /\ SumFunctionOnSet(t, 1 .. N + m) <= SumFunctionOnSet(s, 1 .. N) + m
             T == {m \in Nat : m \in 0 .. n => Q(m)}
  <2>1. 0 \in T
    <3>1. IsFiniteSet(1 .. N)
      BY <1>2, FS_Interval
    <3>2. SumFunctionOnSet(t, 1 .. N) = SumFunctionOnSet(s, 1 .. N)
      BY <1>4, <3>1, SumSame
    <3>3. N + 0 = N
      BY <1>2
    <3> QED
      BY <1>6, <3>2, <3>3
  <2>2. ASSUME NEW m \in T PROVE m + 1 \in T
    <3> SUFFICES ASSUME m + 1 \in 0 .. n PROVE Q(m + 1)
      OBVIOUS
    <3>1. m \in 0 .. n /\ m \in Nat /\ m + 1 \in 1 .. n /\ m + 1 \in 0 .. n
      OBVIOUS
    <3>2. Q(m)
      BY <3>1
    <3> PICK M : M = N + m
      OBVIOUS
    <3>3. M \in Nat /\ N + (m + 1) = M + 1
      BY <1>2, <3>1
    <3>4. t[M + 1] = x
      BY <1>4, <3>1, <3>3
    <3>5. \A i \in 1 .. M : t[i] \in Nat
      BY <1>5, <3>1
    <3>6. SumFunctionOnSet(t, 1 .. M + 1) = SumFunctionOnSet(t, 1 .. M) + x
      BY <3>3, <3>4, <3>5, SumNext
    <3> QED
      BY <1>6, <1>7, <3>1, <3>2, <3>3, <3>6
  <2> HIDE DEF T, Q
  <2>3. T = Nat
    <3>1. T \in SUBSET Nat
      BY DEF T
    <3> QED
      BY <2>1, <2>2, <3>1, NatSetInduction
  <2>4. Q(n)
    BY <2>3 DEF T
  <2> QED
    BY <2>4 DEF Q
<1> QED
  BY <1>2, <1>4, <1>7 DEF N

\* e is c with what is in w written to one of its writers.
Written(c, e, key, w) ==
  e = [open |-> [c.open EXCEPT ![key] = w], outputs |-> c.outputs, created |-> c.created,
       tick |-> c.tick + 1, error |-> c.error]

LEMMA WrittenKept ==
  ASSUME NEW c, NEW o, NEW key, Kept(c, o, {key}), key \in DOMAIN c.open, NEW w \in Writer,
         w.part = c.open[key].part, WriterKept(w, c.created, o), 0 < w.batches,
         NEW e, Written(c, e, key, w)
  PROVE  /\ Kept(e, o, {}) /\ DOMAIN e.open = DOMAIN c.open /\ e.open[key] = w
         /\ \A k \in DOMAIN c.open : k # key => e.open[k] = c.open[k]
         /\ e.outputs = c.outputs /\ e.error = c.error
<1>0. CacheType(c)
  BY DEF Kept
<1>1. /\ e.open = [c.open EXCEPT ![key] = w] /\ e.outputs = c.outputs /\ e.created = c.created
      /\ e.tick = c.tick + 1 /\ e.error = c.error
  BY DEF Written
<1>2. /\ DOMAIN e.open = DOMAIN c.open /\ e.open[key] = w /\ e.open \in [DOMAIN e.open -> Writer]
      /\ \A k \in DOMAIN c.open : k # key => e.open[k] = c.open[k]
  BY <1>0, <1>1 DEF CacheType
<1>3. CacheType(e)
  <2>1. e = [open |-> e.open, outputs |-> e.outputs, created |-> e.created, tick |-> e.tick,
             error |-> e.error]
    BY DEF Written
  <2> QED
    BY <1>0, <1>1, <1>2, <2>1 DEF CacheType
<1>4. \A k \in DOMAIN e.open : WriterKept(e.open[k], e.created, o) /\ 0 < e.open[k].batches
  <2> TAKE k \in DOMAIN e.open
  <2>1. CASE k = key
    BY <1>1, <1>2, <2>1
  <2>2. CASE k # key
    BY <1>1, <1>2, <2>2 DEF Kept
  <2> QED
    BY <2>1, <2>2
<1>5. PartsOrdered(e)
  <2>1. \A k \in DOMAIN e.open : e.open[k].part = c.open[k].part
    BY <1>2
  <2> QED
    BY <1>1, <1>2, <2>1 DEF Kept, PartsOrdered
<1>6. /\ Cardinality(DOMAIN e.open) <= o.max_open_writers
      /\ Len(e.outputs) + Cardinality(DOMAIN e.open) <= e.created /\ e.created <= o.max_files
      /\ \A i \in DOMAIN e.outputs : OutputKept(e.outputs[i], e.created, o)
  BY <1>1, <1>2 DEF Kept
<1> QED
  BY <1>1, <1>2, <1>3, <1>4, <1>5, <1>6 DEF Kept

Associates(f, g, h) == f \o (g \o h) = (f \o g) \o h

LEMMA ConcatAssociates ==
  ASSUME NEW X, NEW f \in Seq(X), NEW g \in Seq(X), NEW h \in Seq(X)
  PROVE  Associates(f, g, h)
<1> DEFINE a == f \o (g \o h)
           b == (f \o g) \o h
           l == Len(f)  m == Len(g)  n == Len(h)
<1>1. l \in Nat /\ m \in Nat /\ n \in Nat
  OBVIOUS
<1>2. /\ g \o h \in Seq(X) /\ Len(g \o h) = m + n
      /\ \A q \in 1 .. m + n : (g \o h)[q] = IF q <= m THEN g[q] ELSE h[q - m]
  OBVIOUS
<1>3. /\ f \o g \in Seq(X) /\ Len(f \o g) = l + m
      /\ \A q \in 1 .. l + m : (f \o g)[q] = IF q <= l THEN f[q] ELSE g[q - l]
  OBVIOUS
<1>4. /\ a \in Seq(X) /\ Len(a) = l + (m + n)
      /\ \A q \in 1 .. l + (m + n) : a[q] = IF q <= l THEN f[q] ELSE (g \o h)[q - l]
  BY <1>2
<1>5. /\ b \in Seq(X) /\ Len(b) = (l + m) + n
      /\ \A q \in 1 .. (l + m) + n : b[q] = IF q <= l + m THEN (f \o g)[q] ELSE h[q - (l + m)]
  BY <1>3
<1> HIDE DEF l, m, n
<1>6. \A q \in 1 .. Len(b) : b[q] = a[q]
  <2> TAKE q \in 1 .. Len(b)
  <2>1. q \in 1 .. (l + m) + n /\ q \in 1 .. l + (m + n)
    BY <1>1, <1>5
  <2>2. CASE q <= l
    BY <1>1, <1>3, <1>4, <1>5, <2>1, <2>2
  <2>3. CASE l < q /\ q <= l + m
    BY <1>1, <1>2, <1>3, <1>4, <1>5, <2>1, <2>3
  <2>4. CASE l + m < q
    <3>1. q - (l + m) = (q - l) - m
      BY <1>1, <2>1
    <3> QED
      BY <1>1, <1>2, <1>3, <1>4, <1>5, <2>1, <2>4, <3>1
  <2>5. q <= l \/ (l < q /\ q <= l + m) \/ l + m < q
    BY <1>1, <2>1
  <2> QED
    BY <2>2, <2>3, <2>4, <2>5, Zenon
<1> HIDE DEF a, b
<1>7. a = b
  <2>1. Len(b) = Len(a)
    BY <1>1, <1>4, <1>5
  <2> QED
    BY <1>4, <1>5, <1>6, <2>1, SameElements
<1> QED
  BY <1>7 DEF a, b, Associates

LEMMA WrittenHolds ==
  ASSUME NEW c, NEW e, CacheType(c), CacheType(e), NEW key \in DOMAIN c.open, NEW ids \in Rows,
         DOMAIN e.open = DOMAIN c.open, e.open[key].ids = c.open[key].ids \o ids,
         \A k \in DOMAIN c.open : k # key => e.open[k] = c.open[k],
         e.outputs = c.outputs
  PROVE  /\ \A k \in Nat : StoredRows(e, k) = IF k = key THEN StoredRows(c, k) \o ids ELSE StoredRows(c, k)
         /\ Counted(e) = Counted(c) + Len(ids)
         /\ Load(e.open[key]) <= Load(c.open[key]) + Len(ids) =>
              memory(e) <= memory(c) + Len(ids)
<1>1. \A k \in Nat : StoredRows(e, k) = IF k = key THEN StoredRows(c, k) \o ids ELSE StoredRows(c, k)
  <2> TAKE k \in Nat
  <2>1. CASE k # key
    <3>1. k \in DOMAIN c.open => e.open[k] = c.open[k]
      BY <2>1
    <3>2. StoredRows(e, k) = StoredRows(c, k)
      BY <3>1, Zenon DEF StoredRows
    <3> QED
      BY <2>1, <3>2
  <2>2. CASE k = key
    <3> PICK f, r, s : f = Finished(c.outputs, k) /\ r = c.open[key].ids /\ s = r \o ids
      OBVIOUS
    <3>1. f \in Rows /\ r \in Rows
      BY StoredType
    <3>2. StoredRows(c, k) = f \o r /\ StoredRows(e, k) = f \o (r \o ids)
      BY <2>2 DEF StoredRows
    <3>3. f \o (r \o ids) = (f \o r) \o ids
      <4>1. Associates(f, r, ids)
        BY <3>1, ConcatAssociates DEF Rows
      <4> QED
        BY <4>1 DEF Associates
    <3> QED
      BY <2>2, <3>2, <3>3
  <2> QED
    BY <2>1, <2>2
<1> DEFINE nc == [k \in DOMAIN c.open |-> Len(c.open[k].ids)]
           ne == [k \in DOMAIN e.open |-> Len(e.open[k].ids)]
           lc == [k \in DOMAIN c.open |-> Load(c.open[k])]
           le == [k \in DOMAIN e.open |-> Load(e.open[k])]
<1>2. /\ memory(c) = SumFunctionOnSet(lc, DOMAIN c.open)
      /\ \A k \in DOMAIN c.open : c.open[k] \in Writer /\ lc[k] \in Nat /\ lc[k] = Load(c.open[k])
  BY MemoryIsLoads
<1>3. /\ memory(e) = SumFunctionOnSet(le, DOMAIN e.open)
      /\ \A k \in DOMAIN e.open : e.open[k] \in Writer /\ le[k] \in Nat /\ le[k] = Load(e.open[k])
  BY MemoryIsLoads
<1>4. \A k \in DOMAIN c.open : k # key => ne[k] = nc[k] /\ le[k] = lc[k]
  OBVIOUS
<1>5. \A k \in DOMAIN c.open : /\ nc[k] = Len(c.open[k].ids) /\ nc[k] \in Nat
                               /\ ne[k] = Len(e.open[k].ids) /\ ne[k] \in Nat
  <2> TAKE k \in DOMAIN c.open
  <2>1. c.open[k] \in Writer /\ e.open[k] \in Writer
    BY <1>2, <1>3
  <2>2. \A w \in Writer : Len(w.ids) \in Nat
    BY DEF Writer, Rows
  <2> QED
    BY <2>1, <2>2
<1>6. Counted(c) = SumFunctionOnSet([i \in DOMAIN c.outputs |-> c.outputs[i].rows], DOMAIN c.outputs)
                     + SumFunctionOnSet(nc, DOMAIN c.open)
  BY DEF Counted
<1>7. Counted(e) = SumFunctionOnSet([i \in DOMAIN c.outputs |-> c.outputs[i].rows], DOMAIN c.outputs)
                     + SumFunctionOnSet(ne, DOMAIN e.open)
  BY DEF Counted
<1>8. ne[key] = nc[key] + Len(ids) /\ Len(ids) \in Nat
  <2>1. c.open[key].ids \in Rows
    BY StoredType
  <2>2. Len(c.open[key].ids \o ids) = Len(c.open[key].ids) + Len(ids) /\ Len(ids) \in Nat
    BY <2>1 DEF Rows
  <2> QED
    BY <1>5, <2>2
<1>81. SumFunctionOnSet([i \in DOMAIN c.outputs |-> c.outputs[i].rows], DOMAIN c.outputs) \in Nat
  <2>1. IsFiniteSet(DOMAIN c.outputs)
    <3>1. c.outputs \in Seq(Done) /\ Len(c.outputs) \in Nat
      BY DEF CacheType
    <3>2. DOMAIN c.outputs = 1 .. Len(c.outputs)
      BY <3>1
    <3> QED
      BY <3>1, <3>2, FS_Interval
  <2> DEFINE rc == [i \in DOMAIN c.outputs |-> c.outputs[i].rows]
  <2>2. \A i \in DOMAIN c.outputs : rc[i] \in Nat
    BY OutputTypes
  <2> HIDE DEF rc
  <2>3. SumFunctionOnSet(rc, DOMAIN c.outputs) \in Nat
    BY <2>1, <2>2, SumNat
  <2> QED
    BY <2>3 DEF rc
<1> HIDE DEF nc, ne, lc, le
<1> PICK S, T : S = DOMAIN c.open /\ T = DOMAIN c.open \ {key}
  OBVIOUS
<1>9. IsFiniteSet(S) /\ key \in S /\ T = S \ {key}
  BY DEF CacheType
<1>10. /\ \A k \in S : nc[k] \in Nat /\ lc[k] \in Nat
       /\ \A k \in S : ne[k] \in Nat /\ le[k] \in Nat
  BY <1>2, <1>3, <1>5
<1>11. \A k \in T : nc[k] = ne[k] /\ lc[k] = le[k]
  BY <1>4
<1>12. (\A k \in S : nc[k] \in Nat) /\ (\A k \in T : nc[k] = nc[k])
  BY <1>10
<1>13. (\A k \in S : ne[k] \in Nat) /\ (\A k \in T : nc[k] = ne[k])
  BY <1>10, <1>11
<1>14. (\A k \in S : lc[k] \in Nat) /\ (\A k \in T : lc[k] = lc[k])
  BY <1>10
<1>15. (\A k \in S : le[k] \in Nat) /\ (\A k \in T : lc[k] = le[k])
  BY <1>10, <1>11
<1>16. LessElement(nc, T, nc, S, key) /\ LessElement(nc, T, ne, S, key)
  <2>1. LessElement(nc, T, nc, S, key)
    BY <1>9, <1>12, SumLessElement
  <2>2. LessElement(nc, T, ne, S, key)
    BY <1>9, <1>13, SumLessElement
  <2> QED
    BY <2>1, <2>2
<1>17. LessElement(lc, T, lc, S, key) /\ LessElement(lc, T, le, S, key)
  <2>1. LessElement(lc, T, lc, S, key)
    BY <1>9, <1>14, SumLessElement
  <2>2. LessElement(lc, T, le, S, key)
    BY <1>9, <1>15, SumLessElement
  <2> QED
    BY <2>1, <2>2
<1>18. SumFunctionOnSet(ne, S) = SumFunctionOnSet(nc, S) + Len(ids) /\ SumFunctionOnSet(nc, S) \in Nat
  BY <1>8, <1>9, <1>10, <1>16 DEF LessElement
<1>19. Counted(e) = Counted(c) + Len(ids)
  BY <1>6, <1>7, <1>8, <1>81, <1>18
<1>20. ASSUME Load(e.open[key]) <= Load(c.open[key]) + Len(ids)
       PROVE  memory(e) <= memory(c) + Len(ids)
  <2>1. le[key] <= lc[key] + Len(ids)
    BY <1>2, <1>3, <1>20
  <2>2. /\ memory(e) = SumFunctionOnSet(lc, T) + le[key]
        /\ memory(c) = SumFunctionOnSet(lc, T) + lc[key]
        /\ SumFunctionOnSet(lc, T) \in Nat /\ lc[key] \in Nat /\ le[key] \in Nat
    BY <1>2, <1>3, <1>9, <1>10, <1>17 DEF LessElement
  <2> QED
    BY <1>8, <2>1, <2>2
<1> QED
  BY <1>1, <1>19, <1>20

\* d is c with rows stored in a partition.
Wrote(c, d, key, ids, o) ==
  /\ Kept(d, o, {}) /\ NotFull(d, o) /\ d.error = "none"
  /\ \A k \in Nat : StoredRows(d, k) = IF k = key THEN StoredRows(c, k) \o ids ELSE StoredRows(c, k)
  /\ Counted(d) = Counted(c) + Len(ids)
  /\ memory(d) <= writer_budget(o)

\* A fragment that is full is closed.
LEMMA ClosedFull ==
  ASSUME NEW c, NEW e, NEW o, Allowed(o), NEW key \in DOMAIN e.open, Kept(e, o, {}), e.error = "none",
         \A k \in DOMAIN e.open : k # key => Len(e.open[k].ids) < o.row_group_rows,
         NEW ids,
         \A k \in Nat : StoredRows(e, k) = IF k = key THEN StoredRows(c, k) \o ids ELSE StoredRows(c, k),
         Counted(e) = Counted(c) + Len(ids), memory(e) <= writer_budget(o)
  PROVE  /\ Len(e.open[key].ids) < o.row_group_rows => Wrote(c, e, key, ids, o)
         /\ Wrote(c, close(e, key), key, ids, o)
<1>1. Len(e.open[key].ids) < o.row_group_rows => Wrote(c, e, key, ids, o)
  BY DEF Wrote, NotFull
<1> PICK d : d = close(e, key)
  OBVIOUS
<1>2. CacheType(e) /\ 0 < e.open[key].batches
  BY DEF Kept
<1>3. /\ Kept(d, o, {}) /\ DOMAIN d.open = DOMAIN e.open \ {key}
      /\ \A k \in DOMAIN d.open : d.open[k] = e.open[k]
  BY <1>2, CloseKeeps, ZenonT(30)
<1>4. NotFull(d, o)
  <2>1. \A k \in DOMAIN d.open : k \in DOMAIN e.open /\ k # key /\ d.open[k] = e.open[k]
    BY <1>3
  <2> QED
    BY <2>1 DEF NotFull
<1>5. \A k \in Nat : StoredRows(d, k) = StoredRows(e, k)
  BY <1>2, CloseStored
<1>6. Counted(d) = Counted(e) /\ memory(d) <= memory(e)
  <2>1. \A i \in DOMAIN e.outputs : e.outputs[i].rows \in Nat
    BY <1>2, OutputTypes
  <2> QED
    BY <1>2, <2>1, CloseCounted
<1>7. d.error = e.error
  BY <1>2, CloseIs
<1>8. memory(d) <= writer_budget(o)
  <2>1. memory(d) \in Nat /\ memory(e) \in Nat /\ writer_budget(o) \in Nat
    BY <1>2, <1>3, MemoryIsLoads DEF Kept, Allowed
  <2> QED
    BY <1>6, <2>1
<1>9. /\ \A k \in Nat : StoredRows(d, k) = IF k = key THEN StoredRows(c, k) \o ids ELSE StoredRows(c, k)
      /\ Counted(d) = Counted(c) + Len(ids)
  BY <1>5, <1>6
<1> QED
  BY <1>1, <1>3, <1>4, <1>7, <1>8, <1>9 DEF Wrote

IsBatch(b) == b.key \in Nat /\ b.weight \in Nat /\ b.ids \in Rows

LEMMA PartOf ==
  ASSUME NEW s \in Rows, NEW a \in Nat, NEW n \in Nat, a + n <= Len(s)
  PROVE  SubSeq(s, a + 1, a + n) \in Rows /\ Len(SubSeq(s, a + 1, a + n)) = n
<1>1. s \in Seq(Nat \X Nat) /\ Len(s) \in Nat
  BY DEF Rows
<1>2. SubSeq(s, a + 1, a + n) = [q \in 1 .. n |-> s[a + q]]
  BY <1>1
<1> DEFINE t == [q \in 1 .. n |-> s[a + q]]
<1>3. \A q \in 1 .. n : s[a + q] \in Nat \X Nat
  BY <1>1
<1>4. t \in Seq(Nat \X Nat) /\ Len(t) = n
  BY <1>3
<1> QED
  BY <1>2, <1>4 DEF Rows

LEMMA CountedNat ==
  ASSUME NEW c, CacheType(c)
  PROVE  Counted(c) \in Nat
<1> DEFINE rc == [i \in DOMAIN c.outputs |-> c.outputs[i].rows]
           nc == [k \in DOMAIN c.open |-> Len(c.open[k].ids)]
<1>1. IsFiniteSet(DOMAIN c.outputs)
  <2> PICK n : n = Len(c.outputs)
    OBVIOUS
  <2>1. n \in Nat /\ DOMAIN c.outputs = 1 .. n
    BY DEF CacheType
  <2>2. IsFiniteSet(1 .. n)
    BY <2>1, FS_Interval
  <2> QED
    BY <2>1, <2>2
<1>2. \A i \in DOMAIN c.outputs : rc[i] \in Nat
  BY OutputTypes
<1>3. IsFiniteSet(DOMAIN c.open)
  BY DEF CacheType
<1>4. \A k \in DOMAIN c.open : nc[k] \in Nat
  <2>1. \A w \in Writer : Len(w.ids) \in Nat
    BY DEF Writer, Rows
  <2> QED
    BY <2>1 DEF CacheType
<1>5. Counted(c) = SumFunctionOnSet(rc, DOMAIN c.outputs) + SumFunctionOnSet(nc, DOMAIN c.open)
  BY DEF Counted
<1> HIDE DEF rc, nc
<1>6. SumFunctionOnSet(rc, DOMAIN c.outputs) \in Nat /\ SumFunctionOnSet(nc, DOMAIN c.open) \in Nat
  BY <1>1, <1>2, <1>3, <1>4, SumNat
<1> QED
  BY <1>5, <1>6

LEMMA ConcatType ==
  ASSUME NEW X, NEW f \in Seq(X), NEW g \in Seq(X)
  PROVE  /\ f \o g \in Seq(X) /\ Len(f \o g) = Len(f) + Len(g)
         /\ \A q \in 1 .. Len(f) : (f \o g)[q] = f[q]
         /\ \A q \in 1 .. Len(g) : (f \o g)[Len(f) + q] = g[q]
  OBVIOUS

\* Some of the rows that were asked for are written, or that is too much.
ChunkWritten(c, r, b, offset, count, o) ==
  \E n \in 1 .. count :
    /\ r = [cache |-> r.cache, offset |-> offset + n]
    /\ \/ Wrote(c, r.cache, b.key, SubSeq(b.ids, offset + 1, offset + n), o)
       \/ /\ InLimits(r.cache, o) /\ r.cache.error = "writer bytes"
          /\ ~(b.weight <= 1 /\ memory(c) + count <= writer_budget(o))

LEMMA WriteChunkKeeps ==
  ASSUME NEW c, NEW b, IsBatch(b), NEW o, Allowed(o), Kept(c, o, {b.key}), NotFull(c, o), c.error = "none",
         b.key \in DOMAIN c.open, NEW offset \in Nat, NEW count \in Nat, count # 0,
         offset + count <= Len(b.ids)
  PROVE  ChunkWritten(c, WriteChunk(c, b, offset, count, o), b, offset, count, o)
<1>30. PICK w : w = c.open[b.key]
  OBVIOUS
<1>35. PICK n : n = Min({count, o.row_group_rows - Len(w.ids)})
  OBVIOUS
<1>31. PICK ids : ids = SubSeq(b.ids, offset + 1, offset + n)
  OBVIOUS
<1>32. PICK more : more = [i \in 1 .. n |-> b.weight]
  OBVIOUS
<1>33. PICK v : v = [w EXCEPT !.ids = @ \o ids, !.weights = @ \o more,
                           !.batches = @ + 1, !.tick = c.tick + 1]
  OBVIOUS
<1>34. PICK e : e = [c EXCEPT !.open[b.key] = v, !.tick = @ + 1]
  OBVIOUS
<1>36. PICK d : d = CASE memory(e) > writer_budget(o) -> Fail(e, "writer bytes")
                   [] memory(e) <= writer_budget(o) /\ Len(v.ids) = o.row_group_rows ->
                        close(e, b.key)
                   [] OTHER -> e
  OBVIOUS
<1>1. WriteChunk(c, b, offset, count, o) = [cache |-> d, offset |-> offset + n]
  BY <1>30, <1>31, <1>32, <1>33, <1>34, <1>35, <1>36, Zenon DEF WriteChunk
<1>2. CacheType(c) /\ w \in Writer /\ WriterKept(w, c.created, o) /\ c.created \in Nat
  BY <1>30 DEF Kept, CacheType
<1>3. /\ w.ids \in Rows /\ w.weights \in Seq(Nat) /\ w.batches \in Nat /\ w.part \in Nat /\ w.tick \in Nat
      /\ Len(w.ids) \in Nat /\ Len(w.weights) = Len(w.ids) /\ w.batches <= Len(w.ids)
      /\ w = [part |-> w.part, ids |-> w.ids, weights |-> w.weights, batches |-> w.batches, tick |-> w.tick]
  BY <1>2 DEF Writer, WriterKept, Rows
<1>4. Len(w.ids) < o.row_group_rows /\ o.row_group_rows \in Nat
  BY <1>30 DEF NotFull, Allowed
<1>5. n \in 1 .. count /\ n \in Nat /\ Len(w.ids) + n <= o.row_group_rows
  <2>1. o.row_group_rows - Len(w.ids) \in Nat /\ o.row_group_rows - Len(w.ids) # 0
    BY <1>3, <1>4, SMTT(30)
  <2>2. n = IF count <= o.row_group_rows - Len(w.ids) THEN count ELSE o.row_group_rows - Len(w.ids)
    BY <1>35, <2>1, WriterBounds
  <2> QED
    BY <1>3, <1>4, <2>1, <2>2
<1>6. ids \in Rows /\ Len(ids) = n
  <2>1. offset + n <= Len(b.ids) /\ b.ids \in Rows
    <3>1. b.ids \in Rows /\ Len(b.ids) \in Nat
      BY DEF IsBatch, Rows
    <3> QED
      BY <1>5, <3>1
  <2> QED
    BY <1>5, <1>31, <2>1, PartOf
<1>7. b.weight \in Nat /\ b.key \in Nat
  BY DEF IsBatch
<1>37. PICK t : t = w.weights \o more
  OBVIOUS
<1>8. /\ t \in Seq(Nat) /\ Len(t) = Len(w.weights) + n
      /\ b.weight <= 1 => SumFunctionOnSet(t, DOMAIN t) <= SumFunctionOnSet(w.weights, DOMAIN w.weights) + n
  <2>1. t = w.weights \o [i \in 1 .. n |-> b.weight]
    BY <1>32, <1>37
  <2> PICK u, x : u = w.weights /\ x = b.weight
    OBVIOUS
  <2>2. u \in Seq(Nat) /\ x \in Nat /\ n \in Nat /\ Extended(t, u, n, x)
    BY <1>3, <1>5, <1>7, <2>1 DEF Extended
  <2>3. /\ t \in Seq(Nat) /\ Len(t) = Len(u) + n
        /\ x <= 1 => SumFunctionOnSet(t, DOMAIN t) <= SumFunctionOnSet(u, DOMAIN u) + n
    BY <2>2, LoadGrows
  <2> QED
    BY <2>3
<1>38. PICK rows : rows = w.ids \o ids
  OBVIOUS
<1>9. rows \in Rows /\ Len(rows) = Len(w.ids) + n
  <2> PICK u : u = w.ids
    OBVIOUS
  <2>1. u \in Rows /\ rows = u \o ids
    BY <1>3, <1>38
  <2>2. u \o ids \in Rows /\ Len(u \o ids) = Len(u) + Len(ids)
    BY <1>6, <2>1, ConcatType, ZenonT(30) DEF Rows
  <2> QED
    BY <1>6, <2>1, <2>2
<1>10. v = [part |-> w.part, ids |-> rows, weights |-> t, batches |-> w.batches + 1, tick |-> c.tick + 1]
  BY <1>3, <1>33, <1>37, <1>38
<1>11. c.tick + 1 \in Nat
  BY <1>2 DEF CacheType
<1>12. v \in Writer /\ v.part = w.part /\ v.ids = rows /\ v.weights = t /\ v.batches = w.batches + 1
  BY <1>3, <1>8, <1>9, <1>10, <1>11 DEF Writer
<1>13. WriterKept(v, c.created, o) /\ 0 < v.batches
  <2>1. w.part < c.created /\ Len(w.ids) \in Nat /\ w.batches \in Nat /\ w.batches <= Len(w.ids)
    BY <1>2, <1>3 DEF WriterKept
  <2>2. Len(v.weights) = Len(v.ids) /\ v.part < c.created
    BY <1>3, <1>8, <1>9, <1>12, <2>1
  <2>3. w.batches + 1 <= Len(w.ids) + n /\ 0 < w.batches + 1
    BY <1>5, <2>1
  <2>4. v.batches <= Len(v.ids) /\ Len(v.ids) <= o.row_group_rows /\ 0 < v.batches
    BY <1>5, <1>9, <1>12, <2>3
  <2> QED
    BY <2>2, <2>4 DEF WriterKept
<1>14. Written(c, e, b.key, v)
  BY <1>2, <1>34 DEF Written, CacheType
<1>15. /\ Kept(e, o, {}) /\ DOMAIN e.open = DOMAIN c.open /\ e.open[b.key] = v
       /\ \A k \in DOMAIN c.open : k # b.key => e.open[k] = c.open[k]
       /\ e.outputs = c.outputs /\ e.error = c.error
  <2> PICK key : key = b.key
    OBVIOUS
  <2>1. /\ Kept(c, o, {key}) /\ key \in DOMAIN c.open /\ v.part = c.open[key].part
        /\ Written(c, e, key, v)
    BY <1>12, <1>14, <1>30
  <2>2. Kept(e, o, {})
    BY <1>12, <1>13, <2>1, WrittenKept
  <2> QED
    BY <2>1, <2>2 DEF Written
<1>16. CacheType(e)
  BY <1>15 DEF Kept
<1>17. /\ \A k \in Nat : StoredRows(e, k) = IF k = b.key THEN StoredRows(c, k) \o ids ELSE StoredRows(c, k)
       /\ Counted(e) = Counted(c) + Len(ids)
       /\ Load(e.open[b.key]) <= Load(c.open[b.key]) + Len(ids) =>
            memory(e) <= memory(c) + Len(ids)
  <2>1. e.open[b.key].ids = c.open[b.key].ids \o ids
    BY <1>12, <1>15, <1>30, <1>38
  <2> QED
    BY <1>2, <1>6, <1>15, <1>16, <2>1, WrittenHolds
<1>18. memory(e) \in Nat /\ memory(c) \in Nat /\ writer_budget(o) \in Nat
  BY <1>2, <1>16, MemoryIsLoads DEF Allowed
<1>19. ASSUME b.weight <= 1
       PROVE  memory(e) <= memory(c) + count
  <2> PICK x, y : x = SumFunctionOnSet(t, DOMAIN t) /\ y = SumFunctionOnSet(w.weights, DOMAIN w.weights)
    OBVIOUS
  <2>1. Load(v) = x + FileReserve /\ Load(w) = y + FileReserve
    BY <1>12 DEF Load
  <2>2. x \in Nat /\ y \in Nat
    BY <1>3, <1>8, SumOfSeq
  <2>3. Load(v) <= Load(w) + n
    BY <1>5, <1>8, <1>19, <2>1, <2>2, ReserveAssumption DEF ReserveAssumption
  <2>4. memory(e) <= memory(c) + n
    BY <1>6, <1>15, <1>17, <1>30, <2>3
  <2> QED
    BY <1>5, <1>18, <2>4
<1>20. Wrote(c, d, b.key, ids, o) \/ (/\ InLimits(d, o) /\ d.error = "writer bytes"
                                      /\ ~(b.weight <= 1 /\ memory(c) + count <= writer_budget(o)))
  <2>1. CASE memory(e) > writer_budget(o)
    <3>1. d = Fail(e, "writer bytes")
      <4>1. ~(memory(e) <= writer_budget(o) /\ Len(v.ids) = o.row_group_rows)
        BY <1>18, <2>1
      <4> QED
        BY <1>36, <2>1, <4>1, Zenon
    <3>2. InLimits(d, o) /\ d.error = "writer bytes"
      BY <1>15, <3>1, FailBounded DEF Errors
    <3>3. ~(b.weight <= 1 /\ memory(c) + count <= writer_budget(o))
      BY <1>18, <1>19, <2>1
    <3> QED
      BY <3>2, <3>3
  <2>2. CASE ~(memory(e) > writer_budget(o))
    <3>1. memory(e) <= writer_budget(o)
      BY <1>18, <2>2
    <3>2. \A k \in DOMAIN e.open : k # b.key => Len(e.open[k].ids) < o.row_group_rows
      BY <1>15 DEF NotFull
    <3>3. /\ Len(e.open[b.key].ids) < o.row_group_rows => Wrote(c, e, b.key, ids, o)
          /\ Wrote(c, close(e, b.key), b.key, ids, o)
      BY <1>15, <1>17, <3>1, <3>2, ClosedFull
    <3>4. Len(v.ids) = o.row_group_rows \/ Len(v.ids) < o.row_group_rows
      BY <1>3, <1>4, <1>5, <1>9, <1>12
    <3>5. d = IF Len(v.ids) = o.row_group_rows THEN close(e, b.key) ELSE e
      BY <1>36, <2>2, <3>1
    <3> QED
      BY <1>15, <3>3, <3>4, <3>5
  <2> QED
    BY <2>1, <2>2
<1> PICK r : r = WriteChunk(c, b, offset, count, o)
  OBVIOUS
<1>21. r.cache = d /\ r = [cache |-> r.cache, offset |-> offset + n]
  BY <1>1
<1>22. \/ Wrote(c, r.cache, b.key, SubSeq(b.ids, offset + 1, offset + n), o)
       \/ /\ InLimits(r.cache, o) /\ r.cache.error = "writer bytes"
          /\ ~(b.weight <= 1 /\ memory(c) + count <= writer_budget(o))
  BY <1>20, <1>21, <1>31, Zenon
<1> QED
  BY <1>5, <1>21, <1>22, Zenon DEF ChunkWritten

JoinsTo(f, g, h) == f \o g = h

LEMMA PrefixGrows ==
  ASSUME NEW s \in Rows, NEW a \in Nat, NEW n \in Nat, a + n <= Len(s)
  PROVE  /\ SubSeq(s, 1, a) \in Rows /\ Len(SubSeq(s, 1, a)) = a
         /\ JoinsTo(SubSeq(s, 1, a), SubSeq(s, a + 1, a + n), SubSeq(s, 1, a + n))
<1>1. Len(s) \in Nat
  BY DEF Rows
<1>2. \A m \in 0 .. Len(s) :
        /\ SubSeq(s, 1, m) \in Rows /\ Len(SubSeq(s, 1, m)) = m
        /\ \A q \in 1 .. m : SubSeq(s, 1, m)[q] = s[q]
  <2> TAKE m \in 0 .. Len(s)
  <2>1. s \in Seq(Nat \X Nat) /\ m \in Nat /\ m <= Len(s)
    BY <1>1 DEF Rows
  <2>2. \A q \in 1 .. m : s[q] \in Nat \X Nat
    BY <1>1, <2>1
  <2>4. SubSeq(s, 1, m) = [q \in 1 .. m |-> s[q]]
    BY <1>1, <2>1
  <2> DEFINE t == [q \in 1 .. m |-> s[q]]
  <2>6. t \in Seq(Nat \X Nat) /\ Len(t) = m
    BY <2>1, <2>2
  <2>3. SubSeq(s, 1, m) \in Rows /\ Len(SubSeq(s, 1, m)) = m
    BY <2>4, <2>6 DEF Rows
  <2>5. \A q \in 1 .. m : SubSeq(s, 1, m)[q] = s[q]
    BY <2>4
  <2> QED
    BY <2>3, <2>5
<1>3. /\ SubSeq(s, a + 1, a + n) \in Rows /\ Len(SubSeq(s, a + 1, a + n)) = n
      /\ \A q \in 1 .. n : SubSeq(s, a + 1, a + n)[q] = s[a + q]
  <2>1. SubSeq(s, a + 1, a + n) = [q \in 1 .. n |-> s[a + q]]
    BY <1>1 DEF Rows
  <2>2. \A q \in 1 .. n : SubSeq(s, a + 1, a + n)[q] = s[a + q]
    BY <2>1
  <2> QED
    BY <2>2, PartOf
<1> DEFINE f == SubSeq(s, 1, a)
           g == SubSeq(s, a + 1, a + n)
           h == SubSeq(s, 1, a + n)
<1>4. /\ f \in Rows /\ Len(f) = a /\ \A q \in 1 .. a : f[q] = s[q]
      /\ h \in Rows /\ Len(h) = a + n /\ \A q \in 1 .. a + n : h[q] = s[q]
  <2>1. a \in 0 .. Len(s) /\ a + n \in 0 .. Len(s)
    BY <1>1
  <2> QED
    BY <1>2, <2>1
<1> HIDE DEF f, g, h
<1>5. /\ g \in Rows /\ Len(g) = n /\ \A q \in 1 .. n : g[q] = s[a + q]
  BY <1>3 DEF g
<1> PICK X : X = Nat \X Nat
  OBVIOUS
<1>61. f \in Seq(X) /\ g \in Seq(X)
  BY <1>4, <1>5 DEF Rows
<1>6. /\ f \o g \in Seq(X) /\ Len(f \o g) = a + n
      /\ \A q \in 1 .. a : (f \o g)[q] = f[q]
      /\ \A q \in 1 .. n : (f \o g)[a + q] = g[q]
  <2>1. /\ f \o g \in Seq(X) /\ Len(f \o g) = Len(f) + Len(g)
        /\ \A q \in 1 .. Len(f) : (f \o g)[q] = f[q]
        /\ \A q \in 1 .. Len(g) : (f \o g)[Len(f) + q] = g[q]
    BY <1>61, ConcatType
  <2> QED
    BY <1>4, <1>5, <2>1
<1> PICK t : t = f \o g
  OBVIOUS
<1>7. \A q \in 1 .. Len(t) : t[q] = h[q]
  <2> TAKE q \in 1 .. Len(t)
  <2>1. q \in 1 .. a + n
    BY <1>6
  <2>4. CASE q <= a
    <3>0. q \in 1 .. a
      BY <2>1, <2>4
    <3>1. t[q] = f[q]
      BY <1>6, <3>0, Zenon
    <3> QED
      BY <1>4, <2>1, <2>4, <3>1
  <2>5. CASE ~(q <= a)
    <3> PICK p : p = q - a
      OBVIOUS
    <3>1. p \in 1 .. n /\ a + p = q
      BY <2>1, <2>5
    <3>2. t[q] = g[p]
      BY <1>6, <3>1
    <3> QED
      BY <1>4, <1>5, <2>1, <3>1, <3>2
  <2> QED
    BY <2>4, <2>5
<1>8. f \o g = h
  <2>1. h \in Seq(X) /\ t \in Seq(X) /\ Len(h) = Len(t)
    BY <1>4, <1>6 DEF Rows
  <2> QED
    BY <1>7, <2>1, SameElements
<1> QED
  BY <1>4, <1>8, Zenon DEF JoinsTo, f, g, h

LEMMA WroteAfter ==
  ASSUME NEW c, CacheType(c), NEW d, NEW e, NEW f, NEW key, NEW ids \in Rows, NEW more \in Rows, NEW all,
         NEW o, Wrote(c, d, key, ids, o), SameRows(d, e), Wrote(e, f, key, more, o),
         JoinsTo(ids, more, all)
  PROVE  Wrote(c, f, key, all, o)
<1>1. all = ids \o more
  BY DEF JoinsTo
<1>2. ids \o more \in Rows /\ Len(ids \o more) = Len(ids) + Len(more)
  BY ConcatType DEF Rows
<1>3. \A k \in Nat : StoredRows(f, k) = IF k = key THEN StoredRows(c, k) \o all ELSE StoredRows(c, k)
  <2> TAKE k \in Nat
  <2>1. CASE k # key
    BY <2>1 DEF Wrote, SameRows
  <2>2. CASE k = key
    <3> PICK r : r = StoredRows(c, k)
      OBVIOUS
    <3>1. r \in Rows
      BY StoredType
    <3>2. StoredRows(f, k) = (r \o ids) \o more
      BY <2>2 DEF Wrote, SameRows
    <3>3. Associates(r, ids, more)
      BY <3>1, ConcatAssociates DEF Rows
    <3> QED
      BY <1>1, <2>2, <3>2, <3>3 DEF Associates
  <2> QED
    BY <2>1, <2>2
<1>4. Counted(f) = Counted(c) + Len(all)
  <2>1. Counted(f) = (Counted(c) + Len(ids)) + Len(more)
    BY DEF Wrote, SameRows
  <2>2. Counted(c) \in Nat
    BY CountedNat
  <2>3. Len(ids) \in Nat /\ Len(more) \in Nat
    BY DEF Rows
  <2> QED
    BY <1>1, <1>2, <2>1, <2>2, <2>3
<1> QED
  BY <1>3, <1>4 DEF Wrote

LEMMA LeastOfThree ==
  ASSUME NEW a \in Nat, NEW b \in Nat, NEW c \in Nat, a # 0, b # 0, c # 0, NEW m,
         m = IF a <= b /\ a <= c THEN a ELSE IF b <= c THEN b ELSE c
  PROVE  m \in Nat /\ m # 0 /\ m <= a /\ m <= c
  OBVIOUS

LEMMA ChunkFits ==
  ASSUME NEW o, Allowed(o), NEW rest \in Nat, rest # 0, NEW count,
         count = Min({rest, o.row_group_rows,
                   Max({1, Min({MaxChunk, writer_budget(o) \div ChunkDivisor})})})
  PROVE  count \in Nat /\ count # 0 /\ count <= rest /\ count + FileReserve <= writer_budget(o)
<1>1. PICK limit : limit = writer_budget(o)
  OBVIOUS
<1>2. PICK half : half = limit \div 2
  OBVIOUS
<1>3. limit \in Nat /\ 2 * FileReserve <= limit /\ FileReserve \in Nat /\ FileReserve # 0
  BY <1>1, ReserveAssumption DEF Allowed, ReserveAssumption
<1>4. half \in Nat /\ FileReserve <= half /\ 2 * half <= limit
  BY <1>2, <1>3
<1>5. PICK least : least = Min({256, half})
  OBVIOUS
<1>6. least \in Nat /\ least <= half /\ least # 0
  <2>1. least = IF 256 <= half THEN 256 ELSE half
    BY <1>4, <1>5, WriterBounds
  <2> QED
    BY <1>3, <1>4, <2>1
<1>7. Max({1, least}) = least
  <2>1. Max({1, least}) = IF 1 <= least THEN least ELSE 1
    BY <1>6, WriterBounds
  <2> QED
    BY <1>6, <2>1
<1>8. PICK r : r = o.row_group_rows
  OBVIOUS
<1>9. r \in Nat /\ r # 0
  BY <1>8 DEF Allowed
<1>10. count = Min({rest, r, least})
  <2>1. MaxChunk = 256 /\ writer_budget(o) \div ChunkDivisor = half
    BY <1>1, <1>2 DEF MaxChunk, ChunkDivisor
  <2> QED
    BY <1>5, <1>7, <1>8, <2>1
<1>11. count = IF rest <= r /\ rest <= least THEN rest ELSE IF r <= least THEN r ELSE least
  BY <1>6, <1>9, <1>10, WriterBounds
<1>12. count \in Nat /\ count # 0 /\ count <= rest /\ count <= least
  BY <1>6, <1>9, <1>11, LeastOfThree
<1> QED
  BY <1>1, <1>3, <1>4, <1>6, <1>12

-----------------------------------------------------------------------------
(* Writing a batch.                                                        *)

Weighs(b, o) == b.weight <= 1 /\ Len(b.ids) * b.weight <= writer_budget(o)

\* The first rows of a batch are stored, or it failed.
Chunked(c, b, o, at) ==
  /\ at = [cache |-> at.cache, offset |-> at.offset] /\ at.offset \in 0 .. Len(b.ids)
  /\ \/ Wrote(c, at.cache, b.key, SubSeq(b.ids, 1, at.offset), o)
     \/ /\ InLimits(at.cache, o) /\ at.cache.error # "none"
        /\ Weighs(b, o) => at.cache.error = "output files"

LEMMA NextChunkKeeps ==
  ASSUME NEW c, CacheType(c), NEW b, IsBatch(b), NEW o, Allowed(o), NEW at, Chunked(c, b, o, at),
         at.offset # Len(b.ids), at.cache.error = "none"
  PROVE  LET next == NextChunk(at, b, o)
         IN Chunked(c, b, o, next) /\ (at.offset < next.offset \/ next.cache.error # "none")
<1>1. PICK d, offset : d = at.cache /\ offset = at.offset
  OBVIOUS
<1>2. PICK key, limit : key = b.key /\ limit = writer_budget(o)
  OBVIOUS
<1>3. /\ offset \in Nat /\ offset <= Len(b.ids) /\ offset # Len(b.ids) /\ Len(b.ids) \in Nat
      /\ b.ids \in Rows /\ key \in Nat /\ b.weight \in Nat
      /\ at = [cache |-> d, offset |-> offset]
  BY <1>1, <1>2 DEF Chunked, IsBatch, Rows
<1>4. Wrote(c, d, key, SubSeq(b.ids, 1, offset), o)
  BY <1>1, <1>2 DEF Chunked
<1>5. PICK count :
        count = Min({Len(b.ids) - offset, o.row_group_rows,
                  Max({1, Min({MaxChunk, writer_budget(o) \div ChunkDivisor})})})
  OBVIOUS
<1>6. count \in Nat /\ count # 0 /\ offset + count <= Len(b.ids) /\ count + FileReserve <= limit
  <2>1. PICK rest : rest = Len(b.ids) - offset
    OBVIOUS
  <2>2. rest \in Nat /\ rest # 0
    BY <1>3, <2>1
  <2>3. count = Min({rest, o.row_group_rows,
                  Max({1, Min({MaxChunk, writer_budget(o) \div ChunkDivisor})})})
    BY <1>5, <2>1, Zenon
  <2>4. count \in Nat /\ count # 0 /\ count <= rest /\ count + FileReserve <= writer_budget(o)
    BY <2>2, <2>3, ChunkFits
  <2> QED
    BY <1>2, <1>3, <2>1, <2>4
<1>7. PICK reserve : reserve = count + FileReserve
  OBVIOUS
<1>8. reserve \in Nat /\ limit \in Nat /\ reserve <= limit /\ FileReserve \in Nat
  BY <1>2, <1>6, <1>7, ReserveAssumption DEF Allowed, ReserveAssumption
<1>9. PICK roomy : roomy = EvictFor(d, reserve, limit)
  OBVIOUS
<1>10. PICK opened : opened = OpenWriter(roomy, key, o)
  OBVIOUS
<1>11. PICK r : r = WriteChunk(opened, b, offset, count, o)
  OBVIOUS
<1>12. PICK next : next = NextChunk(at, b, o)
  OBVIOUS
<1>13. next = CASE reserve > limit -> [at EXCEPT !.cache = Fail(@, "writer reservation bytes")]
                [] reserve <= limit /\ opened.error # "none" -> [at EXCEPT !.cache = opened]
                [] OTHER -> r
  <2>1. at.offset = offset /\ at.cache = d
    BY <1>1
  <2> QED
    BY <1>2, <1>5, <1>7, <1>9, <1>10, <1>11, <1>12, <2>1, Zenon DEF NextChunk
<1>14. next = IF opened.error # "none" THEN [cache |-> opened, offset |-> offset] ELSE r
  <2>1. ~(reserve > limit)
    BY <1>8
  <2>2. CASE opened.error # "none"
    <3>1. next = [at EXCEPT !.cache = opened]
      BY <1>8, <1>13, <2>1, <2>2, Zenon
    <3> QED
      BY <1>3, <2>2, <3>1
  <2>3. CASE ~(opened.error # "none")
    BY <1>13, <2>1, <2>3, Zenon
  <2> QED
    BY <2>2, <2>3
<1>15. Kept(d, o, {}) /\ NotFull(d, o) /\ d.error = "none" /\ CacheType(d)
  BY <1>4 DEF Wrote, Kept
<1>16. Reached(d, roomy, o) /\ (DOMAIN roomy.open = {} \/ memory(roomy) + reserve <= limit)
  BY <1>8, <1>9, <1>15, EvictForReaches
<1>17. Kept(roomy, o, {}) /\ NotFull(roomy, o) /\ CacheType(roomy) /\ SameRows(d, roomy)
  BY <1>15, <1>16 DEF Reached, Kept, NotFull
<1>18. memory(roomy) \in Nat /\ memory(roomy) + reserve <= limit
  <2>1. CASE DOMAIN roomy.open = {}
    BY <1>8, <1>17, <2>1, MemoryEmpty
  <2>2. CASE memory(roomy) + reserve <= limit
    BY <1>17, <2>2, MemoryIsLoads
  <2> QED
    BY <1>16, <2>1, <2>2
<1>19. WriterOpened(roomy, opened, key, o) \/ (InLimits(opened, o) /\ opened.error = "output files")
  BY <1>3, <1>10, <1>17, OpenWriterKeeps
<1>20. CASE InLimits(opened, o) /\ opened.error = "output files"
  <2>1. next = [cache |-> opened, offset |-> offset]
    BY <1>14, <1>20
  <2>2. next.cache = opened /\ next.offset = offset /\ next = [cache |-> next.cache, offset |-> next.offset]
    BY <2>1
  <2> QED
    BY <1>3, <1>12, <1>20, <2>2 DEF Chunked
<1>21. CASE WriterOpened(roomy, opened, key, o)
  <2>1. /\ Kept(opened, o, {key}) /\ NotFull(opened, o) /\ key \in DOMAIN opened.open
        /\ opened.error = "none" /\ SameRows(d, opened)
    BY <1>15, <1>17, <1>21 DEF WriterOpened, SameRows
  <2>2. memory(opened) + count <= limit
    <3>1. memory(opened) \in Nat
      BY <2>1, MemoryIsLoads DEF Kept
    <3>2. memory(opened) <= memory(roomy) + FileReserve
      BY <1>21 DEF WriterOpened
    <3> QED
      BY <1>6, <1>7, <1>8, <1>18, <3>1, <3>2
  <2>3. next = r
    BY <1>14, <2>1
  <2>31. ChunkWritten(opened, r, b, offset, count, o)
    <3>1. /\ Kept(opened, o, {b.key}) /\ b.key \in DOMAIN opened.open
      BY <1>2, <2>1
    <3> QED
      BY <1>3, <1>6, <1>11, <2>1, <3>1, WriteChunkKeeps
  <2>4. PICK n \in 1 .. count :
          /\ r = [cache |-> r.cache, offset |-> offset + n]
          /\ \/ Wrote(opened, r.cache, key, SubSeq(b.ids, offset + 1, offset + n), o)
             \/ /\ InLimits(r.cache, o) /\ r.cache.error = "writer bytes"
                /\ ~(b.weight <= 1 /\ memory(opened) + count <= limit)
    BY <1>2, <2>31, Zenon DEF ChunkWritten
  <2>5. n \in Nat /\ n # 0 /\ offset + n <= Len(b.ids)
    BY <1>3, <1>6
  <2>51. r = [cache |-> r.cache, offset |-> offset + n]
    BY <2>4, Zenon
  <2>6. next.offset = offset + n /\ next.cache = r.cache /\ next = [cache |-> next.cache, offset |-> next.offset]
    <3>1. PICK x : x = r.cache
      OBVIOUS
    <3>2. r = [cache |-> x, offset |-> offset + n]
      BY <2>51, <3>1
    <3>3. next = [cache |-> x, offset |-> offset + n]
      BY <2>3, <3>2
    <3> QED
      BY <3>1, <3>3
  <2>7. next.offset \in 0 .. Len(b.ids) /\ at.offset < next.offset
    BY <1>1, <1>3, <2>5, <2>6
  <2>8. CASE Wrote(opened, r.cache, key, SubSeq(b.ids, offset + 1, offset + n), o)
    <3>1. PICK ids, more, all : /\ ids = SubSeq(b.ids, 1, offset)
                                /\ more = SubSeq(b.ids, offset + 1, offset + n)
                                /\ all = SubSeq(b.ids, 1, offset + n)
      OBVIOUS
    <3>2. ids \in Rows /\ JoinsTo(ids, more, all)
      BY <1>3, <2>5, <3>1, PrefixGrows
    <3>3. more \in Rows
      BY <1>3, <2>5, <3>1, PartOf
    <3>4. Wrote(c, d, key, ids, o) /\ Wrote(opened, r.cache, key, more, o)
      BY <1>4, <2>8, <3>1
    <3>5. Wrote(c, r.cache, key, all, o)
      BY <2>1, <3>2, <3>3, <3>4, WroteAfter
    <3>6. Wrote(c, next.cache, b.key, SubSeq(b.ids, 1, next.offset), o)
      BY <1>2, <2>6, <3>1, <3>5, Zenon
    <3> QED
      BY <1>12, <2>6, <2>7, <3>6, Zenon DEF Chunked
  <2>9. CASE /\ InLimits(r.cache, o) /\ r.cache.error = "writer bytes"
             /\ ~(b.weight <= 1 /\ memory(opened) + count <= limit)
    <3>1. ~Weighs(b, o)
      BY <2>2, <2>9 DEF Weighs
    <3>2. InLimits(next.cache, o) /\ next.cache.error # "none"
      BY <2>6, <2>9
    <3> QED
      BY <1>12, <2>6, <2>7, <3>1, <3>2 DEF Chunked
  <2> QED
    BY <2>4, <2>8, <2>9
<1> QED
  BY <1>19, <1>20, <1>21

LEMMA ProductNat ==
  ASSUME NEW p \in Nat, NEW q \in Nat
  PROVE  p * q \in Nat
  OBVIOUS

LEMMA GreaterIsNotLess ==
  ASSUME NEW x \in Nat, NEW y \in Nat, x > y
  PROVE  ~(x <= y)
  OBVIOUS

WholePrefix(s) == SubSeq(s, 1, 0) = <<>> /\ SubSeq(s, 1, Len(s)) = s

LEMMA PrefixEnds ==
  ASSUME NEW s \in Rows
  PROVE  WholePrefix(s)
<1>1. s \in Seq(Nat \X Nat) /\ Len(s) \in Nat
  BY DEF Rows
<1>2. SubSeq(s, 1, Len(s)) = s
  <2>1. SubSeq(s, 1, Len(s)) = [q \in 1 .. Len(s) |-> s[q]]
    BY <1>1
  <2>2. s = [q \in 1 .. Len(s) |-> s[q]]
    BY <1>1
  <2> QED
    BY <2>1, <2>2, Zenon
<1>3. SubSeq(s, 1, 0) = <<>>
  BY <1>1
<1> QED
  BY <1>2, <1>3, Zenon DEF WholePrefix

\* A batch is stored, or it failed.
Batched(c, b, o, d) ==
  \/ Wrote(c, d, b.key, b.ids, o)
  \/ /\ InLimits(d, o) /\ d.error # "none"
     /\ Weighs(b, o) => d.error = "output files"

\* A cache between two batches.
Settled(c, o) ==
  /\ Kept(c, o, {}) /\ NotFull(c, o) /\ c.error = "none"
  /\ memory(c) <= writer_budget(o)

LEMMA WriteKeeps ==
  ASSUME NEW c, NEW o, Allowed(o), Settled(c, o), NEW b, IsBatch(b)
  PROVE  Batched(c, b, o, write(c, b, o))
<1> DEFINE N == Len(b.ids)
           Start == [cache |-> c, offset |-> 0]
           V == {x \in [cache : CacheSet, offset : Nat] : Chunked(c, b, o, x)}
           next(x) == IF x.offset = Len(b.ids) \/ x.cache.error # "none" THEN x
                      ELSE NextChunk(x, b, o)
           step == [x \in V \X (1 .. N) |-> next(x[1])]
           Follows(f) == f = [n \in 0 .. Len(b.ids) |-> IF n = 0 THEN Start ELSE next(f[n - 1])]
<1>1. write(c, b, o) =
        IF Len(b.ids) * b.weight > writer_budget(o) THEN Fail(c, "Arrow batch bytes")
        ELSE (CHOOSE f : Follows(f))[Len(b.ids)].cache
  BY Zenon DEF write
<1>2. /\ Kept(c, o, {}) /\ CacheType(c) /\ N \in Nat /\ b.ids \in Rows /\ b.key \in Nat /\ b.weight \in Nat
      /\ writer_budget(o) \in Nat
  BY DEF Settled, Kept, IsBatch, Rows, Allowed
<1>3. CASE Len(b.ids) * b.weight > writer_budget(o)
  <2> PICK d : d = Fail(c, "Arrow batch bytes")
    OBVIOUS
  <2>1. InLimits(d, o) /\ d.error = "Arrow batch bytes"
    BY <1>2, FailBounded DEF Errors
  <2>2. ~Weighs(b, o)
    <3>0. PICK p, q : p = Len(b.ids) /\ q = b.weight
      OBVIOUS
    <3>1. p \in Nat /\ q \in Nat
      BY <1>2, <3>0
    <3>2. p * q \in Nat
      BY <3>1, ProductNat
    <3>3. PICK z : z = Len(b.ids) * b.weight
      OBVIOUS
    <3>7. PICK limit : limit = writer_budget(o)
      OBVIOUS
    <3>5. z \in Nat /\ limit \in Nat /\ z > limit
      BY <1>2, <1>3, <3>0, <3>2, <3>3, <3>7, Zenon
    <3>6. ~(z <= limit)
      BY <3>5, GreaterIsNotLess
    <3>4. ~(Len(b.ids) * b.weight <= writer_budget(o))
      BY <3>3, <3>6, <3>7, Zenon
    <3> QED
      BY <3>4 DEF Weighs
  <2>3. write(c, b, o) = d
    BY <1>1, <1>3
  <2> QED
    BY <2>1, <2>2, <2>3 DEF Batched
<1>4. CASE ~(Len(b.ids) * b.weight > writer_budget(o))
  <2>0. WholePrefix(b.ids)
    BY <1>2, PrefixEnds
  <2>1. Start \in V
    <3>1. c \in CacheSet
      BY <1>2, CacheInSet
    <3>2. Wrote(c, c, b.key, <<>>, o)
      <4>1. \A k \in Nat : StoredRows(c, k) \o <<>> = StoredRows(c, k)
        <5> TAKE k \in Nat
        <5> PICK r : r = StoredRows(c, k)
          OBVIOUS
        <5>1. r \in Seq(Nat \X Nat)
          BY <1>2, StoredType DEF Rows
        <5> QED
          BY <5>1, ConcatEmpty
      <4>2. Counted(c) \in Nat
        BY <1>2, CountedNat
      <4> QED
        BY <4>1, <4>2 DEF Settled, Wrote
    <3>3. Wrote(c, Start.cache, b.key, SubSeq(b.ids, 1, Start.offset), o)
      <4>1. Start.cache = c /\ Start.offset = 0
        OBVIOUS
      <4>2. SubSeq(b.ids, 1, Start.offset) = <<>>
        BY <2>0, <4>1, Zenon DEF WholePrefix
      <4> QED
        BY <3>2, <4>1, <4>2, Zenon
    <3>4. Start = [cache |-> Start.cache, offset |-> Start.offset] /\ Start.offset \in 0 .. Len(b.ids)
      BY <1>2
    <3>5. Chunked(c, b, o, Start)
      BY <3>3, <3>4, Zenon DEF Chunked
    <3> QED
      BY <3>1, <3>5
  <2>2. ASSUME NEW x \in V
        PROVE  /\ next(x) \in V /\ Chunked(c, b, o, x) /\ x.offset \in 0 .. N
               /\ \/ (next(x) = x /\ (x.offset = N \/ x.cache.error # "none"))
                  \/ (x.cache.error = "none" /\ (x.offset < next(x).offset \/ next(x).cache.error # "none"))
    <3>1. Chunked(c, b, o, x) /\ x.offset \in 0 .. N
      BY DEF Chunked
    <3>2. CASE x.offset = Len(b.ids) \/ x.cache.error # "none"
      BY <3>1, <3>2
    <3>3. CASE ~(x.offset = Len(b.ids) \/ x.cache.error # "none")
      <4> PICK y : y = NextChunk(x, b, o)
        OBVIOUS
      <4>1. Chunked(c, b, o, y) /\ (x.offset < y.offset \/ y.cache.error # "none")
        BY <1>2, <3>1, <3>3, NextChunkKeeps
      <4>2. CacheType(y.cache)
        BY <4>1 DEF Chunked, Wrote, Kept, InLimits
      <4>3. y.cache \in CacheSet
        BY <4>2, CacheInSet
      <4>4. y \in V
        <5>0. y = [cache |-> y.cache, offset |-> y.offset] /\ y.offset \in 0 .. N
          BY <4>1, Zenon DEF Chunked
        <5>1. y = [cache |-> y.cache, offset |-> y.offset] /\ y.offset \in Nat
          BY <1>2, <5>0
        <5> QED
          BY <4>1, <4>3, <5>1
      <4>5. next(x) = y
        BY <3>3
      <4> QED
        BY <3>1, <3>3, <4>1, <4>4, <4>5
    <3> QED
      BY <3>2, <3>3
  <2> HIDE DEF V, next, Start
  <2>3. step \in [V \X (1 .. N) -> V] /\ \A x \in V, n \in 1 .. N : step[<<x, n>>] = next(x)
    BY <2>2
  <2> HIDE DEF step, N
  <2>4. PICK g \in [0 .. N -> V] : Recurs(g, N, Start, step)
    BY <1>2, <2>1, <2>3, RecursionExists
  <2>5. \A n \in 0 .. N : g[n] = IF n = 0 THEN Start ELSE next(g[n - 1])
    <3> TAKE n \in 0 .. N
    <3>1. CASE n = 0
      BY <2>4, <3>1 DEF Recurs
    <3>2. CASE n # 0
      <4>1. n \in 1 .. N /\ n - 1 \in 0 .. N
        BY <1>2, <3>2
      <4>2. g[n] = step[<<g[n - 1], n>>] /\ g[n - 1] \in V
        BY <2>4, <3>2, <4>1 DEF Recurs
      <4> QED
        BY <2>3, <3>2, <4>1, <4>2
    <3> QED
      BY <3>1, <3>2
  <2>6. Follows(g)
    BY <2>4, <2>5 DEF N
  <2>7. PICK f : f = (CHOOSE h : Follows(h))
    OBVIOUS
  <2>8. Follows(f)
    BY <2>6, <2>7, Zenon
  <2>9. /\ write(c, b, o) = f[N].cache
        /\ \A n \in 0 .. N : f[n] = IF n = 0 THEN Start ELSE next(f[n - 1])
    <3>1. \A n \in 0 .. N : f[n] = IF n = 0 THEN Start ELSE next(f[n - 1])
      BY <2>8 DEF N
    <3>2. write(c, b, o) = (CHOOSE h : Follows(h))[Len(b.ids)].cache
      BY <1>1, <1>4, Zenon
    <3> QED
      BY <2>7, <3>1, <3>2, Zenon DEF N
  <2> HIDE DEF Follows
  <2> DEFINE T == {n \in Nat : n \in 0 .. N =>
                     f[n] \in V /\ (f[n].cache.error # "none" \/ n <= f[n].offset)}
  <2>10. 0 \in T
    <3>1. f[0] = Start /\ Start.offset = 0
      BY <1>2, <2>9 DEF Start
    <3> QED
      BY <2>1, <3>1
  <2>11. ASSUME NEW n \in T PROVE n + 1 \in T
    <3> SUFFICES ASSUME n + 1 \in 0 .. N
                 PROVE  f[n + 1] \in V /\ (f[n + 1].cache.error # "none" \/ n + 1 <= f[n + 1].offset)
      OBVIOUS
    <3>1. n \in 0 .. N /\ n + 1 # 0 /\ (n + 1) - 1 = n /\ n \in Nat /\ n < N
      BY <1>2
    <3>2. PICK x, y : x = f[n] /\ y = f[n + 1]
      OBVIOUS
    <3>3. x \in V /\ (x.cache.error # "none" \/ n <= x.offset)
      BY <3>1, <3>2
    <3>4. y = next(x)
      BY <2>9, <3>1, <3>2
    <3>5. /\ y \in V /\ x.offset \in 0 .. N /\ y.offset \in 0 .. N
          /\ \/ (y = x /\ (x.offset = N \/ x.cache.error # "none"))
             \/ (x.cache.error = "none" /\ (x.offset < y.offset \/ y.cache.error # "none"))
      BY <2>2, <3>3, <3>4
    <3>6. y.cache.error # "none" \/ n + 1 <= y.offset
      BY <1>2, <3>1, <3>3, <3>5
    <3> QED
      BY <3>2, <3>5, <3>6
  <2> HIDE DEF T
  <2>12. T = Nat
    <3>1. T \in SUBSET Nat
      BY DEF T
    <3> QED
      BY <2>10, <2>11, <3>1, NatSetInduction
  <2>13. PICK x : x = f[N]
    OBVIOUS
  <2>14. x \in V /\ (x.cache.error # "none" \/ N <= x.offset)
    <3>1. N \in 0 .. N /\ N \in T
      BY <1>2, <2>12
    <3> QED
      BY <2>13, <3>1 DEF T
  <2>15. Chunked(c, b, o, x) /\ x.offset \in 0 .. N
    BY <2>2, <2>14
  <2>16. Batched(c, b, o, x.cache)
    <3>1. CASE x.cache.error # "none"
      BY <2>15, <3>1 DEF Chunked, Batched, Wrote
    <3>2. CASE x.cache.error = "none"
      <4>1. x.offset = Len(b.ids)
        BY <1>2, <2>14, <2>15, <3>2 DEF N
      <4>2. SubSeq(b.ids, 1, x.offset) = b.ids
        BY <2>0, <4>1, Zenon DEF WholePrefix
      <4>3. Wrote(c, x.cache, b.key, SubSeq(b.ids, 1, x.offset), o)
        BY <2>15, <3>2 DEF Chunked
      <4>4. Wrote(c, x.cache, b.key, b.ids, o)
        BY <4>2, <4>3, Zenon
      <4> QED
        BY <4>4 DEF Batched
    <3> QED
      BY <3>1, <3>2
  <2> QED
    BY <2>9, <2>13, <2>16
<1> QED
  BY <1>3, <1>4

-----------------------------------------------------------------------------
(* Writing the batches of a conversion.                                    *)

Batches == [key : Nat, weight : Nat, ids : Rows]

\* The rows of a partition in the first batches, and how many rows these have.
KeyRows(named, n, k) == FlattenSeq([i \in 1 .. n |-> IF named[i].key = k THEN named[i].ids ELSE <<>>])
SizesOf(named) == [i \in DOMAIN named |-> Len(named[i].ids)]
TotalOf(named, n) == SumFunctionOnSet(SizesOf(named), 1 .. n)

LEMMA RowsOfNext ==
  ASSUME NEW named \in Seq(Batches), NEW n \in 0 .. Len(named) - 1, NEW k
  PROVE  /\ KeyRows(named, n, k) \in Rows
         /\ KeyRows(named, n + 1, k) =
              KeyRows(named, n, k) \o (IF named[n + 1].key = k THEN named[n + 1].ids ELSE <<>>)
         /\ TotalOf(named, n) \in Nat
         /\ TotalOf(named, n + 1) = TotalOf(named, n) + Len(named[n + 1].ids)
<1> DEFINE part(x) == IF x.key = k THEN x.ids ELSE <<>>
           parts(m) == [i \in 1 .. m |-> part(named[i])]
<1>1. Len(named) \in Nat /\ DOMAIN named = 1 .. Len(named) /\ \A i \in 1 .. Len(named) : named[i] \in Batches
  OBVIOUS
<1>2. n \in Nat /\ n + 1 \in 1 .. Len(named) /\ \A i \in 1 .. n + 1 : i \in 1 .. Len(named)
  BY <1>1
<1>3. \A x \in Batches : part(x) \in Rows /\ Len(x.ids) \in Nat
  BY DEF Batches, Rows
<1>4. KeyRows(named, n, k) = FlattenSeq(parts(n)) /\ KeyRows(named, n + 1, k) = FlattenSeq(parts(n + 1))
  BY Zenon DEF KeyRows, part
<1> HIDE DEF part
<1>5. \A i \in 1 .. n + 1 : part(named[i]) \in Rows
  BY <1>1, <1>2, <1>3
<1>6. parts(n) \in Seq(Rows) /\ Len(parts(n)) = n
  BY <1>2, <1>5
<1>7. parts(n + 1) = Append(parts(n), part(named[n + 1]))
  <2> PICK u, r : u = parts(n) /\ r = part(named[n + 1])
    OBVIOUS
  <2>1. u \in Seq(Rows) /\ r \in Rows /\ Len(u) = n /\ \A i \in 1 .. n : u[i] = part(named[i])
    BY <1>2, <1>5, <1>6
  <2>2. Append(u, r) = [i \in 1 .. n + 1 |-> IF i = n + 1 THEN r ELSE u[i]]
    BY <2>1
  <2>3. \A i \in 1 .. n + 1 : part(named[i]) = IF i = n + 1 THEN r ELSE u[i]
    BY <1>2, <2>1
  <2> QED
    BY <2>2, <2>3
<1> HIDE DEF parts
<1>8. part(named[n + 1]) \in Rows
  BY <1>2, <1>5
<1>9. /\ FlattenSeq(parts(n)) \in Rows
      /\ FlattenSeq(Append(parts(n), part(named[n + 1]))) = FlattenSeq(parts(n)) \o part(named[n + 1])
  BY <1>6, <1>8, FlattenType, FlattenAppend DEF Rows
<1>10. \A i \in 1 .. n + 1 : SizesOf(named)[i] = Len(named[i].ids) /\ SizesOf(named)[i] \in Nat
  BY <1>1, <1>2, <1>3 DEF SizesOf
<1>11. TotalOf(named, n) \in Nat /\ TotalOf(named, n + 1) = TotalOf(named, n) + Len(named[n + 1].ids)
  <2> PICK w : w = SizesOf(named)
    OBVIOUS
  <2>1. (\A i \in 1 .. n : w[i] \in Nat) /\ w[n + 1] \in Nat /\ w[n + 1] = Len(named[n + 1].ids)
    BY <1>2, <1>10
  <2>2. SumFunctionOnSet(w, 1 .. n + 1) = SumFunctionOnSet(w, 1 .. n) + w[n + 1]
    BY <1>2, <2>1, SumNext
  <2>3. IsFiniteSet(1 .. n)
    BY <1>2, FS_Interval
  <2>4. SumFunctionOnSet(w, 1 .. n) \in Nat
    BY <2>1, <2>3, SumNat
  <2> QED
    BY <2>1, <2>2, <2>4 DEF TotalOf
<1> QED
  BY <1>4, <1>7, <1>9, <1>11 DEF part

\* A cache after the first batches, or after one that failed.
AfterBatches(c, named, n, o) ==
  \/ /\ Settled(c, o)
     /\ \A k \in Nat : StoredRows(c, k) = KeyRows(named, n, k)
     /\ Counted(c) = TotalOf(named, n)
  \/ /\ InLimits(c, o) /\ c.error # "none"
     /\ (\A i \in DOMAIN named : Weighs(named[i], o)) => c.error = "output files"

LEMMA NewCacheSettled ==
  ASSUME NEW named \in Seq(Batches), NEW o, Allowed(o)
  PROVE  AfterBatches(NewCache, named, 0, o) /\ NewCache \in CacheSet
<1> PICK c : c = NewCache
  OBVIOUS
<1>1. c = [open |-> [k \in {} |-> {}], outputs |-> <<>>, created |-> 0, tick |-> 0, error |-> "none"]
  BY Zenon DEF NewCache
<1>2. /\ DOMAIN c.open = {} /\ c.outputs = <<>> /\ c.created = 0 /\ c.tick = 0 /\ c.error = "none"
      /\ c = [open |-> c.open, outputs |-> c.outputs, created |-> c.created, tick |-> c.tick, error |-> c.error]
  BY <1>1
<1>3. CacheType(c)
  <2>1. c.open \in [DOMAIN c.open -> Writer]
    BY <1>1
  <2>2. IsFiniteSet(DOMAIN c.open)
    BY <1>2, FS_EmptySet
  <2> QED
    BY <1>2, <2>1, <2>2 DEF CacheType, Errors
<1>4. Kept(c, o, {})
  <2>1. Cardinality(DOMAIN c.open) = 0
    BY <1>2, FS_EmptySet
  <2>2. PartsOrdered(c)
    BY <1>2 DEF PartsOrdered
  <2>3. DOMAIN c.outputs = {} /\ Len(c.outputs) = 0
    BY <1>2
  <2> QED
    BY <1>2, <1>3, <2>1, <2>2, <2>3 DEF Kept, Allowed
<1>5. Settled(c, o)
  <2>1. memory(c) = 0 /\ writer_budget(o) \in Nat
    BY <1>2, <1>3, MemoryEmpty DEF Allowed
  <2> QED
    BY <1>2, <1>4, <2>1 DEF Settled, NotFull
<1>6. \A k \in Nat : StoredRows(c, k) = KeyRows(named, 0, k)
  <2> TAKE k \in Nat
  <2> PICK f : f = Finished(c.outputs, k)
    OBVIOUS
  <2>1. f \in Rows
    BY <1>3, StoredType
  <2>2. StoredRows(c, k) = f \o <<>>
    BY <1>2 DEF StoredRows
  <2>3. StoredRows(c, k) = f
    BY <2>1, <2>2, ConcatEmpty DEF Rows
  <2>4. [i \in DOMAIN c.outputs |-> IF c.outputs[i].key = k THEN c.outputs[i].ids ELSE <<>>]
          = [i \in 1 .. 0 |-> IF named[i].key = k THEN named[i].ids ELSE <<>>]
    <3>1. DOMAIN c.outputs = {} /\ 1 .. 0 = {}
      BY <1>2
    <3> QED
      BY <3>1
  <2>5. f = KeyRows(named, 0, k)
    BY <2>4, Zenon DEF Finished, KeyRows
  <2> QED
    BY <2>3, <2>5
<1>7. Counted(c) = TotalOf(named, 0)
  <2>1. DOMAIN c.outputs = {} /\ 1 .. 0 = {}
    BY <1>2
  <2> DEFINE rc == [i \in DOMAIN c.outputs |-> c.outputs[i].rows]
             nc == [k \in DOMAIN c.open |-> Len(c.open[k].ids)]
  <2>2. Counted(c) = SumFunctionOnSet(rc, DOMAIN c.outputs) + SumFunctionOnSet(nc, DOMAIN c.open)
    BY DEF Counted
  <2> HIDE DEF rc, nc
  <2>3. Counted(c) = 0
    BY <1>2, <2>1, <2>2, SumEmpty
  <2>4. TotalOf(named, 0) = 0
    BY <2>1, SumEmpty DEF TotalOf
  <2> QED
    BY <2>3, <2>4
<1>8. c \in CacheSet
  BY <1>3, CacheInSet
<1> QED
  BY <1>5, <1>6, <1>7, <1>8 DEF AfterBatches

LEMMA AfterNextBatch ==
  ASSUME NEW named \in Seq(Batches), NEW o, Allowed(o), NEW n \in 0 .. Len(named) - 1, NEW c,
         AfterBatches(c, named, n, o)
  PROVE  LET d == IF c.error # "none" THEN c ELSE write(c, named[n + 1], o)
         IN AfterBatches(d, named, n + 1, o) /\ d \in CacheSet
<1>1. Len(named) \in Nat /\ n \in Nat /\ n + 1 \in DOMAIN named /\ named[n + 1] \in Batches
  OBVIOUS
<1>2. CASE c.error # "none"
  <2>1. CacheType(c)
    BY <1>2 DEF AfterBatches, Settled, InLimits
  <2> QED
    BY <1>2, <2>1, CacheInSet DEF AfterBatches, Settled
<1>3. CASE c.error = "none"
  <2> PICK b, d : b = named[n + 1] /\ d = write(c, named[n + 1], o)
    OBVIOUS
  <2>1. IsBatch(b)
    BY <1>1 DEF IsBatch, Batches
  <2>2. /\ Settled(c, o)
        /\ \A k \in Nat : StoredRows(c, k) = KeyRows(named, n, k)
        /\ Counted(c) = TotalOf(named, n)
    BY <1>3 DEF AfterBatches
  <2>3. Batched(c, b, o, d)
    BY <2>1, <2>2, WriteKeeps
  <2>4. d \in CacheSet
    <3>1. CacheType(d)
      BY <2>3 DEF Batched, Wrote, Kept, InLimits
    <3> QED
      BY <3>1, CacheInSet
  <2>5. AfterBatches(d, named, n + 1, o)
    <3>1. CASE Wrote(c, d, b.key, b.ids, o)
      <4>1. Settled(d, o)
        BY <3>1 DEF Wrote, Settled
      <4>2. \A k \in Nat : StoredRows(d, k) = KeyRows(named, n + 1, k)
        <5> TAKE k \in Nat
        <5>1. KeyRows(named, n + 1, k) = KeyRows(named, n, k) \o (IF b.key = k THEN b.ids ELSE <<>>)
          BY RowsOfNext
        <5>2. StoredRows(d, k) = IF k = b.key THEN StoredRows(c, k) \o b.ids ELSE StoredRows(c, k)
          BY <3>1 DEF Wrote
        <5>3. PICK r : r = KeyRows(named, n, k)
          OBVIOUS
        <5>4. r \o <<>> = r
          <6>1. r \in Rows
            BY <5>3, RowsOfNext
          <6> QED
            BY <6>1, ConcatEmpty DEF Rows
        <5>5. CASE k = b.key
          <6>1. KeyRows(named, n + 1, k) = r \o b.ids
            BY <5>1, <5>3, <5>5
          <6>2. StoredRows(d, k) = r \o b.ids
            BY <2>2, <5>2, <5>3, <5>5
          <6> QED
            BY <6>1, <6>2
        <5>6. CASE k # b.key
          <6>1. KeyRows(named, n + 1, k) = r \o <<>>
            BY <5>1, <5>3, <5>6
          <6>2. StoredRows(d, k) = r
            BY <2>2, <5>2, <5>3, <5>6
          <6> QED
            BY <5>4, <6>1, <6>2
        <5> QED
          BY <5>5, <5>6
      <4>3. Counted(d) = TotalOf(named, n + 1)
        <5>1. TotalOf(named, n + 1) = TotalOf(named, n) + Len(b.ids)
          BY RowsOfNext
        <5> QED
          BY <2>2, <3>1, <5>1 DEF Wrote
      <4> QED
        BY <4>1, <4>2, <4>3 DEF AfterBatches
    <3>2. CASE /\ InLimits(d, o) /\ d.error # "none"
               /\ Weighs(b, o) => d.error = "output files"
      BY <1>1, <3>2 DEF AfterBatches
    <3> QED
      BY <2>3, <3>1, <3>2 DEF Batched
  <2> QED
    BY <1>3, <2>4, <2>5
<1> QED
  BY <1>2, <1>3

LEMMA CachesKeep ==
  ASSUME NEW named \in Seq(Batches), NEW o, Allowed(o)
  PROVE  LET cs == Caches(named, o)
         IN DOMAIN cs = 0 .. Len(named) /\ \A n \in 0 .. Len(named) : AfterBatches(cs[n], named, n, o)
<1> DEFINE N == Len(named)
           Start == NewCache
           next(c, n) == IF c.error # "none" THEN c ELSE write(c, named[n], o)
           Follows(f) == f = [n \in 0 .. Len(named) |-> IF n = 0 THEN Start ELSE next(f[n - 1], n)]
           V(n) == {c \in CacheSet : AfterBatches(c, named, n, o)}
           W == {x \in CacheSet \X (0 .. N) : x[1] \in V(x[2])}
           \* The recursion over caches with their place, which says what a cache may be.
           pair(x, n) == IF x[2] = n - 1 THEN <<next(x[1], n), n>> ELSE x
           step == [x \in W \X (1 .. N) |-> pair(x[1], x[2])]
<1>1. Caches(named, o) = CHOOSE f : Follows(f)
  BY Zenon DEF Caches
<1>2. N \in Nat
  OBVIOUS
<1>3. Start \in V(0)
  BY NewCacheSettled
<1>4. \A n \in 1 .. N : \A c \in V(n - 1) : next(c, n) \in V(n)
  <2> TAKE n \in 1 .. N
  <2> TAKE c \in V(n - 1)
  <2>1. PICK m : m = n - 1
    OBVIOUS
  <2>2. m \in 0 .. Len(named) - 1 /\ m + 1 = n
    BY <1>2, <2>1
  <2>3. AfterBatches(c, named, m, o)
    BY <2>1
  <2>4. PICK d : d = IF c.error # "none" THEN c ELSE write(c, named[m + 1], o)
    OBVIOUS
  <2>5. AfterBatches(d, named, m + 1, o) /\ d \in CacheSet
    BY <2>2, <2>3, <2>4, AfterNextBatch
  <2>6. d = next(c, n)
    BY <2>2, <2>4
  <2> QED
    BY <2>2, <2>5, <2>6
<1> HIDE DEF next, Start
<1>5. <<Start, 0>> \in W
  BY <1>2, <1>3
<1>6. \A x \in W, n \in 1 .. N : pair(x, n) \in W
  <2> TAKE x \in W, n \in 1 .. N
  <2>1. CASE x[2] = n - 1
    <3>1. next(x[1], n) \in V(n)
      BY <1>4, <2>1
    <3>2. n \in 0 .. N
      BY <1>2
    <3>3. <<next(x[1], n), n>> \in W
      BY <3>1, <3>2
    <3> QED
      BY <2>1, <3>3
  <2>2. CASE x[2] # n - 1
    BY <2>2
  <2> QED
    BY <2>1, <2>2
<1>7. \A x \in W : x[1] \in V(x[2]) /\ x = <<x[1], x[2]>>
  OBVIOUS
<1> HIDE DEF W, V, pair
<1>8. step \in [W \X (1 .. N) -> W] /\ \A x \in W, n \in 1 .. N : step[<<x, n>>] = pair(x, n)
  BY <1>6
<1> HIDE DEF step, N
<1>9. PICK g \in [0 .. N -> W] : Recurs(g, N, <<Start, 0>>, step)
  BY <1>2, <1>5, <1>8, RecursionExists
<1>10. g[0] = <<Start, 0>>
  <2>1. 0 \in 0 .. N
    BY <1>2
  <2> QED
    BY <1>9, <2>1 DEF Recurs
<1>11. \A n \in 1 .. N : n - 1 \in 0 .. N /\ n \in 0 .. N /\ g[n - 1] \in W /\ g[n] = pair(g[n - 1], n)
  <2> TAKE n \in 1 .. N
  <2>1. n \in 0 .. N /\ n # 0 /\ n - 1 \in 0 .. N
    BY <1>2
  <2>2. g[n] = step[<<g[n - 1], n>>] /\ g[n - 1] \in W
    BY <1>9, <2>1 DEF Recurs
  <2> QED
    BY <1>8, <2>1, <2>2
<1> DEFINE T == {n \in Nat : n \in 0 .. N => g[n][2] = n}
<1>12. 0 \in T
  BY <1>10
<1>13. ASSUME NEW n \in T PROVE n + 1 \in T
  <2> SUFFICES ASSUME n + 1 \in 0 .. N PROVE g[n + 1][2] = n + 1
    OBVIOUS
  <2>1. n \in 0 .. N /\ n + 1 \in 1 .. N /\ (n + 1) - 1 = n
    BY <1>2
  <2>2. g[n][2] = n /\ g[n + 1] = pair(g[n], n + 1)
    BY <1>11, <2>1
  <2>3. g[n + 1] = <<next(g[n][1], n + 1), n + 1>>
    BY <2>1, <2>2 DEF pair
  <2> QED
    BY <2>3
<1> HIDE DEF T
<1>14. T = Nat
  <2>1. T \in SUBSET Nat
    BY DEF T
  <2> QED
    BY <1>12, <1>13, <2>1, NatSetInduction
<1>15. \A n \in 0 .. N : g[n][2] = n
  BY <1>14, <1>2 DEF T
<1> DEFINE f == [n \in 0 .. N |-> g[n][1]]
<1>16. f = [n \in 0 .. N |-> IF n = 0 THEN Start ELSE next(f[n - 1], n)]
  <2>1. \A n \in 0 .. N : f[n] = IF n = 0 THEN Start ELSE next(f[n - 1], n)
    <3> TAKE n \in 0 .. N
    <3>1. CASE n = 0
      BY <1>10, <3>1
    <3>2. CASE n # 0
      <4>1. n \in 1 .. N
        BY <1>2, <3>2
      <4>2. n - 1 \in 0 .. N /\ g[n] = pair(g[n - 1], n) /\ g[n - 1][2] = n - 1
        BY <1>11, <1>15, <4>1
      <4>3. g[n] = <<next(g[n - 1][1], n), n>>
        BY <4>2 DEF pair
      <4>4. f[n] = next(f[n - 1], n)
        BY <4>2, <4>3
      <4> QED
        BY <3>2, <4>4
    <3> QED
      BY <3>1, <3>2
  <2> QED
    BY <2>1
<1> HIDE DEF f
<1>17. Follows(f)
  BY <1>16 DEF N
<1>18. PICK h : h = (CHOOSE e : Follows(e))
  OBVIOUS
<1>19. Follows(h)
  BY <1>17, <1>18, Zenon
<1>20. /\ Caches(named, o) = h /\ DOMAIN h = 0 .. N
       /\ \A n \in 0 .. N : h[n] = IF n = 0 THEN Start ELSE next(h[n - 1], n)
  <2>1. h = [n \in 0 .. N |-> IF n = 0 THEN Start ELSE next(h[n - 1], n)]
    BY <1>19 DEF N
  <2> QED
    BY <1>1, <1>18, <2>1
<1> HIDE DEF Follows
<1> DEFINE U == {n \in Nat : n \in 0 .. N => h[n] \in V(n)}
<1>21. 0 \in U
  <2>1. 0 \in 0 .. N
    BY <1>2
  <2> QED
    BY <1>3, <1>20, <2>1 DEF V
<1>22. ASSUME NEW n \in U PROVE n + 1 \in U
  <2> SUFFICES ASSUME n + 1 \in 0 .. N PROVE h[n + 1] \in V(n + 1)
    OBVIOUS
  <2>1. n \in 0 .. N /\ n + 1 \in 1 .. N /\ (n + 1) - 1 = n /\ n + 1 # 0
    BY <1>2
  <2>2. h[n] \in V(n) /\ h[n + 1] = next(h[n], n + 1)
    BY <1>20, <2>1
  <2> QED
    BY <1>4, <2>1, <2>2
<1> HIDE DEF U
<1>23. U = Nat
  <2>1. U \in SUBSET Nat
    BY DEF U
  <2> QED
    BY <1>21, <1>22, <2>1, NatSetInduction
<1>24. \A n \in 0 .. N : h[n] \in V(n)
  BY <1>2, <1>23 DEF U
<1>25. \A n \in 0 .. N : AfterBatches(h[n], named, n, o)
  BY <1>24 DEF V
<1> QED
  BY <1>20, <1>25 DEF N

-----------------------------------------------------------------------------
(* The fragments in the order of their paths.                              *)

\* The finished fragments in the order of their paths.
PathOrder(outputs) ==
  {x \in (1 .. Len(outputs)) \X (1 .. Len(outputs)) : PathBefore(outputs[x[1]], outputs[x[2]])}
Sorted(outputs) == [n \in DOMAIN outputs |-> outputs[Ranks(PathOrder(outputs), Len(outputs))[n]]]

\* Fragments of one partition were finished in the order of their parts.
PartsGrow(outputs) ==
  \A i, j \in DOMAIN outputs :
    i < j /\ outputs[i].key = outputs[j].key => outputs[i].part < outputs[j].part

LEMMA PathsOrder ==
  ASSUME NEW outputs \in Seq(Done), PartsGrow(outputs)
  PROVE  StrictOrder(PathOrder(outputs), 1 .. Len(outputs))
<1> PICK N, R : N = Len(outputs) /\ R = PathOrder(outputs)
  OBVIOUS
<1>1. /\ N \in Nat /\ DOMAIN outputs = 1 .. N
      /\ \A i \in 1 .. N : outputs[i].key \in Nat /\ outputs[i].part \in Nat
  <2>1. N \in Nat /\ DOMAIN outputs = 1 .. N /\ \A i \in 1 .. N : outputs[i] \in Done
    OBVIOUS
  <2>2. \A x \in Done : x.key \in Nat /\ x.part \in Nat
    BY DEF Done
  <2> QED
    BY <2>1, <2>2
<1>2. \A x, y \in 1 .. N :
        <<x, y>> \in R <=> \/ outputs[x].key < outputs[y].key
                           \/ (outputs[x].key = outputs[y].key /\ outputs[x].part < outputs[y].part)
  BY DEF PathOrder, PathBefore
<1>3. \A x \in 1 .. N : <<x, x>> \notin R
  BY <1>1, <1>2
<1>4. \A x, y, z \in 1 .. N : <<x, y>> \in R /\ <<y, z>> \in R => <<x, z>> \in R
  <2> TAKE x, y, z \in 1 .. N
  <2> HAVE <<x, y>> \in R /\ <<y, z>> \in R
  <2> PICK a, b, c, d, e, f : /\ a = outputs[x].key /\ b = outputs[y].key /\ c = outputs[z].key
                              /\ d = outputs[x].part /\ e = outputs[y].part /\ f = outputs[z].part
    OBVIOUS
  <2>1. a \in Nat /\ b \in Nat /\ c \in Nat /\ d \in Nat /\ e \in Nat /\ f \in Nat
    BY <1>1
  <2>2. (a < b \/ (a = b /\ d < e)) /\ (b < c \/ (b = c /\ e < f))
    BY <1>2
  <2>3. a < c \/ (a = c /\ d < f)
    BY <2>1, <2>2
  <2> QED
    BY <1>2, <2>3
<1>5. \A x, y \in 1 .. N : x # y => <<x, y>> \in R \/ <<y, x>> \in R
  <2> TAKE x, y \in 1 .. N
  <2> HAVE x # y
  <2>1. x < y \/ y < x
    BY <1>1
  <2>2. outputs[x].key = outputs[y].key =>
          outputs[x].part < outputs[y].part \/ outputs[y].part < outputs[x].part
    BY <1>1, <2>1 DEF PartsGrow
  <2> PICK a, b : a = outputs[x].key /\ b = outputs[y].key
    OBVIOUS
  <2>3. a < b \/ a = b \/ b < a
    BY <1>1
  <2> QED
    BY <1>2, <2>2, <2>3
<1> QED
  BY <1>3, <1>4, <1>5 DEF StrictOrder

\* What sorting by place does to the fragments.
SortedWell(outputs, p, N) ==
  /\ p \in [1 .. N -> 1 .. N]
  /\ \A m, n \in 1 .. N : p[m] = p[n] => m = n
  /\ \A i \in 1 .. N : \E n \in 1 .. N : p[n] = i
  /\ \A m, n \in 1 .. N : m < n <=> PathBefore(outputs[p[m]], outputs[p[n]])

LEMMA FragmentsSorted ==
  ASSUME NEW outputs \in Seq(Done), PartsGrow(outputs)
  PROVE  SortedWell(outputs, Ranks(PathOrder(outputs), Len(outputs)), Len(outputs))
<1>0. PICK N, R : N = Len(outputs) /\ R = PathOrder(outputs)
  OBVIOUS
<1> DEFINE p == Ranks(R, N)
<1>1. N \in Nat /\ StrictOrder(R, 1 .. N)
  BY <1>0, PathsOrder
<1>2. /\ p \in [1 .. N -> 1 .. N]
      /\ \A m, n \in 1 .. N : p[m] = p[n] => m = n
      /\ \A i \in 1 .. N : \E n \in 1 .. N : p[n] = i
      /\ \A m, n \in 1 .. N : m < n <=> <<p[m], p[n]>> \in R
  BY <1>1, RanksSort
<1> HIDE DEF p
<1>3. \A x, y \in 1 .. N : <<x, y>> \in R <=> PathBefore(outputs[x], outputs[y])
  BY <1>0 DEF PathOrder
<1>4. SortedWell(outputs, p, N)
  BY <1>2, <1>3 DEF SortedWell
<1> QED
  BY <1>0, <1>4 DEF p

FinalOutputs(named, o) == close_all(Caches(named, o)[Len(named)]).outputs

ByPlace(outputs) ==
  LET place(i) == Cardinality({j \in DOMAIN outputs : PathBefore(outputs[j], outputs[i])})
  IN [n \in DOMAIN outputs |-> outputs[CHOOSE i \in DOMAIN outputs : place(i) = n - 1]]

LEMMA FragmentsAre ==
  ASSUME NEW named, NEW o, NEW outputs \in Seq(Done), PartsGrow(outputs),
         outputs = FinalOutputs(named, o)
  PROVE  Fragments(named, o) = Sorted(outputs)
<1> DEFINE place(i) == Cardinality({j \in DOMAIN outputs : PathBefore(outputs[j], outputs[i])})
           q(n) == CHOOSE i \in DOMAIN outputs : place(i) = n - 1
           N == Len(outputs)
           R == PathOrder(outputs)
           p == Ranks(R, N)
<1>1. Fragments(named, o) = [n \in DOMAIN outputs |-> outputs[q(n)]]
  <2>1. Fragments(named, o) = ByPlace(FinalOutputs(named, o))
    BY Zenon DEF Fragments, FinalOutputs, ByPlace
  <2>2. Fragments(named, o) = ByPlace(outputs)
    BY <2>1, Zenon
  <2>3. ByPlace(outputs) = [n \in DOMAIN outputs |-> outputs[q(n)]]
    BY Zenon DEF ByPlace
  <2> QED
    BY <2>2, <2>3, Zenon
<1>2. N \in Nat /\ DOMAIN outputs = 1 .. N /\ StrictOrder(R, 1 .. N)
  BY PathsOrder
<1>3. \A i \in 1 .. N : place(i) = Place(R, 1 .. N, i)
  <2> TAKE i \in 1 .. N
  <2>1. {j \in DOMAIN outputs : PathBefore(outputs[j], outputs[i])} = {j \in 1 .. N : <<j, i>> \in R}
    BY <1>2 DEF PathOrder
  <2> QED
    BY <2>1, Zenon DEF Place
<1>4. IsFiniteSet(1 .. N) /\ Cardinality(1 .. N) = N
  BY <1>2, FS_Interval
<1> HIDE DEF place, R, N
<1>5. ASSUME NEW n \in 1 .. N PROVE q(n) = p[n]
  <2>1. /\ \E i \in 1 .. N : Place(R, 1 .. N, i) = n - 1
        /\ \A x, y \in 1 .. N : Place(R, 1 .. N, x) = Place(R, 1 .. N, y) => x = y
    <3>1. /\ \A m \in 1 .. Cardinality(1 .. N) : \E x \in 1 .. N : Place(R, 1 .. N, x) = m - 1
          /\ \A x, y \in 1 .. N : Place(R, 1 .. N, x) = Place(R, 1 .. N, y) => x = y
      BY <1>2, <1>4, PlacesAreAll
    <3> QED
      BY <1>4, <3>1
  <2>2. PICK m : m = n - 1
    OBVIOUS
  <2>3. \E i \in DOMAIN outputs : place(i) = n - 1
    BY <1>2, <1>3, <2>1
  <2>4. q(n) \in 1 .. N /\ place(q(n)) = n - 1
    BY <1>2, <2>3
  <2>5. p[n] = CHOOSE i \in 1 .. N : Place(R, 1 .. N, i) = n - 1
    BY DEF Ranks
  <2>6. p[n] \in 1 .. N /\ Place(R, 1 .. N, p[n]) = n - 1
    BY <2>1, <2>5
  <2> QED
    BY <1>3, <2>1, <2>4, <2>6
<1> HIDE DEF q, p
<1>6. [n \in DOMAIN outputs |-> outputs[q(n)]] = [n \in DOMAIN outputs |-> outputs[p[n]]]
  BY <1>2, <1>5
<1> QED
  BY <1>1, <1>6, Zenon DEF Sorted, N, R, p

\* Sorted or not, the fragments of a partition hold the same rows.
LEMMA SortedRows ==
  ASSUME NEW outputs \in Seq(Done), PartsGrow(outputs), NEW k
  PROVE  FlattenSeq([i \in DOMAIN Sorted(outputs) |->
                       IF Sorted(outputs)[i].key = k THEN Sorted(outputs)[i].ids ELSE <<>>])
           = Finished(outputs, k)
<1> PICK N, p : N = Len(outputs) /\ p = Ranks(PathOrder(outputs), Len(outputs))
  OBVIOUS
<1> DEFINE part(x) == IF x.key = k THEN x.ids ELSE <<>>
           s == [i \in 1 .. N |-> part(outputs[i])]
           t == [i \in 1 .. N |-> part(outputs[p[i]])]
<1>1. N \in Nat /\ DOMAIN outputs = 1 .. N /\ \A i \in 1 .. N : outputs[i] \in Done
  OBVIOUS
<1>2. SortedWell(outputs, p, N)
  BY FragmentsSorted
<1>3. \A x \in Done : part(x) \in Rows /\ (Len(part(x)) # 0 => x.key = k) /\ x.part \in Nat
  BY DEF Done, Rows
<1>4. FlattenSeq([i \in DOMAIN Sorted(outputs) |->
                       IF Sorted(outputs)[i].key = k THEN Sorted(outputs)[i].ids ELSE <<>>])
        = FlattenSeq(t)
  <2>1. DOMAIN Sorted(outputs) = 1 .. N /\ \A i \in 1 .. N : Sorted(outputs)[i] = outputs[p[i]]
    BY <1>1 DEF Sorted
  <2>2. [i \in DOMAIN Sorted(outputs) |->
                       IF Sorted(outputs)[i].key = k THEN Sorted(outputs)[i].ids ELSE <<>>] = t
    BY <2>1
  <2> QED
    BY <2>2, Zenon
<1>5. Finished(outputs, k) = FlattenSeq(s)
  <2>1. [i \in DOMAIN outputs |-> IF outputs[i].key = k THEN outputs[i].ids ELSE <<>>] = s
    BY <1>1
  <2> QED
    BY <2>1, Zenon DEF Finished
<1> HIDE DEF part
<1>6. s \in Seq(Rows) /\ Len(s) = N /\ \A i \in 1 .. N : s[i] = part(outputs[i])
  BY <1>1, <1>3
<1>7. t \in Seq(Rows) /\ Len(t) = N /\ \A i \in 1 .. N : t[i] = s[p[i]] /\ t[i] = part(outputs[p[i]])
  <2>1. \A i \in 1 .. N : p[i] \in 1 .. N
    BY <1>2 DEF SortedWell
  <2> QED
    BY <1>1, <1>3, <2>1
<1> HIDE DEF s, t
<1>8. Rearranged(t, s, p, N)
  <2>1. \A m, n \in 1 .. N : m < n /\ Len(t[m]) # 0 /\ Len(t[n]) # 0 => p[m] < p[n]
    <3> TAKE m, n \in 1 .. N
    <3> HAVE m < n /\ Len(t[m]) # 0 /\ Len(t[n]) # 0
    <3> PICK i, j : i = p[m] /\ j = p[n]
      OBVIOUS
    <3>1. i \in 1 .. N /\ j \in 1 .. N /\ outputs[i] \in Done /\ outputs[j] \in Done
      BY <1>1, <1>2 DEF SortedWell
    <3>2. outputs[i].key = k /\ outputs[j].key = k
      BY <1>3, <1>7, <3>1
    <3>3. PathBefore(outputs[i], outputs[j])
      BY <1>2 DEF SortedWell
    <3>4. k \in Nat /\ outputs[i].part \in Nat /\ outputs[j].part \in Nat
      BY <3>1, <3>2 DEF Done
    <3>5. outputs[i].part < outputs[j].part
      BY <3>2, <3>3, <3>4 DEF PathBefore
    <3>6. ~(j < i) /\ i # j
      <4>1. i # j
        BY <3>4, <3>5
      <4>2. j < i => outputs[j].part < outputs[i].part
        BY <1>1, <3>1, <3>2 DEF PartsGrow
      <4> QED
        BY <3>4, <3>5, <4>1, <4>2
    <3> QED
      BY <3>1, <3>6
  <2> QED
    BY <1>2, <1>7, <2>1 DEF SortedWell, Rearranged
<1>9. FlattenSeq(t) = FlattenSeq(s)
  <2>1. s \in Seq(Seq(Nat \X Nat)) /\ t \in Seq(Seq(Nat \X Nat)) /\ Len(t) = Len(s) /\ Len(s) = N
    BY <1>6, <1>7 DEF Rows
  <2> QED
    BY <1>8, <2>1, FlattenRearranged
<1> QED
  BY <1>4, <1>5, <1>9

LEMMA ThirdNat ==
  ASSUME NEW p \in Nat, NEW q \in Nat, p >= q
  PROVE  (p - q) \div 3 \in Nat
  OBVIOUS

LEMMA ValidIsAllowed ==
  ASSUME NEW o \in WriterLimits, Valid(o)
  PROVE  Allowed(o)
<1>1. o.max_memory \in Nat /\ o.max_open_writers \in Nat /\ o.row_group_rows \in Nat /\ o.max_files \in Nat
  <2>1. WriterLimits \subseteq [max_memory : Nat, max_open_writers : Nat, row_group_rows : Nat,
                                max_files : Nat]
    BY BatchAssumption DEF BatchAssumption
  <2> QED
    BY <2>1
<1>2. writer_budget(o) = (o.max_memory - o.max_files) \div 3
  BY Zenon DEF writer_budget
<1>3. o.max_memory >= o.max_files
  BY DEF Valid, Affords
<1>4. writer_budget(o) \in Nat
  BY <1>1, <1>2, <1>3, ThirdNat, Zenon
<1>5. writer_budget(o) >= MinimumWorking
  BY DEF Valid
<1>6. 2 * FileReserve <= writer_budget(o)
  <2> PICK limit : limit = writer_budget(o)
    OBVIOUS
  <2>1. limit \in Nat /\ limit >= MinimumWorking
    BY <1>4, <1>5
  <2>2. 2 * FileReserve <= limit
    BY <2>1, ReserveAssumption DEF ReserveAssumption
  <2> QED
    BY <2>2
<1>7. o.max_open_writers > 0 /\ o.row_group_rows > 0 /\ o.max_files > 0
  BY DEF Valid
<1>8. o.max_open_writers # 0 /\ o.row_group_rows # 0 /\ o.max_files # 0
  BY <1>1, <1>7
<1> QED
  BY <1>1, <1>4, <1>6, <1>8 DEF Allowed

LEMMA ElementType ==
  ASSUME NEW X, NEW s \in Seq(X), NEW i \in DOMAIN s
  PROVE  s[i] \in X
  OBVIOUS

LEMMA NamedBatches ==
  ASSUME NEW list \in BatchLists
  PROVE  Named(list) \in Seq(Batches) /\ Len(Named(list)) = Len(list)
<1>1. list \in Seq([key : Nat, rows : Nat, weight : Nat])
  BY BatchAssumption DEF BatchAssumption
<1>2. PICK N : N = Len(list)
  OBVIOUS
<1>3. N \in Nat /\ DOMAIN list = 1 .. N
  BY <1>1, <1>2
<1>4. ASSUME NEW b \in 1 .. N
      PROVE  [key |-> list[b].key, weight |-> list[b].weight,
              ids |-> [i \in 1 .. list[b].rows |-> <<b, i>>]] \in Batches
  <2>1. list[b] \in [key : Nat, rows : Nat, weight : Nat] /\ b \in Nat
    <3>1. b \in DOMAIN list
      BY <1>3
    <3>2. list[b] \in [key : Nat, rows : Nat, weight : Nat]
      BY <1>1, <3>1, ElementType, Zenon
    <3> QED
      BY <1>3, <3>2
  <2>2. PICK m : m = list[b].rows
    OBVIOUS
  <2>3. m \in Nat
    BY <2>1, <2>2
  <2>4. [i \in 1 .. m |-> <<b, i>>] \in Seq(Nat \X Nat)
    BY <2>1, <2>3
  <2> QED
    BY <2>1, <2>2, <2>4 DEF Batches, Rows
<1>5. \A b \in 1 .. N : Named(list)[b] \in Batches
  BY <1>3, <1>4 DEF Named
<1>6. DOMAIN Named(list) = 1 .. N /\ Named(list) = [b \in 1 .. N |-> Named(list)[b]]
  BY <1>3 DEF Named
<1>7. PICK s : s = Named(list)
  OBVIOUS
<1>8. s = [b \in 1 .. N |-> s[b]] /\ \A b \in 1 .. N : s[b] \in Batches
  BY <1>5, <1>6, <1>7
<1>9. s \in Seq(Batches) /\ Len(s) = N
  BY <1>3, <1>8
<1> QED
  BY <1>2, <1>7, <1>9

\* Within the limits, whatever the batches.
LEMMA KeptWithinBudget ==
  ASSUME NEW c, NEW named, NEW n, NEW o, AfterBatches(c, named, n, o)
  PROVE  WithinBudget(c, named, o)
<1>1. CASE Settled(c, o)
  BY <1>1 DEF Settled, Kept, WithinBudget
<1>2. CASE /\ InLimits(c, o) /\ c.error # "none"
           /\ (\A i \in DOMAIN named : Weighs(named[i], o)) => c.error = "output files"
  BY <1>2 DEF InLimits, WithinBudget, Weighs
<1> QED
  BY <1>1, <1>2 DEF AfterBatches

\* All batches are in the finished fragments.
AllStored(outputs, named, o) ==
  /\ outputs \in Seq(Done) /\ PartsGrow(outputs) /\ Len(outputs) <= o.max_files
  /\ \A i \in DOMAIN outputs : \E created \in Nat : OutputKept(outputs[i], created, o)
  /\ \A k \in Nat : Finished(outputs, k) = KeyRows(named, Len(named), k)
  /\ SumFunctionOnSet([i \in DOMAIN outputs |-> outputs[i].rows], DOMAIN outputs)
       = TotalOf(named, Len(named))

LEMMA ClosedAllStored ==
  ASSUME NEW c, NEW named \in Seq(Batches), NEW o, Allowed(o), c.error = "none",
         AfterBatches(c, named, Len(named), o)
  PROVE  AllStored(close_all(c).outputs, named, o)
<1>1. /\ Settled(c, o) /\ Counted(c) = TotalOf(named, Len(named))
      /\ \A k \in Nat : StoredRows(c, k) = KeyRows(named, Len(named), k)
  BY DEF AfterBatches
<1>2. PICK d : d = close_all(c)
  OBVIOUS
<1>3. Reached(c, d, o) /\ DOMAIN d.open = {}
  BY <1>1, <1>2, CloseAllReaches DEF Settled
<1>4. Kept(d, o, {}) /\ CacheType(d) /\ SameRows(c, d)
  BY <1>3 DEF Reached, Kept
<1>5. d.outputs \in Seq(Done) /\ Len(d.outputs) \in Nat /\ d.created \in Nat
  BY <1>4 DEF CacheType
<1>6. Len(d.outputs) <= o.max_files
  <2>1. Cardinality(DOMAIN d.open) = 0
    BY <1>3, FS_EmptySet
  <2>2. Len(d.outputs) + Cardinality(DOMAIN d.open) <= d.created /\ d.created <= o.max_files
    BY <1>4 DEF Kept
  <2> QED
    BY <1>5, <2>1, <2>2 DEF Allowed
<1>7. PartsGrow(d.outputs)
  BY <1>4 DEF Kept, PartsOrdered, PartsGrow
<1>8. \A k \in Nat : Finished(d.outputs, k) = KeyRows(named, Len(named), k)
  <2> TAKE k \in Nat
  <2>1. StoredRows(d, k) = KeyRows(named, Len(named), k)
    BY <1>1, <1>4 DEF SameRows
  <2>2. StoredRows(d, k) = Finished(d.outputs, k) \o <<>>
    BY <1>3 DEF StoredRows
  <2>3. Finished(d.outputs, k) \in Rows
    BY <1>4, StoredType
  <2> QED
    BY <2>1, <2>2, <2>3, ConcatEmpty
<1>9. SumFunctionOnSet([i \in DOMAIN d.outputs |-> d.outputs[i].rows], DOMAIN d.outputs)
        = TotalOf(named, Len(named))
  <2> PICK sum : sum = SumFunctionOnSet([i \in DOMAIN d.outputs |-> d.outputs[i].rows], DOMAIN d.outputs)
    OBVIOUS
  <2>1. Counted(d) = sum + SumFunctionOnSet([k \in DOMAIN d.open |-> Len(d.open[k].ids)], DOMAIN d.open)
    BY DEF Counted
  <2>2. SumFunctionOnSet([k \in DOMAIN d.open |-> Len(d.open[k].ids)], DOMAIN d.open) = 0
    BY <1>3, SumEmpty
  <2>3. sum \in Nat
    <3>1. \A i \in DOMAIN d.outputs : d.outputs[i].rows \in Nat
      <4> TAKE i \in DOMAIN d.outputs
      <4>1. d.outputs[i] \in Done
        BY <1>5, ElementType, Zenon
      <4> QED
        BY <4>1 DEF Done
    <3>2. DOMAIN d.outputs = 1 .. Len(d.outputs)
      BY <1>5
    <3>3. IsFiniteSet(DOMAIN d.outputs)
      BY <1>5, <3>2, FS_Interval
    <3> QED
      BY <3>1, <3>3, SumNat
  <2>4. Counted(d) = Counted(c)
    BY <1>4 DEF SameRows
  <2> QED
    BY <1>1, <2>1, <2>2, <2>3, <2>4
<1>10. \A i \in DOMAIN d.outputs : OutputKept(d.outputs[i], d.created, o)
  BY <1>4 DEF Kept
<1> QED
  BY <1>2, <1>5, <1>6, <1>7, <1>8, <1>9, <1>10 DEF AllStored

\* What a reader of the receipt checks of the fragments.
LEMMA SortedFragments ==
  ASSUME NEW outputs, NEW named, NEW o, AllStored(outputs, named, o)
  PROVE  LET s == Sorted(outputs)
         IN /\ DOMAIN s = 1 .. Len(outputs) /\ s \in Seq(Done) /\ Len(s) <= o.max_files
            /\ \A i \in DOMAIN s : \E created \in Nat : s[i] \in Done /\ OutputKept(s[i], created, o)
            /\ \A i, j \in DOMAIN s : i # j => <<s[i].key, s[i].part>> # <<s[j].key, s[j].part>>
            /\ SumFunctionOnSet([i \in DOMAIN s |-> s[i].rows], DOMAIN s) = TotalOf(named, Len(named))
<1>1. PICK N, p, s : /\ N = Len(outputs) /\ p = Ranks(PathOrder(outputs), Len(outputs))
                     /\ s = Sorted(outputs)
  OBVIOUS
<1>2. /\ outputs \in Seq(Done) /\ N \in Nat /\ DOMAIN outputs = 1 .. N /\ N <= o.max_files
      /\ \A i \in 1 .. N : outputs[i] \in Done
  BY <1>1 DEF AllStored
<1>3. SortedWell(outputs, p, N)
  BY <1>1, <1>2, FragmentsSorted DEF AllStored
<1>4. p \in [1 .. N -> 1 .. N]
  BY <1>3 DEF SortedWell
<1>5. s = [n \in 1 .. N |-> outputs[p[n]]]
  BY <1>1, <1>2, Zenon DEF Sorted
<1>6. /\ DOMAIN s = 1 .. N /\ s \in Seq(Done) /\ Len(s) = N
      /\ \A n \in 1 .. N : p[n] \in 1 .. N /\ s[n] = outputs[p[n]] /\ s[n] \in Done
  BY <1>2, <1>4, <1>5
<1>7. \A i \in 1 .. N : \E created \in Nat : s[i] \in Done /\ OutputKept(s[i], created, o)
  BY <1>2, <1>6 DEF AllStored
<1>8. \A i, j \in 1 .. N : i # j => <<s[i].key, s[i].part>> # <<s[j].key, s[j].part>>
  <2> TAKE i, j \in 1 .. N
  <2> HAVE i # j
  <2>1. ASSUME NEW m \in 1 .. N, NEW n \in 1 .. N, m < n
        PROVE  <<s[m].key, s[m].part>> # <<s[n].key, s[n].part>>
    <3> PICK a, b : a = s[m] /\ b = s[n]
      OBVIOUS
    <3>0. PathBefore(outputs[p[m]], outputs[p[n]])
      BY <1>3, <2>1 DEF SortedWell
    <3>1. PathBefore(a, b) /\ a \in Done /\ b \in Done
      <4>1. a = outputs[p[m]] /\ b = outputs[p[n]] /\ a \in Done /\ b \in Done
        BY <1>6
      <4> QED
        BY <3>0, <4>1, Zenon
    <3>2. a.key < b.key \/ (a.key = b.key /\ a.part < b.part)
      BY <3>1 DEF PathBefore
    <3>3. a.key \in Nat /\ b.key \in Nat /\ a.part \in Nat /\ b.part \in Nat
      BY <3>1 DEF Done
    <3>4. a.key # b.key \/ a.part # b.part
      BY <3>2, <3>3
    <3> QED
      BY <3>4
  <2>2. i < j \/ j < i
    OBVIOUS
  <2> QED
    BY <2>1, <2>2
<1>9. SumFunctionOnSet([i \in 1 .. N |-> s[i].rows], 1 .. N) = TotalOf(named, Len(named))
  <2>1. PICK v, w : v = [i \in 1 .. N |-> s[i].rows] /\ w = [i \in 1 .. N |-> outputs[i].rows]
    OBVIOUS
  <2>2. IsFiniteSet(1 .. N)
    BY <1>2, FS_Interval
  <2>3. \A i \in 1 .. N : v[i] = w[p[i]] /\ v[i] \in Nat
    BY <1>6, <2>1 DEF Done
  <2>4. /\ \A i, j \in 1 .. N : p[i] = p[j] => i = j
        /\ \A i \in 1 .. N : \E n \in 1 .. N : p[n] = i
    BY <1>3 DEF SortedWell
  <2>a. PICK A : A = 1 .. N
    OBVIOUS
  <2>5. \A y : y \in A <=> \E x \in A : y = p[x]
    <3> TAKE y
    <3>1. \A x \in A : p[x] \in A
      BY <1>4, <2>a
    <3> QED
      BY <2>4, <2>a, <3>1
  <2>6. SumFunctionOnSet(v, A) = SumFunctionOnSet(w, A)
    <3>1. /\ \A i, j \in A : p[i] = p[j] => i = j
          /\ \A x \in A : v[x] = w[p[x]] /\ v[x] \in Nat
      BY <2>3, <2>4, <2>a
    <3>2. IsFiniteSet(A)
      BY <2>2, <2>a
    <3> QED
      BY <2>5, <3>1, <3>2, SumImage
  <2>7. SumFunctionOnSet(w, 1 .. N) = TotalOf(named, Len(named))
    BY <1>2, <2>1 DEF AllStored
  <2> QED
    BY <2>1, <2>6, <2>7, <2>a
<1> QED
  BY <1>1, <1>2, <1>6, <1>7, <1>8, <1>9

\* The receipt of the fragments is accepted for their rows, and for no other number.
LEMMA ReceiptAccepted ==
  ASSUME NEW s \in Seq(Done), NEW total \in Nat, NEW max, Len(s) <= max,
         \A i \in DOMAIN s : 0 < s[i].rows /\ 0 < s[i].batches /\ s[i].batches <= s[i].rows,
         \A i, j \in DOMAIN s : i # j => <<s[i].key, s[i].part>> # <<s[j].key, s[j].part>>,
         SumFunctionOnSet([i \in DOMAIN s |-> s[i].rows], DOMAIN s) = total
  PROVE  /\ read_receipt(write_receipt(s, total), total, max)
         /\ ~read_receipt(write_receipt(s, total), total + 1, max)
<1>1. PICK r : r = [version |-> 2, rows |-> total, fragments |-> s]
  OBVIOUS
<1>2. write_receipt(s, total) = r
  BY <1>1, Zenon DEF write_receipt
<1>3. r.version = 2 /\ r.rows = total /\ r.fragments = s
  BY <1>1
<1>4. \A i \in DOMAIN s : s[i].rows > 0 /\ s[i].batches > 0
  <2> TAKE i \in DOMAIN s
  <2>1. s[i].rows \in Nat /\ s[i].batches \in Nat
    <3>1. s[i] \in Done
      BY ElementType, Zenon
    <3> QED
      BY <3>1 DEF Done
  <2> QED
    BY <2>1
<1>5. SumFunction([i \in DOMAIN s |-> s[i].rows]) = total
  <2>1. PICK w : w = [i \in DOMAIN s |-> s[i].rows]
    OBVIOUS
  <2>2. DOMAIN w = DOMAIN s
    BY <2>1
  <2>3. SumFunction(w) = SumFunctionOnSet(w, DOMAIN w)
    BY WriterSums, Zenon
  <2>4. SumFunctionOnSet(w, DOMAIN s) = total
    BY <2>1, Zenon
  <2> QED
    BY <2>1, <2>2, <2>3, <2>4, Zenon
<1>6. read_receipt(r, total, max)
  <2>1. SumFunction([i \in DOMAIN r.fragments |-> r.fragments[i].rows]) = total
    BY <1>3, <1>5, Zenon
  <2>2. Len(r.fragments) <= max
    BY <1>3, Zenon
  <2>3. \A i \in DOMAIN r.fragments :
          r.fragments[i].rows > 0 /\ r.fragments[i].batches > 0 /\ r.fragments[i].batches <= r.fragments[i].rows
    BY <1>3, <1>4, Zenon
  <2>4. \A i, j \in DOMAIN r.fragments : i # j =>
          <<r.fragments[i].key, r.fragments[i].part>> # <<r.fragments[j].key, r.fragments[j].part>>
    BY <1>3, Zenon
  <2> QED
    BY <1>3, <2>1, <2>2, <2>3, <2>4, Zenon DEF read_receipt
<1>7. ~read_receipt(r, total + 1, max)
  <2>1. total # total + 1
    OBVIOUS
  <2>2. read_receipt(r, total + 1, max) => r.rows = total + 1
    BY Zenon DEF read_receipt
  <2> QED
    BY <1>3, <2>1, <2>2, Zenon
<1> QED
  BY <1>2, <1>6, <1>7, Zenon

LEMMA TotalType ==
  ASSUME NEW named \in Seq(Batches)
  PROVE  /\ TotalOf(named, Len(named)) \in Nat
         /\ SumFunction([b \in DOMAIN named |-> Len(named[b].ids)]) = TotalOf(named, Len(named))
<1>1. PICK N : N = Len(named)
  OBVIOUS
<1>2. N \in Nat /\ DOMAIN named = 1 .. N
  BY <1>1
<1>3. PICK w : w = [b \in DOMAIN named |-> Len(named[b].ids)]
  OBVIOUS
<1>4. DOMAIN w = 1 .. N
  BY <1>2, <1>3
<1>5. \A i \in 1 .. N : w[i] \in Nat
  <2> TAKE i \in 1 .. N
  <2>1. named[i] \in Batches
    BY <1>2, ElementType, Zenon
  <2>2. Len(named[i].ids) \in Nat
    BY <2>1 DEF Batches, Rows
  <2> QED
    BY <1>2, <1>3, <2>2
<1>6. SumFunctionOnSet(w, 1 .. N) \in Nat
  <2>1. IsFiniteSet(1 .. N)
    BY <1>2, FS_Interval
  <2> QED
    BY <1>5, <2>1, SumNat
<1>7. SumFunction(w) = SumFunctionOnSet(w, DOMAIN w)
  BY Zenon DEF SumFunction
<1>8. TotalOf(named, N) = SumFunctionOnSet(w, 1 .. N)
  BY <1>3, Zenon DEF TotalOf, SizesOf
<1> QED
  BY <1>1, <1>3, <1>4, <1>6, <1>7, <1>8, Zenon

LEMMA FragmentsPartition ==
  ASSUME NEW outputs, NEW named \in Seq(Batches), NEW o, AllStored(outputs, named, o), Allowed(o)
  PROVE  RowsPartitioned(Sorted(outputs), named, o)
<1>1. PICK s, total : s = Sorted(outputs) /\ total = TotalOf(named, Len(named))
  OBVIOUS
<1>2. /\ s \in Seq(Done) /\ Len(s) <= o.max_files
      /\ \A i \in DOMAIN s : \E created \in Nat : s[i] \in Done /\ OutputKept(s[i], created, o)
      /\ \A i, j \in DOMAIN s : i # j => <<s[i].key, s[i].part>> # <<s[j].key, s[j].part>>
      /\ SumFunctionOnSet([i \in DOMAIN s |-> s[i].rows], DOMAIN s) = total
  BY <1>1, SortedFragments
<1>3. total \in Nat /\ SumFunction([b \in DOMAIN named |-> Len(named[b].ids)]) = total
  BY <1>1, TotalType
<1>4. \A i \in DOMAIN s : /\ 0 < s[i].rows /\ 0 < s[i].batches /\ s[i].batches <= s[i].rows
                          /\ Len(s[i].ids) <= o.row_group_rows
  <2> TAKE i \in DOMAIN s
  <2>1. PICK x : x = s[i]
    OBVIOUS
  <2>2. PICK created \in Nat : x \in Done /\ OutputKept(x, created, o)
    BY <1>2, <2>1
  <2>3. x.rows \in Nat /\ x.batches \in Nat
    BY <2>2 DEF Done
  <2>4. /\ x.rows = Len(x.ids) /\ 0 < x.batches /\ x.batches <= x.rows
        /\ x.rows <= o.row_group_rows
    BY <2>2 DEF OutputKept
  <2>5. 0 < x.rows
    BY <2>3, <2>4
  <2> QED
    BY <2>1, <2>4, <2>5
<1>5. /\ read_receipt(write_receipt(s, total), total, o.max_files)
      /\ ~read_receipt(write_receipt(s, total), total + 1, o.max_files)
  BY <1>2, <1>3, <1>4, ReceiptAccepted
<1>6. ASSUME NEW key \in {named[b].key : b \in DOMAIN named}
      PROVE  FlattenSeq([i \in DOMAIN s |-> IF s[i].key = key THEN s[i].ids ELSE <<>>])
               = FlattenSeq([i \in DOMAIN named |-> IF named[i].key = key THEN named[i].ids ELSE <<>>])
  <2>1. key \in Nat
    <3> PICK b \in DOMAIN named : key = named[b].key
      OBVIOUS
    <3>1. named[b] \in Batches
      BY ElementType, Zenon
    <3> QED
      BY <3>1 DEF Batches
  <2>2. outputs \in Seq(Done) /\ PartsGrow(outputs)
    BY DEF AllStored
  <2>3. FlattenSeq([i \in DOMAIN s |-> IF s[i].key = key THEN s[i].ids ELSE <<>>]) = Finished(outputs, key)
    <3>1. FlattenSeq([i \in DOMAIN Sorted(outputs) |->
                       IF Sorted(outputs)[i].key = key THEN Sorted(outputs)[i].ids ELSE <<>>])
            = Finished(outputs, key)
      BY <2>2, SortedRows
    <3> QED
      BY <1>1, <3>1, Zenon
  <2>4. Finished(outputs, key) = KeyRows(named, Len(named), key)
    BY <2>1 DEF AllStored
  <2>5. DOMAIN named = 1 .. Len(named)
    OBVIOUS
  <2>6. KeyRows(named, Len(named), key)
          = FlattenSeq([i \in DOMAIN named |-> IF named[i].key = key THEN named[i].ids ELSE <<>>])
    BY <2>5, Zenon DEF KeyRows
  <2> QED
    BY <2>3, <2>4, <2>6, Zenon
<1>7. RowsPartitioned(s, named, o)
  BY <1>3, <1>4, <1>5, <1>6, Zenon DEF RowsPartitioned
<1> QED
  BY <1>1, <1>7, Zenon

\* Whatever is evicted when, a conversion stores every row once, in order.
THEOREM FragmentsHold == FragmentsHoldRows
<1> SUFFICES ASSUME NEW list \in BatchLists, NEW o \in WriterLimits, Valid(o)
             PROVE  LET named == Named(list)
                        caches == Caches(named, o)
                    IN /\ \A n \in DOMAIN caches : WithinBudget(caches[n], named, o)
                       /\ caches[Len(named)].error = "none" =>
                            RowsPartitioned(Fragments(named, o), named, o)
  BY Zenon DEF FragmentsHoldRows
<1>1. PICK named, caches : named = Named(list) /\ caches = Caches(Named(list), o)
  OBVIOUS
<1>2. Allowed(o)
  BY ValidIsAllowed
<1>3. named \in Seq(Batches) /\ Len(named) \in Nat
  BY <1>1, NamedBatches
<1>4. caches = Caches(named, o)
  BY <1>1, Zenon
<1>5. /\ DOMAIN caches = 0 .. Len(named)
      /\ \A n \in 0 .. Len(named) : AfterBatches(caches[n], named, n, o)
  BY <1>2, <1>3, <1>4, CachesKeep
<1>6. \A n \in DOMAIN caches : WithinBudget(caches[n], named, o)
  BY <1>5, KeptWithinBudget
<1>7. ASSUME caches[Len(named)].error = "none"
      PROVE  RowsPartitioned(Fragments(named, o), named, o)
  <2>1. PICK c, outputs : c = caches[Len(named)] /\ outputs = close_all(caches[Len(named)]).outputs
    OBVIOUS
  <2>2. Len(named) \in 0 .. Len(named)
    BY <1>3
  <2>3. AfterBatches(c, named, Len(named), o) /\ c.error = "none"
    BY <1>5, <1>7, <2>1, <2>2
  <2>4. outputs = close_all(c).outputs
    BY <2>1, Zenon
  <2>5. AllStored(outputs, named, o)
    BY <1>2, <1>3, <2>3, <2>4, ClosedAllStored
  <2>6. outputs = FinalOutputs(named, o)
    BY <1>4, <2>1, Zenon DEF FinalOutputs
  <2>7. outputs \in Seq(Done) /\ PartsGrow(outputs)
    BY <2>5 DEF AllStored
  <2>8. Fragments(named, o) = Sorted(outputs)
    BY <2>6, <2>7, FragmentsAre
  <2>9. RowsPartitioned(Sorted(outputs), named, o)
    BY <1>2, <1>3, <2>5, FragmentsPartition
  <2> QED
    BY <2>8, <2>9, Zenon
<1> QED
  BY <1>1, <1>6, <1>7, Zenon

-----------------------------------------------------------------------------
(* Rows in the order of their digests.                                     *)

Permuted(p, N) ==
  /\ p \in [1 .. N -> 1 .. N]
  /\ \A m, n \in 1 .. N : p[m] = p[n] => m = n
  /\ \A i \in 1 .. N : \E n \in 1 .. N : p[n] = i

\* Rows that can be ordered: equal digests are told apart.
Pushed(rows, N) ==
  /\ DOMAIN rows = 1 .. N
  /\ \A i \in 1 .. N : rows[i].digest \in Nat /\ rows[i].sequence \in Nat
  /\ \A i, j \in 1 .. N : rows[i].sequence = rows[j].sequence => i = j

DigestOrder(rows, N) == {x \in (1 .. N) \X (1 .. N) : DigestBefore(rows[x[1]], rows[x[2]])}

LEMMA DigestsOrder ==
  ASSUME NEW N \in Nat, NEW rows, Pushed(rows, N)
  PROVE  StrictOrder(DigestOrder(rows, N), 1 .. N)
<1>0. PICK R : R = DigestOrder(rows, N)
  OBVIOUS
<1>1. \A i \in 1 .. N : rows[i].digest \in Nat /\ rows[i].sequence \in Nat
  BY DEF Pushed
<1>2. \A x, y \in 1 .. N :
        <<x, y>> \in R <=> \/ rows[x].digest < rows[y].digest
                           \/ (rows[x].digest = rows[y].digest /\ rows[x].sequence < rows[y].sequence)
  BY <1>0 DEF DigestOrder, DigestBefore
<1>3. \A x \in 1 .. N : <<x, x>> \notin R
  BY <1>1, <1>2
<1>4. \A x, y, z \in 1 .. N : <<x, y>> \in R /\ <<y, z>> \in R => <<x, z>> \in R
  <2> TAKE x, y, z \in 1 .. N
  <2> HAVE <<x, y>> \in R /\ <<y, z>> \in R
  <2> PICK a, b, c, d, e, f : /\ a = rows[x].digest /\ b = rows[y].digest /\ c = rows[z].digest
                              /\ d = rows[x].sequence /\ e = rows[y].sequence /\ f = rows[z].sequence
    OBVIOUS
  <2>1. a \in Nat /\ b \in Nat /\ c \in Nat /\ d \in Nat /\ e \in Nat /\ f \in Nat
    BY <1>1
  <2>2. (a < b \/ (a = b /\ d < e)) /\ (b < c \/ (b = c /\ e < f))
    BY <1>2
  <2>3. a < c \/ (a = c /\ d < f)
    BY <2>1, <2>2
  <2> QED
    BY <1>2, <2>3
<1>5. \A x, y \in 1 .. N : x # y => <<x, y>> \in R \/ <<y, x>> \in R
  <2> TAKE x, y \in 1 .. N
  <2> HAVE x # y
  <2> PICK a, b, d, e : /\ a = rows[x].digest /\ b = rows[y].digest
                        /\ d = rows[x].sequence /\ e = rows[y].sequence
    OBVIOUS
  <2>1. d # e
    BY DEF Pushed
  <2>2. a \in Nat /\ b \in Nat /\ d \in Nat /\ e \in Nat
    BY <1>1
  <2>3. a < b \/ b < a \/ (a = b /\ (d < e \/ e < d))
    BY <2>1, <2>2
  <2> QED
    BY <1>2, <2>3
<1> QED
  BY <1>0, <1>3, <1>4, <1>5 DEF StrictOrder

\* An index is a permutation of its rows, by their digests.
IndexedBy(rows, p, N) ==
  /\ Permuted(p, N) /\ RowIndex(rows) = [n \in 1 .. N |-> rows[p[n]]]
  /\ \A m, n \in 1 .. N : m < n => rows[p[m]].digest <= rows[p[n]].digest

LEMMA IndexSorts ==
  ASSUME NEW N \in Nat, NEW rows, Pushed(rows, N)
  PROVE  \E p : IndexedBy(rows, p, N)
<1> DEFINE place(i) == Cardinality({j \in DOMAIN rows : DigestBefore(rows[j], rows[i])})
           q(n) == CHOOSE i \in DOMAIN rows : place(i) = n - 1
           R == DigestOrder(rows, N)
           p == Ranks(R, N)
<1>1. RowIndex(rows) = [n \in DOMAIN rows |-> rows[q(n)]]
  BY Zenon DEF RowIndex
<1>2. DOMAIN rows = 1 .. N /\ StrictOrder(R, 1 .. N)
  BY DigestsOrder DEF Pushed
<1>3. \A i \in 1 .. N : place(i) = Place(R, 1 .. N, i)
  <2> TAKE i \in 1 .. N
  <2>1. {j \in DOMAIN rows : DigestBefore(rows[j], rows[i])} = {j \in 1 .. N : <<j, i>> \in R}
    BY <1>2 DEF DigestOrder
  <2>2. Cardinality({j \in 1 .. N : <<j, i>> \in R}) = Cardinality({j \in 1 .. N : <<j, i>> \in R})
    BY Zenon DEF Cardinality, Cardinality
  <2> QED
    BY <2>1, <2>2, Zenon DEF Place
<1>4. IsFiniteSet(1 .. N) /\ Cardinality(1 .. N) = N
  BY FS_Interval
<1>5. /\ p \in [1 .. N -> 1 .. N]
      /\ \A m, n \in 1 .. N : p[m] = p[n] => m = n
      /\ \A i \in 1 .. N : \E n \in 1 .. N : p[n] = i
      /\ \A m, n \in 1 .. N : m < n <=> <<p[m], p[n]>> \in R
  BY <1>2, RanksSort
<1>6. /\ \A m \in 1 .. N : \E x \in 1 .. N : Place(R, 1 .. N, x) = m - 1
      /\ \A x, y \in 1 .. N : Place(R, 1 .. N, x) = Place(R, 1 .. N, y) => x = y
  <2>1. /\ \A m \in 1 .. Cardinality(1 .. N) : \E x \in 1 .. N : Place(R, 1 .. N, x) = m - 1
        /\ \A x, y \in 1 .. N : Place(R, 1 .. N, x) = Place(R, 1 .. N, y) => x = y
    BY <1>2, <1>4, PlacesAreAll
  <2> QED
    BY <1>4, <2>1
<1>7. \A n \in 1 .. N : p[n] = CHOOSE i \in 1 .. N : Place(R, 1 .. N, i) = n - 1
  BY DEF Ranks
<1>8. \A m, n \in 1 .. N : m < n => rows[p[m]].digest <= rows[p[n]].digest
  <2> TAKE m, n \in 1 .. N
  <2> HAVE m < n
  <2>1. <<p[m], p[n]>> \in R /\ p[m] \in 1 .. N /\ p[n] \in 1 .. N
    BY <1>5
  <2> HIDE DEF p
  <2>2. DigestBefore(rows[p[m]], rows[p[n]])
    BY <2>1 DEF DigestOrder
  <2>3. rows[p[m]].digest \in Nat /\ rows[p[n]].digest \in Nat
    BY <2>1 DEF Pushed
  <2> QED
    BY <2>2, <2>3 DEF DigestBefore
<1> HIDE DEF place, R, p
<1>9. ASSUME NEW n \in 1 .. N PROVE q(n) = p[n]
  <2>1. PICK m : m = n - 1
    OBVIOUS
  <2>2. \E i \in DOMAIN rows : place(i) = n - 1
    BY <1>2, <1>3, <1>6
  <2>3. q(n) \in 1 .. N /\ place(q(n)) = n - 1
    BY <1>2, <2>2
  <2>4. p[n] \in 1 .. N /\ Place(R, 1 .. N, p[n]) = n - 1
    BY <1>6, <1>7
  <2> QED
    BY <1>3, <1>6, <2>3, <2>4
<1> HIDE DEF q
<1>10. [n \in DOMAIN rows |-> rows[q(n)]] = [n \in 1 .. N |-> rows[p[n]]]
  BY <1>2, <1>9
<1>11. Permuted(p, N)
  BY <1>5 DEF Permuted
<1>12. IndexedBy(rows, p, N)
  BY <1>1, <1>8, <1>10, <1>11 DEF IndexedBy
<1> QED
  BY <1>12

Times(x, N, d) == Cardinality({i \in 1 .. N : x[i] = d})
Lower(x, N, v) == {i \in 1 .. N : x[i] < v}

LEMMA SizeOfFirst ==
  ASSUME NEW N \in Nat, NEW A \in SUBSET (1 .. N), \A i \in A, j \in 1 .. N : j <= i => j \in A
  PROVE  Cardinality(A) \in Nat /\ \A i \in 1 .. N : i \in A <=> i <= Cardinality(A)
<1>1. IsFiniteSet(1 .. N) /\ IsFiniteSet(A)
  <2>1. IsFiniteSet(1 .. N)
    BY FS_Interval
  <2> QED
    BY <2>1, FS_Subset
<1>2. Cardinality(A) \in Nat
  BY <1>1, FS_CardinalityType
<1>3. ASSUME NEW i \in 1 .. N, i \in A PROVE i <= Cardinality(A)
  <2>1. i \in Nat /\ 1 .. i \subseteq A
    BY <1>3
  <2>2. Cardinality(1 .. i) = i
    BY <2>1, FS_Interval
  <2>3. Cardinality(1 .. i) <= Cardinality(A)
    BY <1>1, <2>1, FS_Subset
  <2> QED
    BY <2>2, <2>3
<1>4. ASSUME NEW i \in 1 .. N, i \notin A PROVE ~(i <= Cardinality(A))
  <2>1. PICK m : m = i - 1
    OBVIOUS
  <2>2. m \in Nat /\ m + 1 = i /\ A \subseteq 1 .. m
    BY <1>4, <2>1
  <2>3. IsFiniteSet(1 .. m) /\ Cardinality(1 .. m) = m
    BY <2>2, FS_Interval
  <2>4. Cardinality(A) <= m
    BY <2>2, <2>3, FS_Subset
  <2> QED
    BY <1>2, <2>2, <2>4
<1> QED
  BY <1>2, <1>3, <1>4

\* One value more.
LEMMA LowerNext ==
  ASSUME NEW N \in Nat, NEW x, \A i \in 1 .. N : x[i] \in Nat, NEW v \in Nat
  PROVE  Cardinality(Lower(x, N, v + 1)) = Cardinality(Lower(x, N, v)) + Times(x, N, v)
<1>0. PICK A, B, C : /\ A = Lower(x, N, v) /\ B = {i \in 1 .. N : x[i] = v}
                     /\ C = Lower(x, N, v + 1)
  OBVIOUS
<1>1. C = A \cup B /\ A \cap B = {}
  BY <1>0 DEF Lower
<1>2. IsFiniteSet(1 .. N) /\ A \subseteq 1 .. N /\ B \subseteq 1 .. N
  BY <1>0, FS_Interval DEF Lower
<1>3. IsFiniteSet(A) /\ IsFiniteSet(B)
  BY <1>2, FS_Subset
<1>4. Cardinality(A \cup B) = Cardinality(A) + Cardinality(B) - Cardinality(A \cap B)
  BY <1>3, FS_Union
<1>5. Cardinality(A \cap B) = 0 /\ Cardinality(A) \in Nat /\ Cardinality(B) \in Nat
  BY <1>1, <1>3, FS_EmptySet, FS_CardinalityType
<1>6. Cardinality(B) = Times(x, N, v)
  BY <1>0 DEF Times
<1>7. Cardinality(C) = Cardinality(A) + Cardinality(B)
  BY <1>1, <1>4, <1>5
<1> QED
  BY <1>0, <1>6, <1>7, Zenon

LEMMA LowerSame ==
  ASSUME NEW N \in Nat, NEW x, \A i \in 1 .. N : x[i] \in Nat,
         NEW M \in Nat, NEW y, \A i \in 1 .. M : y[i] \in Nat,
         \A d \in Nat : Times(x, N, d) = Times(y, M, d)
  PROVE  \A v \in Nat : Cardinality(Lower(x, N, v)) = Cardinality(Lower(y, M, v))
<1> DEFINE T == {v \in Nat : Cardinality(Lower(x, N, v)) = Cardinality(Lower(y, M, v))}
<1>1. 0 \in T
  <2>1. Lower(x, N, 0) = {} /\ Lower(y, M, 0) = {}
    BY DEF Lower
  <2> QED
    BY <2>1
<1>2. ASSUME NEW v \in T PROVE v + 1 \in T
  <2>1. v \in Nat /\ Cardinality(Lower(x, N, v)) = Cardinality(Lower(y, M, v))
    BY <1>2
  <2>2. /\ Cardinality(Lower(x, N, v + 1)) = Cardinality(Lower(x, N, v)) + Times(x, N, v)
        /\ Cardinality(Lower(y, M, v + 1)) = Cardinality(Lower(y, M, v)) + Times(y, M, v)
    BY <2>1, LowerNext
  <2>3. Times(x, N, v) = Times(y, M, v)
    BY <2>1
  <2> QED
    BY <2>1, <2>2, <2>3
<1> HIDE DEF T
<1>3. T = Nat
  <2>1. T \in SUBSET Nat
    BY DEF T
  <2> QED
    BY <1>1, <1>2, <2>1, NatSetInduction
<1> QED
  BY <1>3 DEF T

Ascends(x, N) == \A m, n \in 1 .. N : m < n => x[m] <= x[n]

\* A list that ascends is told by how often each value is in it.
LEMMA FoundBelow ==
  ASSUME NEW N \in Nat, NEW x, \A i \in 1 .. N : x[i] \in Nat, Ascends(x, N), NEW v \in Nat
  PROVE  /\ Cardinality(Lower(x, N, v)) \in Nat
         /\ \A i \in 1 .. N : x[i] < v <=> i <= Cardinality(Lower(x, N, v))
<1> PICK A : A = Lower(x, N, v)
  OBVIOUS
<1>1. A \in SUBSET (1 .. N) /\ \A i \in 1 .. N : i \in A <=> x[i] < v
  BY DEF Lower
<1>2. ASSUME NEW i \in A, NEW j \in 1 .. N, j <= i PROVE j \in A
  <2>1. i \in 1 .. N /\ x[i] < v /\ (j = i \/ j < i)
    BY <1>1, <1>2
  <2>2. x[j] <= x[i]
    BY <2>1 DEF Ascends
  <2>3. x[j] < v
    BY <2>1, <2>2
  <2> QED
    BY <1>1, <2>3
<1>3. Cardinality(A) \in Nat /\ \A i \in 1 .. N : i \in A <=> i <= Cardinality(A)
  BY <1>1, <1>2, SizeOfFirst
<1> QED
  BY <1>1, <1>3

\* y has a value at each place that x has, and no greater one.
LEMMA NoGreater ==
  ASSUME NEW N \in Nat, NEW x, \A i \in 1 .. N : x[i] \in Nat, Ascends(x, N),
         NEW M \in Nat, NEW y, \A i \in 1 .. M : y[i] \in Nat, Ascends(y, M),
         \A v \in Nat : Cardinality(Lower(x, N, v)) = Cardinality(Lower(y, M, v)),
         NEW i \in 1 .. N
  PROVE  i \in 1 .. M /\ y[i] <= x[i]
<1>1. PICK v : v = x[i] + 1
  OBVIOUS
<1>2. v \in Nat /\ x[i] < v
  BY <1>1
<1>3. i <= Cardinality(Lower(x, N, v)) /\ Cardinality(Lower(x, N, v)) = Cardinality(Lower(y, M, v))
  BY <1>2, FoundBelow
<1>4. i <= Cardinality(Lower(y, M, v)) /\ Cardinality(Lower(y, M, v)) \in Nat
  BY <1>2, <1>3, FoundBelow
<1>5. i \in 1 .. M
  <2>1. Lower(y, M, v) \in SUBSET (1 .. M) /\ IsFiniteSet(1 .. M) /\ Cardinality(1 .. M) = M
    BY FS_Interval DEF Lower
  <2>2. Cardinality(Lower(y, M, v)) <= M
    BY <2>1, FS_Subset
  <2> QED
    BY <1>4, <2>2
<1>6. y[i] < v
  BY <1>2, <1>4, <1>5, FoundBelow
<1> QED
  BY <1>1, <1>5, <1>6

LEMMA SameSorted ==
  ASSUME NEW N \in Nat, NEW x, \A i \in 1 .. N : x[i] \in Nat, Ascends(x, N),
         NEW M \in Nat, NEW y, \A i \in 1 .. M : y[i] \in Nat, Ascends(y, M),
         \A d \in Nat : Times(x, N, d) = Times(y, M, d)
  PROVE  N = M /\ \A i \in 1 .. N : x[i] = y[i]
<1>1. \A v \in Nat : Cardinality(Lower(x, N, v)) = Cardinality(Lower(y, M, v))
  BY LowerSame, SMTT(30)
<1>2. \A i \in 1 .. N : i \in 1 .. M /\ y[i] <= x[i]
  BY <1>1, NoGreater
<1>3. \A i \in 1 .. M : i \in 1 .. N /\ x[i] <= y[i]
  <2>1. \A v \in Nat : Cardinality(Lower(y, M, v)) = Cardinality(Lower(x, N, v))
    BY <1>1
  <2> QED
    BY <2>1, NoGreater
<1>4. N = M
  <2>1. N # 0 => N \in 1 .. M
    BY <1>2
  <2>2. M # 0 => M \in 1 .. N
    BY <1>3
  <2> QED
    BY <2>1, <2>2
<1>5. ASSUME NEW i \in 1 .. N PROVE x[i] = y[i]
  <2>1. i \in 1 .. M /\ y[i] <= x[i] /\ x[i] <= y[i]
    BY <1>2, <1>3, <1>4
  <2> QED
    BY <2>1
<1> QED
  BY <1>4, <1>5

LEMMA SizeOfImage ==
  ASSUME NEW S, IsFiniteSet(S), NEW f, \A x, y \in S : f[x] = f[y] => x = y,
         NEW T, \A y : y \in T <=> \E x \in S : y = f[x]
  PROVE  Cardinality(T) = Cardinality(S)
<1>1. T = {f[x] : x \in S}
  OBVIOUS
<1>2. Cardinality({f[x] : x \in S}) = Cardinality(S)
  BY ImageSize
<1> QED
  BY <1>1, <1>2

\* y is x in the order p.
InOrder(y, x, p, N) == Permuted(p, N) /\ \A n \in 1 .. N : y[n] = x[p[n]]

\* In another order each value is there as often.
LEMMA TimesPermuted ==
  ASSUME NEW N \in Nat, NEW x, NEW y, NEW p, InOrder(y, x, p, N), NEW d
  PROVE  Times(y, N, d) = Times(x, N, d)
<1>0. PICK A, B : A = {n \in 1 .. N : y[n] = d} /\ B = {i \in 1 .. N : x[i] = d}
  OBVIOUS
<1>1. /\ \A n \in 1 .. N : p[n] \in 1 .. N
      /\ \A m, n \in 1 .. N : p[m] = p[n] => m = n
      /\ \A i \in 1 .. N : \E n \in 1 .. N : p[n] = i
      /\ \A n \in 1 .. N : y[n] = x[p[n]]
  BY DEF InOrder, Permuted
<1>2. \A i : i \in B <=> \E n \in A : i = p[n]
  <2>1. \A n \in A : p[n] \in B
    BY <1>0, <1>1
  <2>2. \A i \in B : \E n \in A : i = p[n]
    BY <1>0, <1>1
  <2> QED
    BY <2>1, <2>2
<1>3. IsFiniteSet(1 .. N) /\ A \in SUBSET (1 .. N)
  BY <1>0, FS_Interval
<1>4. IsFiniteSet(A)
  BY <1>3, FS_Subset
<1>5. \A m, n \in A : p[m] = p[n] => m = n
  BY <1>0, <1>1
<1>6. Cardinality(B) = Cardinality(A)
  BY <1>2, <1>4, <1>5, SizeOfImage
<1> QED
  BY <1>0, <1>6 DEF Times

-----------------------------------------------------------------------------
(* Rows as they are pushed into the two lists of reuse_dataset.            *)

ExpectedRows(digests) == [i \in DOMAIN digests |-> [digest |-> digests[i], sequence |-> i, at |-> i]]
PushedBefore(fragments, f) == SumFunction([g \in 1 .. f - 1 |-> Len(fragments[g])])
PushedOf(fragments, f) ==
  [r \in DOMAIN fragments[f] |->
     [digest |-> fragments[f][r], sequence |-> PushedBefore(fragments, f) + r, at |-> <<f, r - 1>>]]
PushedAll(fragments) == [f \in DOMAIN fragments |-> PushedOf(fragments, f)]
ActualRow == [digest : Nat, sequence : Nat, at : Nat \X Nat]

LEMMA ListsAre ==
  ASSUME NEW digests, NEW fragments
  PROVE  /\ Expected(digests) = RowIndex(ExpectedRows(digests))
         /\ Actual(fragments) = RowIndex(FlattenSeq(PushedAll(fragments)))
<1>1. Expected(digests) = RowIndex(ExpectedRows(digests))
  BY Zenon DEF Expected, ExpectedRows
<1>2. Actual(fragments) = RowIndex(FlattenSeq(
        [f \in DOMAIN fragments |->
           [r \in DOMAIN fragments[f] |->
              [digest |-> fragments[f][r],
               sequence |-> SumFunction([g \in 1 .. f - 1 |-> Len(fragments[g])]) + r,
               at |-> <<f, r - 1>>]]]))
  BY Zenon DEF Actual
<1>3. PushedAll(fragments) =
        [f \in DOMAIN fragments |->
           [r \in DOMAIN fragments[f] |->
              [digest |-> fragments[f][r],
               sequence |-> SumFunction([g \in 1 .. f - 1 |-> Len(fragments[g])]) + r,
               at |-> <<f, r - 1>>]]]
  BY Zenon DEF PushedAll, PushedOf, PushedBefore
<1> QED
  BY <1>1, <1>2, <1>3, Zenon

LEMMA PushedBeforeIs ==
  ASSUME NEW F \in Seq(Seq(Nat)), NEW f \in 1 .. Len(F)
  PROVE  PushedBefore(F, f) = Total(F, f - 1) /\ Total(F, f - 1) \in Nat
<1>1. PICK m : m = f - 1
  OBVIOUS
<1>2. m \in 0 .. Len(F) /\ m \in Nat /\ \A g \in 1 .. m : g \in DOMAIN F
  BY <1>1
<1>3. PICK v, w : v = [g \in 1 .. m |-> Len(F[g])] /\ w = [l \in DOMAIN F |-> Len(F[l])]
  OBVIOUS
<1>4. DOMAIN v = 1 .. m /\ \A g \in 1 .. m : v[g] = w[g]
  BY <1>2, <1>3
<1>5. IsFiniteSet(1 .. m)
  BY <1>2, FS_Interval
<1>6. SumFunctionOnSet(v, 1 .. m) = SumFunctionOnSet(w, 1 .. m)
  BY <1>4, <1>5, SumSame
<1>7. SumFunction(v) = SumFunctionOnSet(v, DOMAIN v)
  BY Zenon DEF SumFunction
<1>8. Total(F, m) \in Nat
  BY <1>2, TotalNext
<1> QED
  BY <1>1, <1>3, <1>4, <1>6, <1>7, <1>8, Zenon DEF PushedBefore, Total

LEMMA TableIsSeq ==
  ASSUME NEW X, NEW N \in Nat, NEW s, s = [i \in 1 .. N |-> s[i]], \A i \in 1 .. N : s[i] \in X
  PROVE  s \in Seq(X) /\ Len(s) = N
  OBVIOUS

LEMMA PushedType ==
  ASSUME NEW F \in Seq(Seq(Nat))
  PROVE  /\ PushedAll(F) \in Seq(Seq(ActualRow)) /\ Len(PushedAll(F)) = Len(F)
         /\ \A f \in 1 .. Len(F) :
              /\ F[f] \in Seq(Nat) /\ Len(PushedAll(F)[f]) = Len(F[f])
              /\ \A r \in 1 .. Len(F[f]) :
                   PushedAll(F)[f][r] = [digest |-> F[f][r], sequence |-> Total(F, f - 1) + r,
                                         at |-> <<f, r - 1>>]
<1>1. PICK N, s : N = Len(F) /\ s = PushedAll(F)
  OBVIOUS
<1>2. N \in Nat /\ DOMAIN F = 1 .. N
  BY <1>1
<1>3. s = [f \in 1 .. N |-> PushedOf(F, f)]
  BY <1>1, <1>2, Zenon DEF PushedAll
<1>4. ASSUME NEW f \in 1 .. N
      PROVE  /\ F[f] \in Seq(Nat) /\ PushedOf(F, f) \in Seq(ActualRow)
             /\ Len(PushedOf(F, f)) = Len(F[f])
             /\ \A r \in 1 .. Len(F[f]) :
                  PushedOf(F, f)[r] = [digest |-> F[f][r], sequence |-> Total(F, f - 1) + r,
                                       at |-> <<f, r - 1>>]
  <2>1. F[f] \in Seq(Nat)
    BY <1>2, ElementType, Zenon
  <2>2. PICK g, n : g = F[f] /\ n = Total(F, f - 1)
    OBVIOUS
  <2>3. g \in Seq(Nat) /\ Len(g) \in Nat /\ DOMAIN g = 1 .. Len(g)
    BY <2>1, <2>2
  <2>4. n \in Nat /\ PushedBefore(F, f) = n
    BY <1>1, <2>2, PushedBeforeIs
  <2>5. PICK t : t = [r \in 1 .. Len(g) |-> [digest |-> g[r], sequence |-> n + r, at |-> <<f, r - 1>>]]
    OBVIOUS
  <2>6. PushedOf(F, f) = t
    BY <2>2, <2>3, <2>4, <2>5, Zenon DEF PushedOf
  <2>7. \A r \in 1 .. Len(g) : [digest |-> g[r], sequence |-> n + r, at |-> <<f, r - 1>>] \in ActualRow
    <3> TAKE r \in 1 .. Len(g)
    <3>1. g[r] \in Nat
      BY <2>3, ElementType, Zenon
    <3>2. n + r \in Nat /\ f \in Nat /\ r - 1 \in Nat
      BY <2>3, <2>4
    <3> QED
      BY <3>1, <3>2 DEF ActualRow
  <2>8. t \in Seq(ActualRow) /\ Len(t) = Len(g)
    BY <2>3, <2>5, <2>7
  <2>9. \A r \in 1 .. Len(g) : t[r] = [digest |-> g[r], sequence |-> n + r, at |-> <<f, r - 1>>]
    BY <2>5
  <2> QED
    BY <2>2, <2>3, <2>6, <2>8, <2>9, Zenon
<1>5. s \in Seq(Seq(ActualRow)) /\ Len(s) = N /\ \A f \in 1 .. N : s[f] = PushedOf(F, f)
  <2>1. \A f \in 1 .. N : s[f] = PushedOf(F, f)
    BY <1>3
  <2>2. \A f \in 1 .. N : s[f] \in Seq(ActualRow)
    BY <1>4, <2>1
  <2>3. s = [f \in 1 .. N |-> s[f]]
    BY <1>3
  <2>4. s \in Seq(Seq(ActualRow)) /\ Len(s) = N
    BY <1>2, <2>2, <2>3, TableIsSeq
  <2> QED
    BY <2>1, <2>4
<1> QED
  BY <1>1, <1>4, <1>5, Zenon

\* The address of row q is that of its digest.
Addressed(row, F, q) ==
  \E f \in 1 .. Len(F) : \E r \in 1 .. Len(F[f]) :
    /\ row = [digest |-> F[f][r], sequence |-> q, at |-> <<f, r - 1>>]
    /\ q = Total(F, f - 1) + r /\ FlattenSeq(F)[q] = F[f][r]

LEMMA ActualRows ==
  ASSUME NEW F \in Seq(Seq(Nat))
  PROVE  LET rows == FlattenSeq(PushedAll(F))
         IN /\ rows \in Seq(ActualRow) /\ FlattenSeq(F) \in Seq(Nat) /\ Len(rows) = Len(FlattenSeq(F))
            /\ \A q \in 1 .. Len(rows) : Addressed(rows[q], F, q)
<1>1. PICK s, rows, all, N : s = PushedAll(F) /\ rows = FlattenSeq(PushedAll(F)) /\ all = FlattenSeq(F)
                             /\ N = Len(F)
  OBVIOUS
<1>2. /\ s \in Seq(Seq(ActualRow)) /\ Len(s) = N
      /\ \A f \in 1 .. N :
           /\ F[f] \in Seq(Nat) /\ Len(s[f]) = Len(F[f])
           /\ \A r \in 1 .. Len(F[f]) :
                s[f][r] = [digest |-> F[f][r], sequence |-> Total(F, f - 1) + r, at |-> <<f, r - 1>>]
  BY <1>1, PushedType
<1>3. rows \in Seq(ActualRow) /\ Holds(s, rows, N)
  <2>1. FlattenSeq(s) \in Seq(ActualRow) /\ Holds(s, FlattenSeq(s), Len(s))
    BY <1>2, FlattenAt
  <2> QED
    BY <1>1, <1>2, <2>1, Zenon
<1>4. all \in Seq(Nat) /\ Holds(F, all, N)
  BY <1>1, FlattenAt, Zenon
<1>5. N \in Nat
  BY <1>1
<1>6. \A m \in 0 .. N : Total(s, m) = Total(F, m) /\ Total(F, m) \in Nat
  <2> TAKE m \in 0 .. N
  <2>1. PICK v, w : v = [l \in DOMAIN s |-> Len(s[l])] /\ w = [l \in DOMAIN F |-> Len(F[l])]
    OBVIOUS
  <2>2. \A g \in 1 .. m : g \in DOMAIN s /\ g \in DOMAIN F /\ g \in 1 .. N
    BY <1>1, <1>2, <1>5
  <2>3. \A g \in 1 .. m : v[g] = w[g]
    BY <1>2, <2>1, <2>2
  <2>4. IsFiniteSet(1 .. m)
    BY FS_Interval
  <2>5. SumFunctionOnSet(v, 1 .. m) = SumFunctionOnSet(w, 1 .. m)
    BY <2>3, <2>4, SumSame
  <2>6. Total(F, m) \in Nat
    BY <1>1, TotalNext
  <2> QED
    BY <2>1, <2>5, <2>6, Zenon DEF Total
<1>7. Len(rows) = Len(all)
  <2>1. Len(rows) = Total(s, N) /\ Len(all) = Total(F, N) /\ N \in 0 .. N
    BY <1>3, <1>4, <1>5 DEF Holds
  <2> QED
    BY <1>6, <2>1
<1>8. ASSUME NEW q \in 1 .. Len(rows) PROVE Addressed(rows[q], F, q)
  <2>1. PICK f \in 1 .. N : \E r \in 1 .. Len(s[f]) : q = Total(s, f - 1) + r
    BY <1>3 DEF Holds
  <2>2. PICK r \in 1 .. Len(s[f]) : q = Total(s, f - 1) + r
    BY <2>1
  <2>3. r \in 1 .. Len(F[f])
    BY <1>2
  <2>4. f - 1 \in 0 .. N
    BY <1>5
  <2>5. q = Total(F, f - 1) + r
    BY <1>6, <2>2, <2>4
  <2>6. rows[Total(s, f - 1) + r] = s[f][r]
    BY <1>3 DEF Holds
  <2>7. all[Total(F, f - 1) + r] = F[f][r]
    BY <1>4, <2>3 DEF Holds
  <2>8. s[f][r] = [digest |-> F[f][r], sequence |-> Total(F, f - 1) + r, at |-> <<f, r - 1>>]
    BY <1>2, <2>3
  <2>9. rows[q] = [digest |-> F[f][r], sequence |-> q, at |-> <<f, r - 1>>] /\ all[q] = F[f][r]
    BY <2>2, <2>5, <2>6, <2>7, <2>8, Zenon
  <2> QED
    BY <1>1, <2>3, <2>5, <2>9, Zenon DEF Addressed
<1> QED
  BY <1>1, <1>3, <1>4, <1>7, <1>8, Zenon

\* The two lists have the same digests, place for place.
Matches(D, all, p, q) ==
  Len(D) = Len(all) /\ \A n \in 1 .. Len(D) : D[p[n]] = all[q[n]]

Addressing(at, D, rows, p, q) ==
  DOMAIN at = 1 .. Len(D) /\ \A n \in 1 .. Len(D) : at[p[n]] = rows[q[n]].at

\* What reuse_dataset makes of the lists: nothing, or the addresses of the rows.
Mapped(m, D, all, rows, p, q) ==
  /\ ~Matches(D, all, p, q) => m = NotReused
  /\ Matches(D, all, p, q) => m.ok = TRUE /\ Addressing(m.at, D, rows, p, q)

\* Both lists in order, and the addresses of the second.
Listed(D, F, rows, p, q) ==
  /\ D \in Seq(Nat) /\ FlattenSeq(F) \in Seq(Nat) /\ rows = FlattenSeq(PushedAll(F))
  /\ Len(rows) = Len(FlattenSeq(F)) /\ \A i \in 1 .. Len(rows) : Addressed(rows[i], F, i)
  /\ IndexedBy(ExpectedRows(D), p, Len(D)) /\ IndexedBy(rows, q, Len(rows))

LEMMA ListsExist ==
  ASSUME NEW D \in Seq(Nat), NEW F \in Seq(Seq(Nat))
  PROVE  \E rows, p, q : Listed(D, F, rows, p, q)
<1>1. PICK rows, N, M : rows = FlattenSeq(PushedAll(F)) /\ N = Len(D) /\ M = Len(rows)
  OBVIOUS
<1>2. /\ rows \in Seq(ActualRow) /\ FlattenSeq(F) \in Seq(Nat) /\ M = Len(FlattenSeq(F))
      /\ \A i \in 1 .. M : Addressed(rows[i], F, i)
  BY <1>1, ActualRows
<1>3. N \in Nat /\ DOMAIN D = 1 .. N /\ M \in Nat /\ DOMAIN rows = 1 .. M
  <2>1. N \in Nat /\ DOMAIN D = 1 .. N
    BY <1>1
  <2>2. M \in Nat /\ DOMAIN rows = 1 .. M
    <3>1. M = Len(rows) /\ rows \in Seq(ActualRow)
      BY <1>1, <1>2, Zenon
    <3> QED
      BY <3>1
  <2> QED
    BY <2>1, <2>2
<1>4. Pushed(ExpectedRows(D), N)
  <2>1. \A i \in 1 .. N : D[i] \in Nat
    BY <1>3
  <2>2. /\ DOMAIN ExpectedRows(D) = 1 .. N
        /\ \A i \in 1 .. N : ExpectedRows(D)[i] = [digest |-> D[i], sequence |-> i, at |-> i]
    BY <1>3 DEF ExpectedRows
  <2>3. \A i \in 1 .. N : ExpectedRows(D)[i].digest = D[i] /\ ExpectedRows(D)[i].sequence = i
    BY <2>2
  <2>4. PICK x : x = ExpectedRows(D)
    OBVIOUS
  <2>5. Pushed(x, N)
    BY <1>3, <2>1, <2>2, <2>3, <2>4 DEF Pushed
  <2> QED
    BY <2>4, <2>5
<1>5. Pushed(rows, M)
  <2>1. \A i \in 1 .. M : rows[i].sequence = i
    <3> TAKE i \in 1 .. M
    <3>1. Addressed(rows[i], F, i)
      BY <1>2
    <3>2. PICK f, r : rows[i] = [digest |-> F[f][r], sequence |-> i, at |-> <<f, r - 1>>]
      BY <3>1 DEF Addressed
    <3> QED
      BY <3>2
  <2>2. \A i \in 1 .. M : rows[i].digest \in Nat /\ rows[i].sequence \in Nat
    <3> TAKE i \in 1 .. M
    <3>1. rows[i] \in ActualRow
      BY <1>2, <1>3, ElementType, Zenon
    <3> QED
      BY <3>1 DEF ActualRow
  <2> QED
    BY <1>3, <2>1, <2>2 DEF Pushed
<1>6. PICK p : IndexedBy(ExpectedRows(D), p, N)
  BY <1>3, <1>4, IndexSorts
<1>7. PICK q : IndexedBy(rows, q, M)
  BY <1>3, <1>5, IndexSorts
<1>8. Listed(D, F, rows, p, q)
  BY <1>1, <1>2, <1>6, <1>7, Zenon DEF Listed
<1> QED
  BY <1>8

LEMMA MappingIs ==
  ASSUME NEW D, NEW F, NEW rows, NEW p, NEW q, Listed(D, F, rows, p, q)
  PROVE  Mapped(Mapping(Expected(D), Actual(F)), D, FlattenSeq(F), rows, p, q)
<1>1. PICK N, M, all, x : N = Len(D) /\ M = Len(rows) /\ all = FlattenSeq(F) /\ x = ExpectedRows(D)
  OBVIOUS
<1>2. /\ D \in Seq(Nat) /\ all \in Seq(Nat) /\ Len(all) = M /\ rows = FlattenSeq(PushedAll(F))
      /\ \A i \in 1 .. M : Addressed(rows[i], F, i)
      /\ IndexedBy(x, p, N) /\ IndexedBy(rows, q, M)
  BY <1>1 DEF Listed
<1>3. N \in Nat /\ M \in Nat /\ DOMAIN D = 1 .. N
  BY <1>1, <1>2
<1>4. PICK e, a : e = Expected(D) /\ a = Actual(F)
  OBVIOUS
<1>5. e = RowIndex(x) /\ a = RowIndex(rows)
  BY <1>1, <1>2, <1>4, ListsAre, Zenon
<1>6. /\ e = [n \in 1 .. N |-> x[p[n]]] /\ a = [n \in 1 .. M |-> rows[q[n]]]
      /\ Permuted(p, N) /\ Permuted(q, M)
  BY <1>2, <1>5 DEF IndexedBy
<1>7. /\ DOMAIN e = 1 .. N /\ DOMAIN a = 1 .. M /\ Len(e) = N /\ Len(a) = M
      /\ \A n \in 1 .. N : e[n] = x[p[n]]
      /\ \A n \in 1 .. M : a[n] = rows[q[n]]
  <2>1. DOMAIN e = 1 .. N /\ DOMAIN a = 1 .. M
    BY <1>6
  <2>2. Len(e) = N /\ Len(a) = M
    BY <1>3, <1>6
  <2> QED
    BY <1>6, <2>1, <2>2
<1>8. \A n \in 1 .. N : p[n] \in 1 .. N /\ e[n].digest = D[p[n]] /\ e[n].at = p[n]
  <2> TAKE n \in 1 .. N
  <2>1. p[n] \in 1 .. N
    BY <1>6 DEF Permuted
  <2>2. PICK i : i = p[n]
    OBVIOUS
  <2>3. x[i] = [digest |-> D[i], sequence |-> i, at |-> i]
    BY <1>1, <1>3, <2>1, <2>2 DEF ExpectedRows
  <2>4. e[n] = x[i]
    BY <1>7, <2>2
  <2> QED
    BY <2>1, <2>2, <2>3, <2>4
<1>9. \A n \in 1 .. M : a[n].digest = all[q[n]] /\ a[n].at = rows[q[n]].at
  <2> TAKE n \in 1 .. M
  <2>1. PICK i : i = q[n]
    OBVIOUS
  <2>2. i \in 1 .. M /\ a[n] = rows[i]
    BY <1>6, <1>7, <2>1 DEF Permuted
  <2>3. Addressed(rows[i], F, i)
    BY <1>2, <2>2
  <2>4. PICK f, r : rows[i] = [digest |-> F[f][r], sequence |-> i, at |-> <<f, r - 1>>] /\ all[i] = F[f][r]
    BY <1>1, <2>3 DEF Addressed
  <2>5. rows[i].digest = all[i]
    BY <2>4
  <2> QED
    BY <2>1, <2>2, <2>5
<1>10. PICK m : m = Mapping(e, a)
  OBVIOUS
<1>11. m = IF Len(e) # Len(a) \/ \E i \in DOMAIN e : e[i].digest # a[i].digest
           THEN NotReused
           ELSE [ok |-> TRUE, at |-> [id \in DOMAIN e |-> a[CHOOSE i \in DOMAIN e : e[i].at = id].at]]
  BY <1>10, Zenon DEF Mapping
<1>12. Matches(D, all, p, q) <=> ~(Len(e) # Len(a) \/ \E i \in DOMAIN e : e[i].digest # a[i].digest)
  <2>1. Matches(D, all, p, q) <=> N = M /\ \A n \in 1 .. N : D[p[n]] = all[q[n]]
    BY <1>1, <1>2 DEF Matches
  <2> QED
    BY <1>7, <1>8, <1>9, <2>1
<1>13. ASSUME Matches(D, all, p, q)
       PROVE  m.ok = TRUE /\ DOMAIN m.at = 1 .. N /\ \A n \in 1 .. N : m.at[p[n]] = rows[q[n]].at
  <2>1. PICK at : at = [id \in DOMAIN e |-> a[CHOOSE i \in DOMAIN e : e[i].at = id].at]
    OBVIOUS
  <2>2. m = [ok |-> TRUE, at |-> at]
    BY <1>11, <1>12, <1>13, <2>1, Zenon
  <2>3. N = M
    BY <1>1, <1>2, <1>13 DEF Matches
  <2>4. ASSUME NEW n \in 1 .. N PROVE at[p[n]] = rows[q[n]].at
    <3>1. PICK i : i = CHOOSE j \in DOMAIN e : e[j].at = p[n]
      OBVIOUS
    <3>2. n \in DOMAIN e /\ e[n].at = p[n] /\ p[n] \in DOMAIN e
      BY <1>7, <1>8
    <3>3. i \in DOMAIN e /\ e[i].at = p[n]
      BY <3>1, <3>2
    <3>4. i = n
      <4>1. p[i] = p[n] /\ i \in 1 .. N
        BY <1>7, <1>8, <3>3
      <4> QED
        BY <1>6, <4>1 DEF Permuted
    <3>5. at[p[n]] = a[i].at
      BY <2>1, <3>1, <3>2
    <3> QED
      BY <1>9, <2>3, <3>4, <3>5
  <2>5. DOMAIN at = 1 .. N
    BY <1>7, <2>1
  <2>6. m.ok = TRUE /\ m.at = at
    BY <2>2
  <2> QED
    BY <2>4, <2>5, <2>6
<1>14. ~Matches(D, all, p, q) => m = NotReused
  BY <1>11, <1>12, Zenon
<1>15. Mapped(m, D, all, rows, p, q)
  BY <1>1, <1>13, <1>14 DEF Mapped, Addressing
<1> QED
  BY <1>1, <1>4, <1>10, <1>15, Zenon

-----------------------------------------------------------------------------
(* Whether the fragments fit.                                              *)

CopyNext(acc, rows, disk) ==
  IF ~acc.ok \/ acc.used + Len(rows) > disk \div 2 THEN NotReused
  ELSE [ok |-> TRUE, used |-> acc.used + Len(rows)]
Copies(F, used, disk) ==
  CHOOSE f : f = [s \in SUBSET DOMAIN F |->
                    IF s = {} THEN [ok |-> TRUE, used |-> used]
                    ELSE CopyNext(f[s \ {Max(s)}], F[Max(s)], disk)]

LEMMA CopiedFold ==
  ASSUME NEW F, NEW used, NEW disk
  PROVE  Copied(F, used, disk) = Copies(F, used, disk)[DOMAIN F]
  BY Zenon DEF Copied, FoldLeft, MapThenFoldSet, Max, Copies, CopyNext, Max

Copy == {NotReused} \cup [ok : {TRUE}, used : Nat]

LEMMA CopyType ==
  ASSUME NEW acc \in Copy, NEW rows \in Seq(Nat), NEW disk
  PROVE  CopyNext(acc, rows, disk) \in Copy
<1>1. CASE ~acc.ok \/ acc.used + Len(rows) > disk \div 2
  BY <1>1 DEF CopyNext, Copy
<1>2. CASE ~(~acc.ok \/ acc.used + Len(rows) > disk \div 2)
  <2>1. acc \in [ok : {TRUE}, used : Nat]
    <3>1. acc.ok
      BY <1>2
    <3>2. ~NotReused.ok
      BY DEF NotReused
    <3> QED
      BY <3>1, <3>2 DEF Copy
  <2>2. acc.used \in Nat /\ Len(rows) \in Nat
    BY <2>1
  <2>3. acc.used + Len(rows) \in Nat
    BY <2>2
  <2>4. CopyNext(acc, rows, disk) = [ok |-> TRUE, used |-> acc.used + Len(rows)]
    BY <1>2, Zenon DEF CopyNext
  <2> QED
    BY <2>3, <2>4 DEF Copy
<1> QED
  BY <1>1, <1>2

LEMMA CopiesStep ==
  ASSUME NEW F \in Seq(Seq(Nat)), NEW used \in Nat, NEW disk
  PROVE  /\ Copies(F, used, disk)[{}] = [ok |-> TRUE, used |-> used]
         /\ \A n \in 1 .. Len(F) :
              Copies(F, used, disk)[1 .. n] = CopyNext(Copies(F, used, disk)[1 .. n - 1], F[n], disk)
<1> DEFINE N == Len(F)
           step == [x \in Copy \X (1 .. N) |-> CopyNext(x[1], F[x[2]], disk)]
<1>0. PICK base : base = [ok |-> TRUE, used |-> used]
  OBVIOUS
<1>1. N \in Nat /\ DOMAIN F = 1 .. N /\ \A i \in 1 .. N : F[i] \in Seq(Nat)
  OBVIOUS
<1>2. base \in Copy
  BY <1>0 DEF Copy
<1>3. step \in [Copy \X (1 .. N) -> Copy]
  BY <1>1, CopyType
<1>4. \A t \in Copy, n \in 1 .. N : step[<<t, n>>] = CopyNext(t, F[n], disk)
  OBVIOUS
<1> HIDE DEF step, N
<1>5. PICK g \in [SUBSET (1 .. N) -> Copy] : Folding(g, base, step, 1 .. N)
  BY <1>1, <1>2, <1>3, FoldingExists
<1>6. g = [s \in SUBSET DOMAIN F |-> IF s = {} THEN base ELSE CopyNext(g[s \ {Max(s)}], F[Max(s)], disk)]
  <2>1. ASSUME NEW s \in SUBSET (1 .. N), s # {} PROVE g[s] = CopyNext(g[s \ {Max(s)}], F[Max(s)], disk)
    <3>1. Max(s) \in 1 .. N /\ s \ {Max(s)} \in SUBSET (1 .. N)
      BY <1>1, <2>1, MaxIsElement
    <3>2. g[s \ {Max(s)}] \in Copy
      BY <3>1
    <3>3. g[s] = step[<<g[s \ {Max(s)}], Max(s)>>]
      BY <1>5, <2>1 DEF Folding
    <3> QED
      BY <1>4, <3>1, <3>2, <3>3
  <2>2. g[{}] = base
    BY <1>5 DEF Folding
  <2> QED
    BY <1>1, <2>1, <2>2
<1> PICK h : h = Copies(F, used, disk)
  OBVIOUS
<1>7. h = [s \in SUBSET DOMAIN F |-> IF s = {} THEN base ELSE CopyNext(h[s \ {Max(s)}], F[Max(s)], disk)]
  <2>1. \E f : f = [s \in SUBSET DOMAIN F |->
                      IF s = {} THEN base ELSE CopyNext(f[s \ {Max(s)}], F[Max(s)], disk)]
    BY <1>6
  <2> QED
    BY <1>0, <2>1, Zenon DEF Copies
<1>8. h[{}] = base
  BY <1>7
<1>9. ASSUME NEW n \in 1 .. N PROVE h[1 .. n] = CopyNext(h[1 .. n - 1], F[n], disk)
  <2>1. n \in Nat \ {0} /\ n \in 1 .. n /\ \A x \in 1 .. n : x \in 1 .. N
    BY <1>1
  <2>2. Max(1 .. n) = n /\ (1 .. n) \ {n} = 1 .. n - 1
    BY <2>1, MaxOfPrefix
  <2>3. 1 .. n \in SUBSET DOMAIN F /\ 1 .. n # {}
    BY <1>1, <2>1
  <2> QED
    BY <1>7, <2>2, <2>3
<1> QED
  BY <1>0, <1>8, <1>9 DEF N

\* The first fragments fit, with total rows in them, or were refused.
FitsWithin(acc, used, total, limit) ==
  \/ used + total <= limit /\ acc = [ok |-> TRUE, used |-> used + total]
  \/ limit < used + total /\ acc = NotReused

LEMMA FitsNext ==
  ASSUME NEW used \in Nat, NEW total \in Nat, NEW limit \in Nat, NEW acc, FitsWithin(acc, used, total, limit),
         NEW rows, Len(rows) \in Nat, NEW disk, limit = disk \div 2
  PROVE  FitsWithin(CopyNext(acc, rows, disk), used, total + Len(rows), limit)
<1>1. PICK n : n = Len(rows)
  OBVIOUS
<1>2. n \in Nat
  BY <1>1
<1>3. PICK next : next = CopyNext(acc, rows, disk)
  OBVIOUS
<1>4. next = IF ~acc.ok \/ acc.used + n > limit THEN NotReused ELSE [ok |-> TRUE, used |-> acc.used + n]
  BY <1>1, <1>3, Zenon DEF CopyNext
<1>5. CASE used + total <= limit /\ acc = [ok |-> TRUE, used |-> used + total]
  <2>1. acc.ok /\ acc.used = used + total
    BY <1>5
  <2>2. ASSUME used + total + n > limit PROVE FitsWithin(next, used, total + n, limit)
    <3>1. next = NotReused
      BY <1>4, <2>1, <2>2
    <3>2. limit < used + (total + n)
      BY <1>2, <2>2
    <3> QED
      BY <3>1, <3>2, Zenon DEF FitsWithin
  <2>3. ASSUME ~(used + total + n > limit) PROVE FitsWithin(next, used, total + n, limit)
    <3>1. next = [ok |-> TRUE, used |-> (used + total) + n]
      BY <1>4, <2>1, <2>3
    <3>2. used + (total + n) <= limit /\ (used + total) + n = used + (total + n)
      BY <1>2, <2>3
    <3> QED
      BY <3>1, <3>2, Zenon DEF FitsWithin
  <2>4. FitsWithin(next, used, total + n, limit)
    BY <2>2, <2>3
  <2> QED
    BY <1>1, <1>3, <2>4, Zenon
<1>6. CASE limit < used + total /\ acc = NotReused
  <2>1. ~acc.ok
    BY <1>6 DEF NotReused
  <2>2. next = NotReused
    BY <1>4, <2>1
  <2>3. limit < used + (total + n)
    BY <1>2, <1>6
  <2> QED
    BY <1>1, <1>3, <2>2, <2>3, Zenon DEF FitsWithin
<1> QED
  BY <1>5, <1>6 DEF FitsWithin

LEMMA CopiedFits ==
  ASSUME NEW F \in Seq(Seq(Nat)), NEW used \in Nat, NEW limit \in Nat, NEW disk, limit = disk \div 2,
         used <= limit
  PROVE  FitsWithin(Copied(F, used, disk), used, Len(FlattenSeq(F)), limit)
<1>1. PICK N, h : N = Len(F) /\ h = Copies(F, used, disk)
  OBVIOUS
<1>2. /\ h[{}] = [ok |-> TRUE, used |-> used]
      /\ \A n \in 1 .. N : h[1 .. n] = CopyNext(h[1 .. n - 1], F[n], disk)
  <2>1. /\ Copies(F, used, disk)[{}] = [ok |-> TRUE, used |-> used]
        /\ \A n \in 1 .. Len(F) :
             Copies(F, used, disk)[1 .. n] = CopyNext(Copies(F, used, disk)[1 .. n - 1], F[n], disk)
    BY CopiesStep
  <2> QED
    BY <1>1, <2>1, Zenon
<1>3. N \in Nat /\ DOMAIN F = 1 .. N /\ \A n \in 1 .. N : F[n] \in Seq(Nat)
  BY <1>1
<1>4. /\ Total(F, 0) = 0 /\ \A m \in 0 .. N : Total(F, m) \in Nat
      /\ \A m \in 0 .. N - 1 : Total(F, m + 1) = Total(F, m) + Len(F[m + 1])
  BY <1>1, TotalNext
<1> DEFINE T == {n \in Nat : n \in 0 .. N => FitsWithin(h[1 .. n], used, Total(F, n), limit)}
<1>5. 0 \in T
  <2>1. 1 .. 0 = {}
    OBVIOUS
  <2>2. h[1 .. 0] = [ok |-> TRUE, used |-> used] /\ used + 0 = used
    BY <1>2, <2>1
  <2>3. FitsWithin(h[1 .. 0], used, Total(F, 0), limit)
    BY <1>4, <2>2 DEF FitsWithin
  <2> QED
    BY <2>3
<1>6. ASSUME NEW n \in T PROVE n + 1 \in T
  <2> SUFFICES ASSUME n + 1 \in 0 .. N PROVE FitsWithin(h[1 .. n + 1], used, Total(F, n + 1), limit)
    OBVIOUS
  <2>1. n \in 0 .. N /\ n \in 0 .. N - 1 /\ n + 1 \in 1 .. N /\ (n + 1) - 1 = n
    BY <1>3
  <2>2. FitsWithin(h[1 .. n], used, Total(F, n), limit)
    BY <2>1
  <2>3. PICK acc, rows, total : acc = h[1 .. n] /\ rows = F[n + 1] /\ total = Total(F, n)
    OBVIOUS
  <2>4. Len(rows) \in Nat /\ total \in Nat
    BY <1>3, <1>4, <2>1, <2>3
  <2>5. h[1 .. n + 1] = CopyNext(acc, rows, disk) /\ Total(F, n + 1) = total + Len(rows)
    BY <1>2, <1>4, <2>1, <2>3
  <2>6. FitsWithin(CopyNext(acc, rows, disk), used, total + Len(rows), limit)
    BY <2>2, <2>3, <2>4, FitsNext
  <2> QED
    BY <2>5, <2>6
<1> HIDE DEF T
<1>7. T = Nat
  <2>1. T \in SUBSET Nat
    BY DEF T
  <2> QED
    BY <1>5, <1>6, <2>1, NatSetInduction
<1>8. FitsWithin(h[1 .. N], used, Total(F, N), limit)
  <2>1. N \in 0 .. N
    BY <1>3
  <2> QED
    BY <1>3, <1>7, <2>1 DEF T
<1>9. Copied(F, used, disk) = h[1 .. N]
  BY <1>1, <1>3, CopiedFold, Zenon
<1>10. Len(FlattenSeq(F)) = Total(F, N)
  BY <1>1, FlattenAt DEF Holds
<1> QED
  BY <1>8, <1>9, <1>10, Zenon

TimesIn(list, d) == Cardinality({i \in DOMAIN list : list[i] = d})
SameTimes(D, all) == \A d \in ToSet(D) \cup ToSet(all) : TimesIn(D, d) = TimesIn(all, d)

LEMMA TimesAre ==
  ASSUME NEW s \in Seq(Nat), NEW d
  PROVE  TimesIn(s, d) = Times(s, Len(s), d) /\ (d \notin ToSet(s) => TimesIn(s, d) = 0)
<1>1. DOMAIN s = 1 .. Len(s)
  OBVIOUS
<1>2. TimesIn(s, d) = Times(s, Len(s), d)
  BY <1>1, Zenon DEF TimesIn, Times
<1>3. ASSUME d \notin ToSet(s) PROVE TimesIn(s, d) = 0
  <2>1. {i \in DOMAIN s : s[i] = d} = {}
    BY <1>3 DEF ToSet
  <2>2. Cardinality({}) = 0
    BY FS_EmptySet
  <2> QED
    BY <2>1, <2>2, Zenon DEF TimesIn
<1> QED
  BY <1>2, <1>3

LEMMA SameEverywhere ==
  ASSUME NEW D \in Seq(Nat), NEW all \in Seq(Nat)
  PROVE  SameTimes(D, all) <=> \A d : Times(D, Len(D), d) = Times(all, Len(all), d)
<1>1. ASSUME SameTimes(D, all), NEW d PROVE TimesIn(D, d) = TimesIn(all, d)
  <2>1. CASE d \in ToSet(D) \cup ToSet(all)
    BY <1>1, <2>1 DEF SameTimes
  <2>2. CASE d \notin ToSet(D) \cup ToSet(all)
    BY <2>2, TimesAre
  <2> QED
    BY <2>1, <2>2
<1>2. /\ \A d : TimesIn(D, d) = Times(D, Len(D), d)
      /\ \A d : TimesIn(all, d) = Times(all, Len(all), d)
  BY TimesAre
<1> QED
  BY <1>1, <1>2 DEF SameTimes

\* The two lists match exactly if the digests are the same ones as often.
LEMMA MatchesIfSame ==
  ASSUME NEW D, NEW F, NEW rows, NEW p, NEW q, Listed(D, F, rows, p, q)
  PROVE  Matches(D, FlattenSeq(F), p, q) <=> SameTimes(D, FlattenSeq(F))
<1>1. PICK N, M, all, x, u, v : /\ N = Len(D) /\ M = Len(rows) /\ all = FlattenSeq(F)
                                /\ x = ExpectedRows(D)
                                /\ u = [n \in 1 .. N |-> D[p[n]]] /\ v = [n \in 1 .. M |-> all[q[n]]]
  OBVIOUS
<1>2. /\ D \in Seq(Nat) /\ all \in Seq(Nat) /\ Len(all) = M
      /\ \A i \in 1 .. M : Addressed(rows[i], F, i)
      /\ IndexedBy(x, p, N) /\ IndexedBy(rows, q, M)
  BY <1>1 DEF Listed
<1>3. N \in Nat /\ M \in Nat /\ DOMAIN D = 1 .. N /\ DOMAIN all = 1 .. M
  <2>1. N = Len(D) /\ M = Len(all)
    BY <1>1, <1>2, Zenon
  <2> QED
    BY <1>2, <2>1
<1>4. Permuted(p, N) /\ Permuted(q, M)
  BY <1>2 DEF IndexedBy
<1>5. /\ \A n \in 1 .. N : p[n] \in 1 .. N /\ u[n] = D[p[n]] /\ u[n] \in Nat
      /\ \A n \in 1 .. M : q[n] \in 1 .. M /\ v[n] = all[q[n]] /\ v[n] \in Nat
  <2>1. \A n \in 1 .. N : p[n] \in 1 .. N
    BY <1>4 DEF Permuted
  <2>2. \A n \in 1 .. M : q[n] \in 1 .. M
    BY <1>4 DEF Permuted
  <2>3. (\A i \in 1 .. N : D[i] \in Nat) /\ (\A i \in 1 .. M : all[i] \in Nat)
    BY <1>2, <1>3
  <2> QED
    BY <1>1, <2>1, <2>2, <2>3
<1>6. Ascends(u, N)
  <2>1. \A i \in 1 .. N : x[i].digest = D[i]
    <3> TAKE i \in 1 .. N
    <3>1. x[i] = [digest |-> D[i], sequence |-> i, at |-> i]
      BY <1>1, <1>3 DEF ExpectedRows
    <3> QED
      BY <3>1
  <2>2. \A m, n \in 1 .. N : m < n => x[p[m]].digest <= x[p[n]].digest
    BY <1>2 DEF IndexedBy
  <2> QED
    BY <1>5, <2>1, <2>2 DEF Ascends
<1>7. Ascends(v, M)
  <2>1. \A i \in 1 .. M : rows[i].digest = all[i]
    <3> TAKE i \in 1 .. M
    <3>1. Addressed(rows[i], F, i)
      BY <1>2
    <3>2. PICK f, r : rows[i] = [digest |-> F[f][r], sequence |-> i, at |-> <<f, r - 1>>] /\ all[i] = F[f][r]
      BY <1>1, <3>1, Zenon DEF Addressed
    <3> QED
      BY <3>2
  <2>2. \A m, n \in 1 .. M : m < n => rows[q[m]].digest <= rows[q[n]].digest
    BY <1>2 DEF IndexedBy
  <2> QED
    BY <1>5, <2>1, <2>2 DEF Ascends
<1>8. /\ \A d : Times(u, N, d) = Times(D, N, d)
      /\ \A d : Times(v, M, d) = Times(all, M, d)
  <2>1. (\A n \in 1 .. N : u[n] = D[p[n]]) /\ \A n \in 1 .. M : v[n] = all[q[n]]
    BY <1>5
  <2>2. InOrder(u, D, p, N) /\ InOrder(v, all, q, M)
    BY <1>4, <2>1 DEF InOrder
  <2>3. /\ \A d : Times(u, N, d) = Times(D, N, d)
        /\ \A d : Times(v, M, d) = Times(all, M, d)
    BY <1>3, <2>2, TimesPermuted
  <2> QED
    BY <2>2, <2>3
<1>9. SameTimes(D, all) <=> \A d : Times(u, N, d) = Times(v, M, d)
  <2>1. SameTimes(D, all) <=> \A d : Times(D, N, d) = Times(all, M, d)
    BY <1>1, <1>2, SameEverywhere
  <2> QED
    BY <1>8, <2>1
<1>10. Matches(D, all, p, q) <=> N = M /\ \A n \in 1 .. N : u[n] = v[n]
  <2>1. Matches(D, all, p, q) <=> N = M /\ \A n \in 1 .. N : D[p[n]] = all[q[n]]
    BY <1>1, <1>2 DEF Matches
  <2> QED
    BY <1>5, <2>1
<1>11. ASSUME N = M, \A n \in 1 .. N : u[n] = v[n], NEW d PROVE Times(u, N, d) = Times(v, M, d)
  <2>1. {i \in 1 .. N : u[i] = d} = {i \in 1 .. M : v[i] = d}
    BY <1>11
  <2> QED
    BY <2>1, Zenon DEF Times
<1>12. ASSUME \A d : Times(u, N, d) = Times(v, M, d) PROVE N = M /\ \A n \in 1 .. N : u[n] = v[n]
  BY <1>3, <1>5, <1>6, <1>7, <1>12, SameSorted
<1> QED
  BY <1>1, <1>9, <1>10, <1>11, <1>12

\* A reused file's rows are known under addresses of equal rows, each its own.
OwnAddresses(at, D, F) ==
  /\ \A id \in DOMAIN D : F[at[id][1]][at[id][2] + 1] = D[id]
  /\ Cardinality({at[id] : id \in DOMAIN D}) = Len(D)

LEMMA AddressesAre ==
  ASSUME NEW D, NEW F \in Seq(Seq(Nat)), NEW rows, NEW p, NEW q, Listed(D, F, rows, p, q),
         Matches(D, FlattenSeq(F), p, q), NEW at, Addressing(at, D, rows, p, q)
  PROVE  OwnAddresses(at, D, F)
<1>1. PICK N, all : N = Len(D) /\ all = FlattenSeq(F)
  OBVIOUS
<1>2. /\ D \in Seq(Nat) /\ Len(all) = Len(rows) /\ \A i \in 1 .. Len(rows) : Addressed(rows[i], F, i)
      /\ IndexedBy(ExpectedRows(D), p, N) /\ IndexedBy(rows, q, Len(rows))
  BY <1>1 DEF Listed
<1>3. N \in Nat /\ DOMAIN D = 1 .. N /\ Len(rows) = N /\ \A n \in 1 .. N : D[p[n]] = all[q[n]]
  <2>1. Len(D) = Len(all) /\ \A n \in 1 .. Len(D) : D[p[n]] = all[q[n]]
    BY <1>1 DEF Matches
  <2> QED
    BY <1>1, <1>2, <2>1
<1>4. Permuted(p, N) /\ Permuted(q, N)
  BY <1>2, <1>3 DEF IndexedBy
\* Where the row is that a digest is stored in.
<1>5. ASSUME NEW n \in 1 .. N
      PROVE  \E f \in 1 .. Len(F) : \E r \in 1 .. Len(F[f]) :
               at[p[n]] = <<f, r - 1>> /\ q[n] = Total(F, f - 1) + r /\ F[f][r] = D[p[n]]
  <2>1. PICK i : i = q[n]
    OBVIOUS
  <2>2. i \in 1 .. N /\ at[p[n]] = rows[i].at /\ D[p[n]] = all[i]
    BY <1>1, <1>3, <1>4, <2>1 DEF Permuted, Addressing
  <2>3. Addressed(rows[i], F, i)
    BY <1>2, <1>3, <2>2
  <2>4. PICK f \in 1 .. Len(F) : \E r \in 1 .. Len(F[f]) :
          /\ rows[i] = [digest |-> F[f][r], sequence |-> i, at |-> <<f, r - 1>>]
          /\ i = Total(F, f - 1) + r /\ all[i] = F[f][r]
    BY <1>1, <2>3, Zenon DEF Addressed
  <2>5. PICK r \in 1 .. Len(F[f]) :
          /\ rows[i] = [digest |-> F[f][r], sequence |-> i, at |-> <<f, r - 1>>]
          /\ i = Total(F, f - 1) + r /\ all[i] = F[f][r]
    BY <2>4
  <2>6. rows[i].at = <<f, r - 1>>
    BY <2>5
  <2>7. at[p[n]] = <<f, r - 1>> /\ q[n] = Total(F, f - 1) + r /\ F[f][r] = D[p[n]]
    BY <2>1, <2>2, <2>5, <2>6, Zenon
  <2> QED
    BY <2>7
<1>6. \A id \in 1 .. N : \E n \in 1 .. N : p[n] = id
  BY <1>4 DEF Permuted
<1>7. ASSUME NEW id \in 1 .. N PROVE F[at[id][1]][at[id][2] + 1] = D[id]
  <2>1. PICK n \in 1 .. N : p[n] = id
    BY <1>6
  <2>2. PICK f \in 1 .. Len(F) : \E r \in 1 .. Len(F[f]) : at[id] = <<f, r - 1>> /\ F[f][r] = D[id]
    BY <1>5, <2>1
  <2>3. PICK r \in 1 .. Len(F[f]) : at[id] = <<f, r - 1>> /\ F[f][r] = D[id]
    BY <2>2
  <2>4. at[id][1] = f /\ at[id][2] + 1 = r
    BY <2>3
  <2> QED
    BY <2>3, <2>4
<1>8. ASSUME NEW i \in 1 .. N, NEW j \in 1 .. N, at[i] = at[j] PROVE i = j
  <2>1. PICK m \in 1 .. N, n \in 1 .. N : p[m] = i /\ p[n] = j
    BY <1>6
  <2>2. PICK f \in 1 .. Len(F) : \E r \in 1 .. Len(F[f]) : at[i] = <<f, r - 1>> /\ q[m] = Total(F, f - 1) + r
    BY <1>5, <2>1
  <2>3. PICK r \in 1 .. Len(F[f]) : at[i] = <<f, r - 1>> /\ q[m] = Total(F, f - 1) + r
    BY <2>2
  <2>4. PICK g \in 1 .. Len(F) : \E s \in 1 .. Len(F[g]) : at[j] = <<g, s - 1>> /\ q[n] = Total(F, g - 1) + s
    BY <1>5, <2>1
  <2>5. PICK s \in 1 .. Len(F[g]) : at[j] = <<g, s - 1>> /\ q[n] = Total(F, g - 1) + s
    BY <2>4
  <2>6. f = g /\ r = s
    <3>1. F[f] \in Seq(Nat) /\ F[g] \in Seq(Nat)
      OBVIOUS
    <3>2. r \in Nat /\ s \in Nat
      BY <3>1
    <3>3. <<f, r - 1>> = <<g, s - 1>>
      BY <1>8, <2>3, <2>5
    <3>4. f = g /\ r - 1 = s - 1
      BY <3>3
    <3> QED
      BY <3>2, <3>4
  <2>7. q[m] = q[n]
    BY <2>3, <2>5, <2>6
  <2> QED
    BY <1>4, <2>1, <2>7 DEF Permuted
<1>9. Cardinality({at[id] : id \in 1 .. N}) = N
  <2>1. PICK S, T : S = 1 .. N /\ T = {at[id] : id \in 1 .. N}
    OBVIOUS
  <2>2. IsFiniteSet(S) /\ Cardinality(S) = N
    BY <1>3, <2>1, FS_Interval
  <2>3. \A i, j \in S : at[i] = at[j] => i = j
    BY <1>8, <2>1
  <2>4. \A y : y \in T <=> \E x \in S : y = at[x]
    BY <2>1
  <2>5. Cardinality(T) = Cardinality(S)
    BY <2>2, <2>3, <2>4, SizeOfImage
  <2> QED
    BY <2>1, <2>2, <2>5
<1> QED
  BY <1>1, <1>3, <1>7, <1>9 DEF OwnAddresses

\* A prepared file takes a dataset's rows for its own exactly if they are the same rows.
THEOREM ReusedRowsAre == ReusedRowsAreSame
<1> SUFFICES ASSUME NEW D \in DigestLists, NEW F \in FragmentLists
             PROVE  LET all == FlattenSeq(F)
                        times(list, d) == Cardinality({i \in DOMAIN list : list[i] = d})
                        same == \A d \in ToSet(D) \cup ToSet(all) : times(D, d) = times(all, d)
                        reused == reuse_dataset(D, F, 1, 8)
                        fits == 1 + Len(all) <= 4
                    IN /\ reused.ok <=> same /\ fits
                       /\ reused.ok =>
                            /\ \A id \in DOMAIN D : F[reused.at[id][1]][reused.at[id][2] + 1] = D[id]
                            /\ Cardinality({reused.at[id] : id \in DOMAIN D}) = Len(D)
  BY Zenon DEF ReusedRowsAreSame
<1>1. PICK all, reused, mapped, copied :
        /\ all = FlattenSeq(F) /\ reused = reuse_dataset(D, F, 1, 8)
        /\ mapped = Mapping(Expected(D), Actual(F))
        /\ copied = Copied(F, 1, 8)
  OBVIOUS
<1>2. D \in Seq(Nat) /\ F \in Seq(Seq(Nat))
  BY DigestAssumption, Zenon DEF DigestAssumption
<1>3. PICK rows, p, q : Listed(D, F, rows, p, q)
  BY <1>2, ListsExist
<1>4. Mapped(mapped, D, all, rows, p, q) /\ (Matches(D, all, p, q) <=> SameTimes(D, all))
  BY <1>1, <1>3, MappingIs, MatchesIfSame
<1>5. reused = IF ~mapped.ok \/ ~copied.ok THEN NotReused ELSE mapped
  BY <1>1, Zenon DEF reuse_dataset
<1>6. copied.ok <=> 1 + Len(all) <= 4
  <2>1. 4 = 8 \div 2 /\ 4 \in Nat /\ 1 \in Nat /\ 1 <= 4
    OBVIOUS
  <2>2. FitsWithin(copied, 1, Len(all), 4)
    BY <1>1, <1>2, <2>1, CopiedFits
  <2>3. all \in Seq(Nat)
    BY <1>1, <1>2, FlattenType
  <2>4. Len(all) \in Nat
    BY <2>3
  <2>5. CASE 1 + Len(all) <= 4 /\ copied = [ok |-> TRUE, used |-> 1 + Len(all)]
    BY <2>5
  <2>6. CASE 4 < 1 + Len(all) /\ copied = NotReused
    BY <2>4, <2>6 DEF NotReused
  <2> QED
    BY <2>2, <2>5, <2>6 DEF FitsWithin
<1>7. ~NotReused.ok
  BY DEF NotReused
<1>8. mapped.ok <=> SameTimes(D, all)
  BY <1>4, <1>7, Zenon DEF Mapped
<1>9. reused.ok <=> SameTimes(D, all) /\ 1 + Len(all) <= 4
  BY <1>5, <1>6, <1>7, <1>8, Zenon
<1>10. ASSUME reused.ok
       PROVE  /\ \A id \in DOMAIN D : F[reused.at[id][1]][reused.at[id][2] + 1] = D[id]
              /\ Cardinality({reused.at[id] : id \in DOMAIN D}) = Len(D)
  <2>1. reused = mapped /\ Matches(D, all, p, q)
    BY <1>4, <1>5, <1>7, <1>9, <1>10, Zenon
  <2>2. Addressing(reused.at, D, rows, p, q)
    BY <1>4, <2>1, Zenon DEF Mapped
  <2>3. PICK at : at = reused.at
    OBVIOUS
  <2>4. Addressing(at, D, rows, p, q)
    BY <2>2, <2>3
  <2>5. OwnAddresses(at, D, F)
    <3>1. Matches(D, FlattenSeq(F), p, q)
      BY <1>1, <2>1
    <3> QED
      BY <1>2, <1>3, <2>4, <3>1, AddressesAre
  <2> QED
    BY <2>3, <2>5, Zenon DEF OwnAddresses
<1> QED
  BY <1>1, <1>9, <1>10, Zenon DEF SameTimes, TimesIn
-----------------------------------------------------------------------------
(* Recursions that end, and the reads that are one.                        *)

\* A recursion along a way that ends: what is found at a place is made of what is found at
\* the next one.
Way(D, V, N, left, ends, base, next, op) ==
  /\ N \in Nat /\ left \in [D -> 0 .. N] /\ ends \in SUBSET D
  /\ base \in [D -> V] /\ next \in [D -> D] /\ op \in [D \X V -> V]
  /\ \A r \in D : r \in ends \/ left[next[r]] < left[r]
Walked(f, D, ends, base, next, op) ==
  \A r \in D : f[r] = IF r \in ends THEN base[r] ELSE op[<<r, f[next[r]]>>]

LEMMA WalkExists ==
  ASSUME NEW D, NEW V, NEW N, NEW left, NEW ends, NEW base, NEW next, NEW op,
         Way(D, V, N, left, ends, base, next, op)
  PROVE  \E f \in [D -> V] : Walked(f, D, ends, base, next, op)
<1> USE DEF Way
<1> DEFINE upto(n) == {r \in D : left[r] <= n}
           Follows(f, r) == f[r] = IF r \in ends THEN base[r] ELSE op[<<r, f[next[r]]>>]
           T == {n \in Nat : \E f \in [upto(n) -> V] : \A r \in upto(n) : Follows(f, r)}
<1>1. \A n \in Nat : \A r \in upto(n + 1) \ ends : next[r] \in upto(n)
  <2> TAKE n \in Nat
  <2> TAKE r \in upto(n + 1) \ ends
  <2>1. left[r] \in Nat /\ left[next[r]] \in Nat /\ left[next[r]] < left[r] /\ left[r] <= n + 1
    OBVIOUS
  <2>2. left[next[r]] <= n
    BY <2>1
  <2> QED
    BY <2>2
<1>2. 0 \in T
  <2>1. \A r \in upto(0) : r \in ends
    <3> TAKE r \in upto(0)
    <3>1. left[r] = 0
      OBVIOUS
    <3>2. r \notin ends => left[next[r]] \in Nat /\ left[next[r]] < 0
      BY <3>1
    <3> QED
      BY <3>2
  <2> DEFINE f == [r \in upto(0) |-> base[r]]
  <2>2. f \in [upto(0) -> V] /\ \A r \in upto(0) : Follows(f, r)
    BY <2>1
  <2> QED
    BY <2>2
<1>3. ASSUME NEW n \in T PROVE n + 1 \in T
  <2>1. PICK g \in [upto(n) -> V] : \A r \in upto(n) : Follows(g, r)
    BY <1>3
  <2> DEFINE f == [r \in upto(n + 1) |-> IF r \in ends THEN base[r] ELSE op[<<r, g[next[r]]>>]]
  <2>2. \A r \in upto(n) : r \in upto(n + 1)
    <3> TAKE r \in upto(n)
    <3>1. left[r] \in Nat /\ left[r] <= n /\ n \in Nat
      OBVIOUS
    <3>2. left[r] <= n + 1
      BY <3>1
    <3> QED
      BY <3>2
  <2>3. \A r \in upto(n + 1) : r \in D /\ (r \notin ends => next[r] \in upto(n))
    BY <1>1
  <2> HIDE DEF upto
  <2>4. \A r \in upto(n + 1) : f[r] \in V
    <3> TAKE r \in upto(n + 1)
    <3>1. CASE r \in ends
      BY <2>3, <3>1
    <3>2. CASE r \notin ends
      <4>1. g[next[r]] \in V /\ r \in D
        BY <2>3, <3>2
      <4> QED
        BY <3>2, <4>1
    <3> QED
      BY <3>1, <3>2
  <2>5. \A r \in upto(n) : f[r] = g[r]
    BY <2>1, <2>2
  <2>6. \A r \in upto(n + 1) : Follows(f, r)
    BY <2>3, <2>5, <2>2
  <2>7. f \in [upto(n + 1) -> V]
    BY <2>4
  <2>8. n + 1 \in Nat
    OBVIOUS
  <2> QED
    BY <2>6, <2>7, <2>8
<1>4. T \in SUBSET Nat
  OBVIOUS
<1>5. \A r \in D : r \in upto(N)
  OBVIOUS
<1> HIDE DEF T
<1>6. T = Nat
  BY <1>2, <1>3, <1>4, NatSetInduction
<1>7. PICK f \in [upto(N) -> V] : \A r \in upto(N) : Follows(f, r)
  <2>1. N \in T
    BY <1>6
  <2> QED
    BY <2>1 DEF T
<1>8. upto(N) = D
  BY <1>5
<1> HIDE DEF upto
<1> QED
  BY <1>7, <1>8 DEF Walked

-----------------------------------------------------------------------------
(* Reading: as many bytes as are wanted, or as are left.                   *)

Least(a, b) == IF a <= b THEN a ELSE b

LEMMA MinOfThree ==
  ASSUME NEW a \in Int, NEW b \in Int, NEW c \in Int
  PROVE  Min({a, b, c}) = Least(a, Least(b, c))
<1> DEFINE m == Least(a, Least(b, c))
<1>1. m \in {a, b, c} /\ \A y \in {a, b, c} : m <= y
  BY DEF Least
<1>2. \A x \in {a, b, c} : (\A y \in {a, b, c} : x <= y) => x = m
  BY DEF Least
<1> HIDE DEF m
<1>3. (CHOOSE x \in {a, b, c} : \A y \in {a, b, c} : x <= y) = m
  BY <1>1, <1>2
<1>4. Min({a, b, c}) = m
  BY <1>3, Zenon DEF Min
<1> QED
  BY <1>4 DEF m

Fill(data, at, want, chunk) ==
  CHOOSE fill : fill = [got \in 0 .. want |->
    IF got = want \/ at + got = Len(data) THEN got
    ELSE fill[got + ReadSome(data, at + got, want - got, chunk)]]

Fills(fill, data, at, want, chunk) ==
  \A got \in 0 .. want :
    fill[got] = IF got = want \/ at + got = Len(data) THEN got
                ELSE fill[got + ReadSome(data, at + got, want - got, chunk)]
Nearer(data, at, want, chunk) ==
  \A got \in 0 .. want :
    ~(got = want \/ at + got = Len(data)) =>
      LET n == got + ReadSome(data, at + got, want - got, chunk)
      IN /\ n \in 0 .. want
         /\ at + got < Len(data) => got < n /\ at + n <= Len(data)
         /\ at + got > Len(data) => at + n = Len(data)

LEMMA FillExists ==
  ASSUME NEW data, Len(data) \in Nat, NEW at \in 0 .. Len(data), NEW want \in Nat,
         NEW chunk \in Nat \ {0}
  PROVE  /\ Filled(data, at, want, chunk) = Fill(data, at, want, chunk)[0]
         /\ Fills(Fill(data, at, want, chunk), data, at, want, chunk)
         /\ Nearer(data, at, want, chunk)
<1> DEFINE N == Len(data)
           some(got) == ReadSome(data, at + got, want - got, chunk)
           ends == {got \in 0 .. want : got = want \/ at + got = N}
<1>1. N \in Nat /\ at \in Nat /\ at <= N
  OBVIOUS
<1>2. ASSUME NEW got \in 0 .. want
      PROVE  some(got) = Least(want - got, Least(chunk - ((at + got) % chunk), N - (at + got)))
  <2>1. want - got \in Int /\ chunk - ((at + got) % chunk) \in Int /\ N - (at + got) \in Int
    BY <1>1
  <2>2. some(got) = Min({want - got, chunk - ((at + got) % chunk), N - (at + got)})
    BY Zenon DEF ReadSome
  <2> QED
    BY <2>1, <2>2, MinOfThree
<1>3. ASSUME NEW got \in 0 .. want, got \notin ends
      PROVE  /\ got + some(got) \in 0 .. want
             /\ at + got < N => got < got + some(got) /\ at + (got + some(got)) <= N
             /\ at + got > N => at + (got + some(got)) = N
  <2>1. PICK c : c = (at + got) % chunk
    OBVIOUS
  <2>2. c \in 0 .. chunk - 1
    BY <1>1, <2>1
  <2>3. some(got) = Least(want - got, Least(chunk - c, N - (at + got)))
    BY <1>2, <2>1
  <2>4. want - got > 0 /\ chunk - c > 0 /\ N - (at + got) # 0
    BY <1>1, <1>3, <2>2
  <2> HIDE DEF some, N, ends
  <2> QED
    BY <1>1, <2>2, <2>3, <2>4 DEF Least
<1> DEFINE next == [got \in 0 .. want |-> IF got \in ends THEN got ELSE got + some(got)]
           left == [got \in 0 .. want |-> IF got \in ends THEN 0 ELSE
                       IF at + got > N THEN 1 ELSE N - (at + got)]
           base == [got \in 0 .. want |-> got]
           op == [x \in (0 .. want) \X Nat |-> x[2]]
<1>4. next \in [0 .. want -> 0 .. want]
  <2> HIDE DEF ends, some
  <2>1. ASSUME NEW got \in 0 .. want PROVE (IF got \in ends THEN got ELSE got + some(got)) \in 0 .. want
    BY <1>3
  <2> QED
    BY <2>1
<1>5. left \in [0 .. want -> 0 .. N + 1]
  <2>1. ASSUME NEW got \in 0 .. want PROVE left[got] \in 0 .. N + 1
    <3>1. left[got] = IF got \in ends THEN 0 ELSE IF at + got > N THEN 1 ELSE N - (at + got)
      OBVIOUS
    <3> HIDE DEF left
    <3> QED
      BY <1>1, <3>1
  <2> QED
    BY <2>1
<1>6. ASSUME NEW got \in (0 .. want) \ ends PROVE left[next[got]] < left[got]
  <2>1. got \in 0 .. want /\ got \notin ends
    OBVIOUS
  <2> PICK n : n = got + some(got)
    OBVIOUS
  <2>2. /\ n \in 0 .. want
        /\ at + got < N => got < n /\ at + n <= N
        /\ at + got > N => at + n = N
    BY <1>3, <2>1
  <2>3. next[got] = n
    BY <2>1
  <2>4. left[n] = IF n \in ends THEN 0 ELSE IF at + n > N THEN 1 ELSE N - (at + n)
    BY <2>2
  <2>5. left[got] = IF at + got > N THEN 1 ELSE N - (at + got)
    BY <2>1
  <2>6. at + n = N => n \in ends
    BY <2>2
  <2>7. at + got # N
    BY <2>1
  <2> HIDE DEF left, next, some, ends, N
  <2> QED
    BY <1>1, <2>1, <2>2, <2>3, <2>4, <2>5, <2>6, <2>7
<1>7. base \in [0 .. want -> Nat] /\ op \in [(0 .. want) \X Nat -> Nat] /\ ends \in SUBSET (0 .. want)
      /\ N + 1 \in Nat
  BY <1>1
<1>8. PICK f \in [0 .. want -> Nat] :
        \A got \in 0 .. want : f[got] = IF got \in ends THEN base[got] ELSE op[<<got, f[next[got]]>>]
  <2>1. \A got \in 0 .. want : got \in ends \/ left[next[got]] < left[got]
    BY <1>6
  <2> HIDE DEF base, op, ends, next, left, N
  <2>2. Way(0 .. want, Nat, N + 1, left, ends, base, next, op)
    BY <1>4, <1>5, <1>7, <2>1 DEF Way
  <2> QED
    BY <2>2, WalkExists DEF Walked
<1>9. ASSUME NEW got \in 0 .. want
      PROVE  f[got] = IF got = want \/ at + got = Len(data) THEN got
                      ELSE f[got + ReadSome(data, at + got, want - got, chunk)]
  <2>1. CASE got \in ends
    BY <1>8, <2>1
  <2>2. CASE got \notin ends
    <3>1. next[got] = got + some(got) /\ next[got] \in 0 .. want
      BY <1>4, <2>2
    <3>2. op[<<got, f[next[got]]>>] = f[next[got]]
      BY <3>1
    <3> QED
      BY <1>8, <2>2, <3>1, <3>2
  <2> QED
    BY <2>1, <2>2
<1>10. \E fill : fill = [got \in 0 .. want |->
         IF got = want \/ at + got = Len(data) THEN got
         ELSE fill[got + ReadSome(data, at + got, want - got, chunk)]]
  BY <1>9
<1> PICK h : h = Fill(data, at, want, chunk)
  OBVIOUS
<1>11. h = [got \in 0 .. want |->
         IF got = want \/ at + got = Len(data) THEN got
         ELSE h[got + ReadSome(data, at + got, want - got, chunk)]]
  BY <1>10, Zenon DEF Fill
<1>12. Fills(h, data, at, want, chunk)
  BY <1>11, Zenon DEF Fills
<1>13. Filled(data, at, want, chunk) = Fill(data, at, want, chunk)[0]
  BY Zenon DEF Filled, Fill
<1>14. Nearer(data, at, want, chunk)
  BY <1>3 DEF Nearer
<1> QED
  BY <1>12, <1>13, <1>14

LEMMA FilledIs ==
  ASSUME NEW data, Len(data) \in Nat, NEW at \in 0 .. Len(data), NEW want \in Nat,
         NEW chunk \in Nat \ {0}
  PROVE  Filled(data, at, want, chunk) = Least(want, Len(data) - at)
<1> DEFINE L == Least(want, Len(data) - at)
           fill == Fill(data, at, want, chunk)
           T == {k \in Nat : \A got \in 0 .. L : L - got <= k => fill[got] = L}
<1>0. Fills(fill, data, at, want, chunk) /\ Nearer(data, at, want, chunk)
  BY FillExists
<1> HIDE DEF fill
<1>1. L \in Nat /\ L <= want /\ at + L <= Len(data) /\ (L = want \/ at + L = Len(data))
  BY DEF Least
<1>2. ASSUME NEW got \in 0 .. L
      PROVE  IF got = L THEN fill[got] = got
             ELSE \E n \in got + 1 .. L : fill[got] = fill[n]
  <2>1. got \in 0 .. want /\ at + got <= Len(data)
    BY <1>1
  <2>2. CASE got = L
    BY <1>0, <1>1, <2>1, <2>2 DEF Fills
  <2>3. CASE got # L
    <3>1. got # want /\ at + got < Len(data)
      BY <1>1, <2>1, <2>3 DEF Least
    <3> PICK n : n = got + ReadSome(data, at + got, want - got, chunk)
      OBVIOUS
    <3>2. ~(got = want \/ at + got = Len(data))
      BY <2>1, <3>1
    <3>3. fill[got] = fill[n]
      <4>1. fill[got] = IF got = want \/ at + got = Len(data) THEN got
                        ELSE fill[got + ReadSome(data, at + got, want - got, chunk)]
        BY <1>0, <2>1, Zenon DEF Fills
      <4> QED
        BY <3>2, <4>1
    <3>4. /\ n \in 0 .. want
          /\ at + got < Len(data) => got < n /\ at + n <= Len(data)
      BY <1>0, <2>1, <3>1, <3>2 DEF Nearer
    <3>5. n \in got + 1 .. L
      BY <1>1, <2>1, <3>1, <3>4 DEF Least
    <3> QED
      BY <2>3, <3>3, <3>5
  <2> QED
    BY <2>2, <2>3
<1> HIDE DEF L
<1>3. 0 \in T
  <2> SUFFICES ASSUME NEW got \in 0 .. L, L - got <= 0 PROVE fill[got] = L
    OBVIOUS
  <2>1. got = L
    BY <1>1
  <2> QED
    BY <1>2, <2>1
<1>4. ASSUME NEW k \in T PROVE k + 1 \in T
  <2> SUFFICES ASSUME NEW got \in 0 .. L, L - got <= k + 1 PROVE fill[got] = L
    OBVIOUS
  <2>1. CASE got = L
    BY <1>2, <2>1
  <2>2. CASE got # L
    <3>1. PICK n \in got + 1 .. L : fill[got] = fill[n]
      BY <1>2, <2>2
    <3>2. n \in 0 .. L /\ L - n <= k
      BY <1>1, <3>1
    <3> QED
      BY <1>4, <3>1, <3>2
  <2> QED
    BY <2>1, <2>2
<1>5. T \in SUBSET Nat
  OBVIOUS
<1> HIDE DEF T
<1>6. L \in T
  BY <1>1, <1>3, <1>4, <1>5, NatSetInduction
<1>7. fill[0] = L
  BY <1>1, <1>6 DEF T
<1>8. Filled(data, at, want, chunk) = fill[0]
  BY FillExists DEF fill
<1> QED
  BY <1>7, <1>8 DEF L

-----------------------------------------------------------------------------
(* The buffer.                                                             *)

Byte == 0 .. ByteMax
Orders == {LittleEndian, BigEndian}
LenRange == 0 .. LenMax

LEMMA Ranges ==
  /\ \A x \in Byte : x \in Nat /\ x <= 255
  /\ \A x \in Nat : x <= 255 => x \in Byte
  /\ \A x \in LenRange : x \in Nat /\ x < 65536
<1>1. ByteMax \in Nat /\ ByteMax = 255 /\ LenMax \in Nat /\ LenMax < 65536
  BY DEF ByteMax, LenMax
<1>2. \A x \in Byte : x \in Nat /\ x <= 255
  BY <1>1 DEF Byte
<1>3. \A x \in Nat : x <= 255 => x \in Byte
  BY <1>1 DEF Byte
<1>4. \A x \in LenRange : x \in Nat /\ x < 65536
  BY <1>1 DEF LenRange
<1> QED
  BY <1>2, <1>3, <1>4

RecLen(data, pos, order) == from_bytes(data, pos, order).rec_len

LEMMA HeaderType ==
  ASSUME NEW data \in Seq(Byte), NEW pos \in Nat, pos + 4 <= Len(data), NEW order
  PROVE  /\ RecLen(data, pos, order) \in Nat
         /\ from_bytes(data, pos, order) =
              [rec_len |-> RecLen(data, pos, order), type |-> <<data[pos + 3], data[pos + 4]>>]
         /\ <<data[pos + 3], data[pos + 4]>> \in Seq(Byte)
<1>1. \A j \in 1 .. 4 : data[pos + j] \in Byte
  OBVIOUS
<1>2. data[pos + 1] \in Nat /\ data[pos + 2] \in Nat
  <2>1. data[pos + 1] \in Byte /\ data[pos + 2] \in Byte
    BY <1>1
  <2> QED
    BY <2>1, Ranges
<1>3. RecLen(data, pos, order) =
        IF order = LittleEndian THEN data[pos + 1] + 256 * data[pos + 2]
        ELSE 256 * data[pos + 1] + data[pos + 2]
  BY DEF RecLen, from_bytes
<1> QED
  BY <1>1, <1>2, <1>3 DEF from_bytes

\* What follows a position of the buffer.
LEMMA RawNextIs ==
  ASSUME NEW data \in Seq(Byte), NEW pos \in 0 .. Len(data) - 1, NEW order
  PROVE  LET next == RawNext(data, pos, order)
             len == RecLen(data, pos, order)
         IN /\ next = [item |-> next.item, pos |-> next.pos] /\ next.pos \in pos + 1 .. Len(data)
            /\ pos + 4 > Len(data) =>
                 /\ next.item = Failed("UnexpectedEof", pos, 4) /\ next.pos = Len(data)
            /\ pos + 4 <= Len(data) /\ pos + 4 + len > Len(data) =>
                 /\ next.item = Failed("UnexpectedEof", pos + 4, len)
                 /\ next.pos = Len(data)
            /\ pos + 4 <= Len(data) /\ pos + 4 + len <= Len(data) =>
                 /\ next.item = Frame(pos, from_bytes(data, pos, order))
                 /\ next.pos = pos + 4 + len
<1>1. pos \in Nat /\ Len(data) \in Nat
  OBVIOUS
<1>2. CASE pos + 4 > Len(data)
  BY <1>1, <1>2 DEF RawNext
<1>3. CASE pos + 4 <= Len(data)
  <2>1. RecLen(data, pos, order) \in Nat
    BY <1>1, <1>3, HeaderType
  <2> PICK len : len = RecLen(data, pos, order)
    OBVIOUS
  <2>2. RawNext(data, pos, order) =
          IF pos + 4 + len > Len(data)
          THEN [item |-> Failed("UnexpectedEof", pos + 4, len), pos |-> Len(data)]
          ELSE [item |-> Frame(pos, from_bytes(data, pos, order)), pos |-> pos + 4 + len]
    <3>1. ~(pos + 4 > Len(data))
      BY <1>1, <1>3
    <3>2. len = from_bytes(data, pos, order).rec_len
      BY DEF RecLen
    <3> QED
      BY <3>1, <3>2, Zenon DEF RawNext
  <2> QED
    BY <1>1, <1>3, <2>1, <2>2
<1> QED
  BY <1>1, <1>2, <1>3

RawFrom(data, order) ==
  CHOOSE from : from = [pos \in 0 .. Len(data) |->
    IF pos = Len(data) THEN <<>>
    ELSE <<RawNext(data, pos, order).item>> \o from[RawNext(data, pos, order).pos]]

RawSteps(from, data, order) ==
  \A pos \in 0 .. Len(data) :
    from[pos] = IF pos = Len(data) THEN <<>>
                ELSE <<RawNext(data, pos, order).item>> \o from[RawNext(data, pos, order).pos]

LEMMA RawExists ==
  ASSUME NEW data \in Seq(Byte), NEW order
  PROVE  /\ RawItems(data, order) = RawFrom(data, order)[0]
         /\ RawSteps(RawFrom(data, order), data, order)
<1> DEFINE N == Len(data)
           D == 0 .. N
           item(pos) == RawNext(data, pos, order).item
           to(pos) == RawNext(data, pos, order).pos
           V == Seq({item(pos) : pos \in D})
           ends == {N}
           left == [pos \in D |-> N - pos]
           base == [pos \in D |-> <<>>]
           next == [pos \in D |-> IF pos = N THEN N ELSE to(pos)]
           op == [x \in D \X V |-> <<item(x[1])>> \o x[2]]
<1>1. N \in Nat
  OBVIOUS
<1>2. \A pos \in D : pos # N => to(pos) \in pos + 1 .. N
  <2> TAKE pos \in D
  <2>1. pos # N => pos \in 0 .. Len(data) - 1
    BY <1>1
  <2> QED
    BY <2>1, RawNextIs
<1>3. next \in [D -> D] /\ \A pos \in D : pos \in ends \/ left[next[pos]] < left[pos]
  <2>1. ASSUME NEW pos \in D PROVE next[pos] \in D /\ (pos \in ends \/ left[next[pos]] < left[pos])
    <3>1. CASE pos = N
      BY <1>1, <3>1
    <3>2. CASE pos # N
      <4> PICK q : q = to(pos)
        OBVIOUS
      <4>1. q \in pos + 1 .. N /\ q \in D /\ pos \in Nat
        BY <1>1, <1>2, <3>2
      <4>2. next[pos] = q /\ left[q] = N - q /\ left[pos] = N - pos
        BY <3>2, <4>1
      <4> HIDE DEF next, left
      <4> QED
        BY <1>1, <4>1, <4>2
    <3> QED
      BY <3>1, <3>2
  <2> QED
    BY <2>1
<1>4. left \in [D -> 0 .. N] /\ ends \in SUBSET D /\ base \in [D -> V]
  BY <1>1
<1>5. op \in [D \X V -> V]
  <2>1. ASSUME NEW x \in D \X V PROVE <<item(x[1])>> \o x[2] \in V
    <3>1. x[1] \in D /\ x[2] \in V
      OBVIOUS
    <3> PICK R : R = {item(pos) : pos \in D}
      OBVIOUS
    <3>2. item(x[1]) \in R
      BY <3>1
    <3> HIDE DEF item
    <3>3. <<item(x[1])>> \in Seq(R) /\ x[2] \in Seq(R)
      BY <3>1, <3>2
    <3> QED
      BY <3>3
  <2> HIDE DEF V, item, D
  <2> QED
    BY <2>1
<1>6. PICK f \in [D -> V] : Walked(f, D, ends, base, next, op)
  <2> HIDE DEF D, V, ends, left, base, next, op, N
  <2>1. Way(D, V, N, left, ends, base, next, op)
    BY <1>1, <1>3, <1>4, <1>5 DEF Way
  <2> QED
    BY <2>1, WalkExists
<1>7. ASSUME NEW pos \in D
      PROVE  f[pos] = IF pos = Len(data) THEN <<>> ELSE <<item(pos)>> \o f[to(pos)]
  <2>1. f[pos] = IF pos \in ends THEN base[pos] ELSE op[<<pos, f[next[pos]]>>]
    BY <1>6 DEF Walked
  <2>2. CASE pos = N
    BY <2>1, <2>2
  <2>3. CASE pos # N
    <3>1. next[pos] = to(pos) /\ next[pos] \in D
      BY <1>3, <2>3
    <3>2. <<pos, f[next[pos]]>> \in D \X V
      BY <3>1
    <3>3. op[<<pos, f[next[pos]]>>] = <<item(pos)>> \o f[next[pos]]
      BY <3>2
    <3> HIDE DEF op, next, item, to, D, V
    <3> QED
      BY <2>1, <2>3, <3>1, <3>3
  <2> QED
    BY <2>2, <2>3
<1>8. \E from : from = [pos \in 0 .. Len(data) |->
        IF pos = Len(data) THEN <<>>
        ELSE <<RawNext(data, pos, order).item>> \o from[RawNext(data, pos, order).pos]]
  <2>1. f = [pos \in D |-> IF pos = Len(data) THEN <<>> ELSE <<item(pos)>> \o f[to(pos)]]
    <3> HIDE DEF item, to, V, D
    <3> QED
      BY <1>7
  <2> QED
    BY <2>1
<1> PICK h : h = RawFrom(data, order)
  OBVIOUS
<1>9. h = [pos \in 0 .. Len(data) |->
        IF pos = Len(data) THEN <<>>
        ELSE <<RawNext(data, pos, order).item>> \o h[RawNext(data, pos, order).pos]]
  BY <1>8, Zenon DEF RawFrom
<1>10. RawSteps(h, data, order)
  BY <1>9, Zenon DEF RawSteps
<1>11. RawItems(data, order) = RawFrom(data, order)[0]
  BY Zenon DEF RawItems, RawFrom
<1> QED
  BY <1>10, <1>11

-----------------------------------------------------------------------------
(* The stream.                                                             *)

\* What follows a position of the stream.
LEMMA NextEventIs ==
  ASSUME NEW data \in Seq(Byte), NEW chunk \in Nat \ {0}, NEW r \in Reader(data)
  PROVE  LET e == next_event(r, data, chunk)
             rest == Len(data) - r.at
             header == from_bytes(data, r.at, r.order)
             len == RecLen(data, r.at, r.order)
         IN /\ r.finished => e = NoEvent(r, EndOfInput)
            /\ ~r.finished /\ r.first_body =>
                 e = Event(r, [rec_len |-> 2, type |-> FAR], r.at)
            /\ ~r.finished /\ ~r.first_body =>
                 /\ rest = 0 => e = NoEvent(r, EndOfInput)
                 /\ rest \in 1 .. 3 => e = NoEvent(r, Failed("UnexpectedEof", r.offset, 4))
                 /\ rest >= 4 /\ rest - 4 < len =>
                      e = NoEvent(r, Failed("UnexpectedEof", r.offset + 4, len))
                 /\ rest >= 4 /\ rest - 4 >= len => e = Event(r, header, r.at + 4 + len)
<1> PICK at : at = r.at
  OBVIOUS
<1>1. at \in 0 .. Len(data) /\ Len(data) \in Nat /\ r.finished \in BOOLEAN /\ r.first_body \in BOOLEAN
  BY DEF Reader
<1> PICK got, body : /\ got = Filled(data, at, 4, chunk)
                     /\ body = Filled(data, at + 4, RecLen(data, at, r.order), chunk)
  OBVIOUS
<1>2. got = Least(4, Len(data) - at)
  BY <1>1, FilledIs
<1>3. at + 4 <= Len(data) =>
        RecLen(data, at, r.order) \in Nat /\ body = Least(RecLen(data, at, r.order), Len(data) - (at + 4))
  <2> SUFFICES ASSUME at + 4 <= Len(data)
               PROVE  /\ RecLen(data, at, r.order) \in Nat
                      /\ body = Least(RecLen(data, at, r.order), Len(data) - (at + 4))
    OBVIOUS
  <2>1. at \in Nat /\ at + 4 \in 0 .. Len(data)
    BY <1>1
  <2>2. RecLen(data, at, r.order) \in Nat
    BY <2>1, HeaderType
  <2> PICK len : len = RecLen(data, at, r.order)
    OBVIOUS
  <2> QED
    BY <1>1, <2>1, <2>2, FilledIs
<1> PICK len : len = RecLen(data, at, r.order)
  OBVIOUS
<1>4. next_event(r, data, chunk) =
        CASE r.finished \/ (~r.first_body /\ got = 0) -> NoEvent(r, EndOfInput)
          [] ~r.finished /\ r.first_body -> Event(r, [rec_len |-> 2, type |-> FAR], r.at)
          [] ~r.finished /\ ~r.first_body /\ got \in 1 .. 3 ->
               NoEvent(r, Failed("UnexpectedEof", r.offset, 4))
          [] ~r.finished /\ ~r.first_body /\ got = 4 ->
               IF body < len
               THEN NoEvent(r, Failed("UnexpectedEof", r.offset + 4, len))
               ELSE Event(r, from_bytes(data, r.at, r.order), r.at + 4 + body)
  BY Zenon DEF next_event, RecLen
<1>5. at \in Nat /\ got \in 0 .. 4 /\ (got = 0 <=> Len(data) - at = 0)
      /\ (got \in 1 .. 3 <=> Len(data) - at \in 1 .. 3) /\ (got = 4 <=> Len(data) - at >= 4)
  BY <1>1, <1>2 DEF Least
<1>6. r.finished => next_event(r, data, chunk) = NoEvent(r, EndOfInput)
  BY <1>4
<1>7. ~r.finished /\ r.first_body =>
        next_event(r, data, chunk) = Event(r, [rec_len |-> 2, type |-> FAR], r.at)
  BY <1>4
<1>8. ASSUME ~r.finished, ~r.first_body, Len(data) - at = 0
      PROVE  next_event(r, data, chunk) = NoEvent(r, EndOfInput)
  BY <1>4, <1>5, <1>8
<1>9. ASSUME ~r.finished, ~r.first_body, Len(data) - at \in 1 .. 3
      PROVE  next_event(r, data, chunk) = NoEvent(r, Failed("UnexpectedEof", r.offset, 4))
  <2>1. got \in 1 .. 3 /\ got # 0 /\ got # 4
    BY <1>5, <1>9
  <2> QED
    BY <1>4, <1>9, <2>1
<1>10. ASSUME ~r.finished, ~r.first_body, Len(data) - at >= 4
       PROVE  next_event(r, data, chunk) =
               IF body < len
               THEN NoEvent(r, Failed("UnexpectedEof", r.offset + 4, len))
               ELSE Event(r, from_bytes(data, r.at, r.order), r.at + 4 + body)
  <2>1. got = 4 /\ got # 0 /\ got \notin 1 .. 3
    BY <1>5, <1>10
  <2> QED
    BY <1>4, <1>10, <2>1
<1>11. Len(data) - at >= 4 =>
         /\ Len(data) - at - 4 < len => body < len
         /\ Len(data) - at - 4 >= len => ~(body < len) /\ body = len
  BY <1>1, <1>3, <1>5 DEF Least
<1> QED
  BY <1>6, <1>7, <1>8, <1>9, <1>10, <1>11

-----------------------------------------------------------------------------
(* The stream follows the buffer.                                          *)

EventsFrom(data, chunk) ==
  CHOOSE from : from = [r \in Reader(data) |->
    IF next_event(r, data, chunk).event = EndOfInput THEN <<>>
    ELSE <<next_event(r, data, chunk).event>> \o from[next_event(r, data, chunk).reader]]

EventSteps(from, data, chunk) ==
  \A r \in Reader(data) :
    from[r] = IF next_event(r, data, chunk).event = EndOfInput THEN <<>>
              ELSE <<next_event(r, data, chunk).event>> \o
                   from[next_event(r, data, chunk).reader]

\* How far a reader may still go.
ToGo(data, r) == IF r.finished THEN 0 ELSE Len(data) - r.at + (IF r.first_body THEN 2 ELSE 1)

LEMMA FinishedReader ==
  ASSUME NEW data, NEW r \in Reader(data), NEW event
  PROVE  LET e == NoEvent(r, event)
         IN e.event = event /\ e.reader \in Reader(data) /\ e.reader.finished
BY DEF NoEvent, Reader

LEMMA NextReader ==
  ASSUME NEW data, NEW r \in Reader(data), NEW header, header.rec_len \in Nat,
         NEW at \in 0 .. Len(data)
  PROVE  LET e == Event(r, header, at)
         IN /\ e.event = Frame(r.offset, header) /\ e.reader \in Reader(data)
            /\ e.reader.finished = r.finished /\ ~e.reader.first_body /\ e.reader.at = at
            /\ e.reader.order = r.order /\ e.reader.offset = r.offset + 4 + header.rec_len
<1> DEFINE a == [r EXCEPT !.first_body = FALSE]
           b == [a EXCEPT !.offset = r.offset + 4 + header.rec_len]
           c == [b EXCEPT !.at = at]
<1>1. /\ a \in Reader(data) /\ a.finished = r.finished /\ ~a.first_body
      /\ a.order = r.order /\ a.offset = r.offset /\ r.offset \in Nat
  BY DEF Reader
<1>2. Event(r, header, at) = [event |-> Frame(r.offset, header), reader |-> c]
  BY DEF Event
<1> HIDE DEF a
<1>3. /\ b \in Reader(data) /\ b.finished = r.finished /\ ~b.first_body
      /\ b.order = r.order /\ b.offset = r.offset + 4 + header.rec_len
  BY <1>1 DEF Reader
<1> HIDE DEF b
<1>4. /\ c \in Reader(data) /\ c.finished = r.finished /\ ~c.first_body /\ c.at = at
      /\ c.order = r.order /\ c.offset = r.offset + 4 + header.rec_len
  BY <1>3 DEF Reader
<1> HIDE DEF c
<1> QED
  BY <1>2, <1>4

LEMMA NoFrameEnds ==
  ASSUME NEW offset, NEW header, NEW kind, NEW position, NEW expected
  PROVE  /\ Frame(offset, header) # EndOfInput
         /\ Failed(kind, position, expected) # EndOfInput
         /\ Ok(Frame(offset, header))
         /\ ~Ok(Failed(kind, position, expected))
<1>1. DOMAIN Frame(offset, header) = {"offset", "header"}
  BY DEF Frame
<1>2. DOMAIN Failed(kind, position, expected) = {"error", "position", "expected"}
  BY DEF Failed
<1>3. DOMAIN EndOfInput = {"end"}
  BY DEF EndOfInput
<1>4. "offset" \notin {"end"} /\ "error" \notin {"end"} /\ "error" \notin {"offset", "header"}
  OBVIOUS
<1>5. Frame(offset, header) # EndOfInput
  BY <1>1, <1>3, <1>4, Zenon
<1>6. Failed(kind, position, expected) # EndOfInput
  BY <1>2, <1>3, <1>4, Zenon
<1> QED
  BY <1>1, <1>2, <1>4, <1>5, <1>6 DEF Ok

LEMMA ReaderGoesOn ==
  ASSUME NEW data \in Seq(Byte), NEW chunk \in Nat \ {0}, NEW r \in Reader(data),
         next_event(r, data, chunk).event # EndOfInput
  PROVE  LET next == next_event(r, data, chunk).reader
         IN next \in Reader(data) /\ ToGo(data, next) < ToGo(data, r)
<1> PICK e : e = next_event(r, data, chunk)
  OBVIOUS
<1> PICK len, header : /\ len = RecLen(data, r.at, r.order)
                       /\ header = from_bytes(data, r.at, r.order)
  OBVIOUS
<1>1. r.at \in 0 .. Len(data) /\ Len(data) \in Nat /\ r.finished \in BOOLEAN /\ r.first_body \in BOOLEAN
  BY DEF Reader
<1>2. ~r.finished /\ ~(~r.first_body /\ Len(data) - r.at = 0)
  <2>1. r.finished \/ (~r.first_body /\ Len(data) - r.at = 0) => e = NoEvent(r, EndOfInput)
    BY NextEventIs
  <2>2. NoEvent(r, EndOfInput).event = EndOfInput
    BY DEF NoEvent
  <2> QED
    BY <2>1, <2>2
<1>3. CASE \E event : e = NoEvent(r, event)
  <2>1. e.reader \in Reader(data) /\ e.reader.finished
    BY <1>3, FinishedReader
  <2> QED
    BY <1>1, <1>2, <2>1 DEF ToGo
<1>4. CASE r.first_body
  <2>1. e = Event(r, [rec_len |-> 2, type |-> FAR], r.at)
    BY <1>2, <1>4, NextEventIs
  <2> PICK h : h = [rec_len |-> 2, type |-> FAR]
    OBVIOUS
  <2>2. h.rec_len \in Nat /\ r.at \in 0 .. Len(data)
    BY <1>1
  <2>3. e.reader \in Reader(data) /\ e.reader.finished = r.finished /\ ~e.reader.first_body
        /\ e.reader.at = r.at
    BY <2>1, <2>2, NextReader
  <2> QED
    BY <1>1, <1>2, <1>4, <2>3 DEF ToGo
<1>5. CASE ~r.first_body /\ Len(data) - r.at >= 4 /\ Len(data) - r.at - 4 >= len
  <2>1. e = Event(r, header, r.at + 4 + len)
    BY <1>2, <1>5, NextEventIs
  <2>2. len \in Nat /\ header.rec_len = len
    <3>1. r.at \in Nat /\ r.at + 4 <= Len(data)
      BY <1>1, <1>5
    <3> QED
      BY <3>1, HeaderType DEF RecLen
  <2>3. header.rec_len \in Nat /\ r.at + 4 + len \in 0 .. Len(data)
    BY <1>1, <1>5, <2>2
  <2>4. e.reader \in Reader(data) /\ e.reader.finished = r.finished /\ ~e.reader.first_body
        /\ e.reader.at = r.at + 4 + len
    BY <2>1, <2>3, NextReader
  <2> QED
    BY <1>1, <1>2, <1>5, <2>2, <2>4 DEF ToGo
<1>6. r.first_body \/ (\E event : e = NoEvent(r, event))
      \/ (~r.first_body /\ Len(data) - r.at >= 4 /\ Len(data) - r.at - 4 >= len)
  <2>1. CASE ~r.first_body /\ Len(data) - r.at \in 1 .. 3
    BY <1>2, <2>1, NextEventIs
  <2>2. CASE ~r.first_body /\ Len(data) - r.at >= 4 /\ Len(data) - r.at - 4 < len
    BY <1>2, <2>2, NextEventIs
  <2>3. len \in Nat \/ ~(Len(data) - r.at >= 4)
    <3>1. r.at \in Nat /\ (Len(data) - r.at >= 4 => r.at + 4 <= Len(data))
      BY <1>1
    <3> QED
      BY <3>1, HeaderType
  <2> QED
    BY <1>1, <1>2, <2>1, <2>2, <2>3
<1> QED
  BY <1>3, <1>4, <1>5, <1>6

LEMMA EventsExist ==
  ASSUME NEW data \in Seq(Byte), NEW chunk \in Nat \ {0}
  PROVE  /\ Events(data, chunk) = EventsFrom(data, chunk)[Opened(data, chunk)]
         /\ EventSteps(EventsFrom(data, chunk), data, chunk)
<1> DEFINE D == Reader(data)
           event(r) == next_event(r, data, chunk).event
           to(r) == next_event(r, data, chunk).reader
           V == Seq({event(r) : r \in D})
           ends == {r \in D : event(r) = EndOfInput}
           left == [r \in D |-> ToGo(data, r)]
           base == [r \in D |-> <<>>]
           next == [r \in D |-> IF event(r) = EndOfInput THEN r ELSE to(r)]
           op == [x \in D \X V |-> <<event(x[1])>> \o x[2]]
<1>1. Len(data) + 2 \in Nat
  OBVIOUS
<1>2. ASSUME NEW r \in D, event(r) # EndOfInput
      PROVE  to(r) \in D /\ ToGo(data, to(r)) < ToGo(data, r)
  BY <1>2, ReaderGoesOn
<1>3. next \in [D -> D] /\ \A r \in D : r \in ends \/ left[next[r]] < left[r]
  <2>1. ASSUME NEW r \in D PROVE next[r] \in D /\ (r \in ends \/ left[next[r]] < left[r])
    <3>1. CASE event(r) = EndOfInput
      BY <3>1
    <3>2. CASE event(r) # EndOfInput
      <4> PICK q : q = to(r)
        OBVIOUS
      <4>1. q \in D /\ ToGo(data, q) < ToGo(data, r)
        BY <1>2, <3>2
      <4>2. next[r] = q /\ left[q] = ToGo(data, q) /\ left[r] = ToGo(data, r)
        BY <3>2, <4>1
      <4> HIDE DEF next, left
      <4> QED
        BY <4>1, <4>2
    <3> QED
      BY <3>1, <3>2
  <2> QED
    BY <2>1
<1>4. left \in [D -> 0 .. Len(data) + 2]
  <2>1. ASSUME NEW r \in D PROVE ToGo(data, r) \in 0 .. Len(data) + 2
    BY <1>1 DEF ToGo, Reader
  <2> QED
    BY <2>1
<1>5. ends \in SUBSET D /\ base \in [D -> V]
  OBVIOUS
<1>6. op \in [D \X V -> V]
  <2>1. ASSUME NEW x \in D \X V PROVE <<event(x[1])>> \o x[2] \in V
    <3>1. x[1] \in D /\ x[2] \in V
      OBVIOUS
    <3> PICK R : R = {event(r) : r \in D}
      OBVIOUS
    <3>2. event(x[1]) \in R
      BY <3>1
    <3> HIDE DEF event
    <3>3. <<event(x[1])>> \in Seq(R) /\ x[2] \in Seq(R)
      BY <3>1, <3>2
    <3> QED
      BY <3>3
  <2> HIDE DEF V, event, D
  <2> QED
    BY <2>1
<1>7. PICK f \in [D -> V] : Walked(f, D, ends, base, next, op)
  <2> PICK N : N = Len(data) + 2
    OBVIOUS
  <2> HIDE DEF D, V, ends, left, base, next, op
  <2>1. Way(D, V, N, left, ends, base, next, op)
    BY <1>1, <1>3, <1>4, <1>5, <1>6 DEF Way
  <2> QED
    BY <2>1, WalkExists
<1>8. ASSUME NEW r \in D
      PROVE  f[r] = IF event(r) = EndOfInput THEN <<>> ELSE <<event(r)>> \o f[to(r)]
  <2>1. f[r] = IF r \in ends THEN base[r] ELSE op[<<r, f[next[r]]>>]
    BY <1>7 DEF Walked
  <2>2. CASE event(r) = EndOfInput
    BY <2>1, <2>2
  <2>3. CASE event(r) # EndOfInput
    <3>1. next[r] = to(r) /\ next[r] \in D
      BY <1>3, <2>3
    <3>2. <<r, f[next[r]]>> \in D \X V
      BY <3>1
    <3>3. op[<<r, f[next[r]]>>] = <<event(r)>> \o f[next[r]]
      BY <3>2
    <3>4. r \notin ends
      BY <2>3
    <3> HIDE DEF op, next, event, to, D, V, ends
    <3> QED
      BY <2>1, <2>3, <3>1, <3>3, <3>4
  <2> QED
    BY <2>2, <2>3
<1>9. \E from : from = [r \in Reader(data) |->
        IF next_event(r, data, chunk).event = EndOfInput THEN <<>>
        ELSE <<next_event(r, data, chunk).event>> \o from[next_event(r, data, chunk).reader]]
  <2>1. f = [r \in D |-> IF event(r) = EndOfInput THEN <<>> ELSE <<event(r)>> \o f[to(r)]]
    <3> HIDE DEF event, to, V, D
    <3> QED
      BY <1>8
  <2> QED
    BY <2>1
<1> PICK h : h = EventsFrom(data, chunk)
  OBVIOUS
<1>10. h = [r \in Reader(data) |->
        IF next_event(r, data, chunk).event = EndOfInput THEN <<>>
        ELSE <<next_event(r, data, chunk).event>> \o h[next_event(r, data, chunk).reader]]
  BY <1>9, Zenon DEF EventsFrom
<1>11. EventSteps(h, data, chunk)
  BY <1>10, Zenon DEF EventSteps
<1>12. Events(data, chunk) = EventsFrom(data, chunk)[Opened(data, chunk)]
  BY Zenon DEF Events, EventsFrom
<1> QED
  BY <1>11, <1>12

\* A file that begins with a FAR in an order.
IsFile(data, order) ==
  /\ data \in Seq(Byte) /\ Len(data) >= 6 /\ order \in Orders
  /\ from_bytes(data, 0, order) = [rec_len |-> 2, type |-> FAR]
  /\ detect_byte_order_result(SubSeq(data, 1, 6)) = [order |-> order]

AtRecord(data, order, r) ==
  r \in Reader(data) /\ ~r.finished /\ ~r.first_body /\ r.order = order /\ r.offset = r.at

LEMMA StreamFollowsBuffer ==
  ASSUME NEW data \in Seq(Byte), NEW order \in Orders, NEW chunk \in Nat \ {0}
  PROVE  \A r : AtRecord(data, order, r) =>
           EventsFrom(data, chunk)[r] = RawFrom(data, order)[r.at]
<1> DEFINE events == EventsFrom(data, chunk)
           raw == RawFrom(data, order)
           N == Len(data)
           T == {k \in Nat : \A r : AtRecord(data, order, r) /\ N - r.at <= k => events[r] = raw[r.at]}
<1>1. EventSteps(events, data, chunk) /\ RawSteps(raw, data, order) /\ N \in Nat
  BY EventsExist, RawExists
<1> HIDE DEF events, raw
<1>2. ASSUME NEW r, r \in Reader(data), r.finished
      PROVE  events[r] = <<>>
  <2>1. next_event(r, data, chunk) = NoEvent(r, EndOfInput)
    BY <1>2, NextEventIs
  <2>2. next_event(r, data, chunk).event = EndOfInput
    BY <2>1 DEF NoEvent
  <2> QED
    BY <1>1, <1>2, <2>2 DEF EventSteps
<1>3. raw[N] = <<>>
  <2>1. Len(data) \in 0 .. Len(data)
    BY <1>1
  <2> QED
    BY <1>1, <2>1, Zenon DEF RawSteps
<1>4. ASSUME NEW r, AtRecord(data, order, r)
      PROVE  \/ r.at = N /\ events[r] = <<>>
             \/ events[r] = raw[r.at]
             \/ /\ r.at < N
                /\ \E q, x : /\ AtRecord(data, order, q) /\ q.at \in r.at + 1 .. N
                             /\ events[r] = <<x>> \o events[q] /\ raw[r.at] = <<x>> \o raw[q.at]
  <2> PICK at, e, n, len, header :
           /\ at = r.at /\ e = next_event(r, data, chunk) /\ n = RawNext(data, at, order)
           /\ len = RecLen(data, at, order) /\ header = from_bytes(data, at, order)
    OBVIOUS
  <2>1. at \in 0 .. N /\ r \in Reader(data) /\ r.order = order /\ r.offset = at
        /\ ~r.finished /\ ~r.first_body
    BY <1>4 DEF AtRecord, Reader
  <2>2. events[r] = IF e.event = EndOfInput THEN <<>> ELSE <<e.event>> \o events[e.reader]
    BY <1>1, <2>1, Zenon DEF EventSteps
  <2>3. at # N => raw[at] = <<n.item>> \o raw[n.pos]
    BY <1>1, <2>1, Zenon DEF RawSteps
  <2>4. CASE at = N
    <3>0. Len(data) - r.at = 0
      BY <1>1, <2>1, <2>4
    <3>1. e = NoEvent(r, EndOfInput)
      BY <2>1, <3>0, NextEventIs
    <3>2. e.event = EndOfInput
      BY <3>1 DEF NoEvent
    <3> QED
      BY <2>2, <2>4, <3>2
  <2>5. ASSUME NEW kind, NEW p, NEW x, e = NoEvent(r, Failed(kind, p, x)), at # N,
               n.item = Failed(kind, p, x), n.pos = N
        PROVE  events[r] = raw[at]
    <3> PICK err : err = Failed(kind, p, x)
      OBVIOUS
    <3>1. e.event = err /\ e.reader \in Reader(data) /\ e.reader.finished
      BY <2>1, <2>5, FinishedReader
    <3>2. err # EndOfInput
      BY NoFrameEnds
    <3>3. events[e.reader] = <<>>
      BY <1>2, <3>1
    <3> QED
      BY <1>3, <2>2, <2>3, <2>5, <3>1, <3>2, <3>3
  <2>6. CASE at # N /\ at + 4 > N
    <3>1. N - at \in 1 .. 3 /\ at \in 0 .. Len(data) - 1
      BY <1>1, <2>1, <2>6
    <3>2. e = NoEvent(r, Failed("UnexpectedEof", at, 4))
      BY <2>1, <3>1, NextEventIs
    <3>3. n.item = Failed("UnexpectedEof", at, 4) /\ n.pos = N
      BY <2>6, <3>1, RawNextIs
    <3> QED
      BY <2>5, <2>6, <3>2, <3>3
  <2>7. CASE at + 4 <= N
    <3>1. at \in 0 .. Len(data) - 1 /\ N - at >= 4 /\ at \in Nat /\ at # N
      BY <1>1, <2>1, <2>7
    <3>2. len \in Nat /\ header.rec_len = len
      BY <2>7, <3>1, HeaderType DEF RecLen
    <3>3. CASE at + 4 + len > N
      <4>1. N - at - 4 < len
        BY <1>1, <3>1, <3>2, <3>3
      <4>2. e = NoEvent(r, Failed("UnexpectedEof", at + 4, len))
        BY <2>1, <3>1, <4>1, NextEventIs
      <4>3. n.item = Failed("UnexpectedEof", at + 4, len) /\ n.pos = N
        BY <2>7, <3>1, <3>3, RawNextIs
      <4> QED
        BY <2>5, <3>1, <4>2, <4>3
    <3>4. CASE at + 4 + len <= N
      <4>1. N - at - 4 >= len /\ at + 4 + len \in 0 .. N /\ at + 4 + len \in at + 1 .. N
        BY <1>1, <3>1, <3>2, <3>4
      <4>2. e = Event(r, header, at + 4 + len)
        BY <2>1, <3>1, <4>1, NextEventIs
      <4>3. n.item = Frame(at, header) /\ n.pos = at + 4 + len
        BY <2>7, <3>1, <3>4, RawNextIs
      <4>4. /\ e.event = Frame(at, header) /\ e.reader \in Reader(data)
            /\ e.reader.finished = r.finished /\ ~e.reader.first_body
            /\ e.reader.at = at + 4 + len /\ e.reader.order = order
            /\ e.reader.offset = at + 4 + len
        <5>1. at + 4 + len \in 0 .. Len(data) /\ header.rec_len \in Nat
          BY <1>1, <3>2, <4>1
        <5>2. /\ e.event = Frame(r.offset, header) /\ e.reader \in Reader(data)
              /\ e.reader.finished = r.finished /\ ~e.reader.first_body
              /\ e.reader.at = at + 4 + len /\ e.reader.order = r.order
              /\ e.reader.offset = r.offset + 4 + header.rec_len
          BY <2>1, <4>2, <5>1, NextReader
        <5> QED
          BY <2>1, <3>2, <5>2
      <4>5. AtRecord(data, order, e.reader)
        BY <2>1, <4>4 DEF AtRecord
      <4>6. e.event # EndOfInput
        BY <4>4, NoFrameEnds
      <4>7. events[r] = <<e.event>> \o events[e.reader] /\ raw[at] = <<e.event>> \o raw[e.reader.at]
        BY <2>2, <2>3, <3>1, <4>3, <4>4, <4>6
      <4>8. at < N /\ e.reader.at \in at + 1 .. N
        BY <1>1, <3>1, <4>1, <4>4
      <4> QED
        BY <4>5, <4>7, <4>8
    <3>5. at + 4 + len > N \/ at + 4 + len <= N
      BY <1>1, <3>1, <3>2
    <3> QED
      BY <3>3, <3>4, <3>5
  <2>8. at = N \/ (at # N /\ at + 4 > N) \/ at + 4 <= N
    BY <1>1, <2>1
  <2> QED
    BY <2>4, <2>6, <2>7, <2>8
<1>5. 0 \in T
  <2> SUFFICES ASSUME NEW r, AtRecord(data, order, r), N - r.at <= 0 PROVE events[r] = raw[r.at]
    OBVIOUS
  <2>1. r.at \in 0 .. N
    BY DEF AtRecord, Reader
  <2>2. r.at = N
    BY <1>1, <2>1
  <2> QED
    BY <1>1, <1>3, <1>4, <2>2
<1>6. ASSUME NEW k \in T PROVE k + 1 \in T
  <2> SUFFICES ASSUME NEW r, AtRecord(data, order, r), N - r.at <= k + 1 PROVE events[r] = raw[r.at]
    OBVIOUS
  <2>1. r.at \in 0 .. N
    BY DEF AtRecord, Reader
  <2>2. CASE r.at = N /\ events[r] = <<>>
    BY <1>3, <2>2
  <2>3. ASSUME NEW q, NEW x, AtRecord(data, order, q), q.at \in r.at + 1 .. N,
               events[r] = <<x>> \o events[q], raw[r.at] = <<x>> \o raw[q.at]
        PROVE  events[r] = raw[r.at]
    <3>1. N - q.at <= k
      BY <1>1, <2>1, <2>3
    <3>2. events[q] = raw[q.at]
      BY <1>6, <2>3, <3>1
    <3> QED
      BY <2>3, <3>2
  <2> QED
    BY <1>4, <2>2, <2>3
<1>7. T \in SUBSET Nat
  OBVIOUS
<1> HIDE DEF T
<1>8. T = Nat
  BY <1>5, <1>6, <1>7, NatSetInduction
<1>9. N \in T
  BY <1>1, <1>8
<1>10. ASSUME NEW r, AtRecord(data, order, r) PROVE events[r] = raw[r.at]
  <2>1. r.at \in 0 .. N
    BY <1>10 DEF AtRecord, Reader
  <2>2. N - r.at <= N
    BY <1>1, <2>1
  <2> QED
    BY <1>9, <1>10, <2>2 DEF T
<1> QED
  BY <1>10 DEF events, raw

\* The events of a stream are the items of the buffer, whatever its source returns at a time.
LEMMA EventsAreItems ==
  ASSUME NEW data, NEW order, IsFile(data, order), NEW chunk \in Nat \ {0}
  PROVE  Opened(data, chunk) = NewReader(order)
         /\ Events(data, chunk) = RawItems(data, order)
<1> DEFINE events == EventsFrom(data, chunk)
           raw == RawFrom(data, order)
<1>1. data \in Seq(Byte) /\ Len(data) \in Nat /\ Len(data) >= 6 /\ order \in Orders
  BY DEF IsFile
<1>2. Filled(data, 0, 6, chunk) = 6
  BY <1>1, FilledIs DEF Least
<1>3. Opened(data, chunk) = NewReader(order)
  <2>1. detect_byte_order_result(SubSeq(data, 1, 6)) = [order |-> order]
    BY DEF IsFile
  <2>2. Ok([order |-> order])
    BY DEF Ok
  <2> PICK found : found = detect_byte_order_result(SubSeq(data, 1, 6))
    OBVIOUS
  <2>3. Opened(data, chunk) =
          CASE 6 < 6 -> Failed("Io", 0, 0)
            [] 6 = 6 /\ Ok(found) -> NewReader(found.order)
            [] OTHER -> found
    BY <1>2, Zenon DEF Opened
  <2>4. found.order = order /\ Ok(found)
    BY <2>1, <2>2
  <2> QED
    BY <2>3, <2>4
<1> PICK r, e, q, h : /\ r = NewReader(order) /\ e = next_event(r, data, chunk)
                      /\ q = e.reader /\ h = [rec_len |-> 2, type |-> FAR]
  OBVIOUS
<1>4. r \in Reader(data) /\ ~r.finished /\ r.first_body /\ r.at = 6 /\ r.offset = 0 /\ r.order = order
  BY <1>1 DEF NewReader, Reader, Orders
<1>5. e = Event(r, h, 6)
  BY <1>1, <1>4, NextEventIs
<1>6. /\ e.event = Frame(0, h) /\ AtRecord(data, order, q) /\ q.at = 6
  <2>1. h.rec_len = 2 /\ h.rec_len \in Nat /\ 6 \in 0 .. Len(data)
    BY <1>1
  <2>2. /\ e.event = Frame(0, h) /\ q \in Reader(data)
        /\ q.finished = r.finished /\ ~q.first_body /\ q.at = 6
        /\ q.order = order /\ q.offset = 6
    BY <1>4, <1>5, <2>1, NextReader
  <2> QED
    BY <1>4, <2>2 DEF AtRecord
<1>7. events[r] = <<Frame(0, h)>> \o events[q]
  <2>1. EventSteps(events, data, chunk)
    BY <1>1, EventsExist
  <2>2. e.event # EndOfInput
    BY <1>6, NoFrameEnds
  <2> QED
    BY <1>4, <1>6, <2>1, <2>2 DEF EventSteps
<1>8. raw[0] = <<Frame(0, h)>> \o raw[6]
  <2>1. RawSteps(raw, data, order)
    BY <1>1, RawExists
  <2> PICK pos : pos = 0
    OBVIOUS
  <2> PICK n, len : n = RawNext(data, pos, order) /\ len = RecLen(data, pos, order)
    OBVIOUS
  <2>2. len = 2 /\ from_bytes(data, pos, order) = h
    BY DEF IsFile, RecLen
  <2>3. pos \in 0 .. Len(data) - 1 /\ pos + 4 <= Len(data) /\ pos + 4 + len <= Len(data)
    BY <1>1, <2>2
  <2> DEFINE Whole(p) ==
        p + 4 <= Len(data) /\ p + 4 + RecLen(data, p, order) <= Len(data) =>
          /\ RawNext(data, p, order).item = Frame(p, from_bytes(data, p, order))
          /\ RawNext(data, p, order).pos = p + 4 + RecLen(data, p, order)
  <2>8. \A p \in 0 .. Len(data) - 1 : Whole(p)
    <3> TAKE p \in 0 .. Len(data) - 1
    <3> QED
      BY <1>1, RawNextIs
  <2>9. Whole(pos)
    BY <2>3, <2>8, Zenon
  <2>4. n.item = Frame(pos, h) /\ n.pos = pos + 4 + len
    BY <2>2, <2>3, <2>9, Zenon
  <2>5. 0 \in 0 .. Len(data) /\ 0 # Len(data)
    BY <1>1
  <2>6. raw[0] = <<n.item>> \o raw[n.pos]
    BY <2>1, <2>5, Zenon DEF RawSteps
  <2>7. n.pos = 6 /\ n.item = Frame(0, h)
    BY <2>2, <2>4
  <2> QED
    BY <2>6, <2>7
<1>9. events[q] = raw[6]
  BY <1>1, <1>6, StreamFollowsBuffer
<1>10. Events(data, chunk) = events[r] /\ RawItems(data, order) = raw[0]
  BY <1>1, <1>3, EventsExist, RawExists
<1> QED
  BY <1>3, <1>7, <1>8, <1>9, <1>10

-----------------------------------------------------------------------------
(* The bytes of a recording.                                               *)

SizedRecord == [type : [1 .. 2 -> Byte], size : LenRange]
All(records) == <<[type |-> FAR, size |-> 2]>> \o records
Sizes(records) == [k \in DOMAIN All(records) |-> 4 + All(records)[k].size]
Start(records, i) == SumFunction([k \in 1 .. i - 1 |-> 4 + All(records)[k].size])
Piece(record, order) == HeaderBytes(record, order) \o [b \in 1 .. record.size |-> b % 3]
Pieces(records, order) == [i \in DOMAIN records |-> Piece(records[i], order)]

LEMMA FunctionIsSeq ==
  ASSUME NEW n \in Nat, NEW S, NEW f \in [1 .. n -> S]
  PROVE  f \in Seq(S) /\ Len(f) = n
<1>1. f = [i \in 1 .. n |-> f[i]]
  OBVIOUS
<1>2. \A i \in 1 .. n : f[i] \in S
  OBVIOUS
<1> DEFINE g == [i \in 1 .. n |-> f[i]]
<1>3. g \in Seq(S) /\ Len(g) = n
  BY <1>2
<1> QED
  BY <1>1, <1>3

Joins(h, s, t) ==
  /\ Len(h) = Len(s) + Len(t)
  /\ \A i \in 1 .. Len(s) : h[i] = s[i]
  /\ \A i \in 1 .. Len(t) : h[Len(s) + i] = t[i]
LEMMA ConcatIs ==
  ASSUME NEW S, NEW s \in Seq(S), NEW t \in Seq(S)
  PROVE  s \o t \in Seq(S) /\ Joins(s \o t, s, t)
BY DEF Joins

PieceOf(p, record, order) ==
  /\ p \in Seq(Byte) /\ Len(p) = 4 + record.size
  /\ p[3] = record.type[1] /\ p[4] = record.type[2]
  /\ record.size = IF order = LittleEndian THEN p[1] + 256 * p[2] ELSE 256 * p[1] + p[2]

LEMMA PieceIs ==
  ASSUME NEW record \in SizedRecord, NEW order \in Orders
  PROVE  PieceOf(Piece(record, order), record, order)
<1>0. PICK size, low, high, type :
        size = record.size /\ low = size % 256 /\ high = size \div 256 /\ type = record.type
  OBVIOUS
<1>1. size \in LenRange /\ type \in [1 .. 2 -> Byte]
  <2>1. record.size \in LenRange /\ record.type \in [1 .. 2 -> Byte]
    BY DEF SizedRecord
  <2> QED
    BY <1>0, <2>1
<1>2. low \in Byte /\ high \in Byte /\ size = low + 256 * high
  <2>1. size \in Nat /\ size < 65536
    BY <1>1, Ranges
  <2>2. low \in Nat /\ low <= 255 /\ high \in Nat /\ size = 256 * high + low
    BY <1>0, <2>1
  <2>3. high <= 255
    BY <2>1, <2>2
  <2> QED
    BY <2>2, <2>3, Ranges
<1>3. type \in Seq(Byte) /\ Len(type) = 2
  BY <1>1, FunctionIsSeq
<1> DEFINE first == IF order = LittleEndian THEN <<low, high>> ELSE <<high, low>>
           body == [b \in 1 .. size |-> b % 3]
<1>4. first \in Seq(Byte) /\ Len(first) = 2
  BY <1>2
<1>5. body \in Seq(Byte) /\ Len(body) = size
  <2>1. \A b \in 1 .. size : b % 3 \in Byte
    <3>1. size \in Nat
      BY <1>1, Ranges
    <3> TAKE b \in 1 .. size
    <3>2. b % 3 \in Nat /\ b % 3 <= 255
      BY <3>1
    <3> QED
      BY <3>2, Ranges
  <2>2. body \in [1 .. size -> Byte]
    BY <2>1
  <2> QED
    BY <1>1, <2>2, Ranges, FunctionIsSeq
<1>6. Piece(record, order) = (first \o type) \o body
  BY <1>0, SMTT(30) DEF Piece, HeaderBytes
<1>7. first[1] = IF order = LittleEndian THEN low ELSE high
  OBVIOUS
<1>8. first[2] = IF order = LittleEndian THEN high ELSE low
  OBVIOUS
<1> HIDE DEF first, body
<1>9. first \o type \in Seq(Byte) /\ Len(first \o type) = 4
      /\ (first \o type)[1] = first[1] /\ (first \o type)[2] = first[2]
      /\ (first \o type)[3] = type[1] /\ (first \o type)[4] = type[2]
  <2>1. PICK h : h = first \o type
    OBVIOUS
  <2>2. /\ h \in Seq(Byte) /\ Len(h) = 4
        /\ \A i \in 1 .. 2 : h[i] = first[i] /\ h[2 + i] = type[i]
    <3>1. h \in Seq(Byte) /\ Joins(h, first, type)
      BY <1>3, <1>4, <2>1, ConcatIs, Zenon
    <3> QED
      BY <1>3, <1>4, <3>1 DEF Joins
  <2>3. 1 \in 1 .. 2 /\ 2 \in 1 .. 2 /\ 2 + 1 = 3 /\ 2 + 2 = 4
    OBVIOUS
  <2>4. h[1] = first[1] /\ h[2] = first[2] /\ h[3] = type[1] /\ h[4] = type[2]
    BY <2>2, <2>3
  <2> QED
    BY <2>1, <2>2, <2>4
<1> PICK h : h = first \o type
  OBVIOUS
<1>p. PICK p : p = h \o body
  OBVIOUS
<1>10. p \in Seq(Byte) /\ Len(p) = 4 + size
       /\ p[1] = first[1] /\ p[2] = first[2] /\ p[3] = type[1] /\ p[4] = type[2]
  <2>1. h \in Seq(Byte) /\ Len(h) = 4 /\ size \in Nat
    BY <1>1, <1>9, Ranges
  <2>2. p \in Seq(Byte) /\ Len(p) = 4 + size /\ \A i \in 1 .. 4 : p[i] = h[i]
    <3>1. p \in Seq(Byte) /\ Joins(p, h, body)
      BY <1>5, <1>p, <2>1, ConcatIs, Zenon
    <3> QED
      BY <1>5, <2>1, <3>1 DEF Joins
  <2>3. p[1] = h[1] /\ p[2] = h[2] /\ p[3] = h[3] /\ p[4] = h[4]
    <3>1. 1 \in 1 .. 4 /\ 2 \in 1 .. 4 /\ 3 \in 1 .. 4 /\ 4 \in 1 .. 4
      OBVIOUS
    <3> QED
      BY <2>2, <3>1, Zenon
  <2> QED
    BY <1>9, <2>2, <2>3
<1>11. size = IF order = LittleEndian THEN p[1] + 256 * p[2] ELSE 256 * p[1] + p[2]
  <2>1. low \in Nat /\ high \in Nat
    BY <1>2, Ranges
  <2> QED
    BY <1>2, <1>7, <1>8, <1>10, <2>1
<1>12. PieceOf(p, record, order)
  BY <1>0, <1>10, <1>11 DEF PieceOf
<1>13. Piece(record, order) = p
  BY <1>6, <1>p
<1> QED
  BY <1>12, <1>13

LEMMA AllIs ==
  ASSUME NEW records \in Seq(SizedRecord)
  PROVE  /\ Len(All(records)) = Len(records) + 1 /\ DOMAIN All(records) = 1 .. Len(records) + 1
         /\ All(records)[1] = [type |-> FAR, size |-> 2]
         /\ \A i \in 1 .. Len(records) : All(records)[i + 1] = records[i]
         /\ \A i \in 1 .. Len(records) + 1 : All(records)[i].size \in Nat
<1> PICK far : far = [type |-> FAR, size |-> 2]
  OBVIOUS
<1>1. far.size = 2
  OBVIOUS
<1> PICK all : all = All(records)
  OBVIOUS
<1>2. all = <<far>> \o records
  BY DEF All
<1>3. Len(all) = Len(records) + 1 /\ DOMAIN all = 1 .. Len(records) + 1 /\ all[1] = far
      /\ \A i \in 1 .. Len(records) : all[i + 1] = records[i]
  BY <1>2
<1>4. ASSUME NEW i \in 1 .. Len(records) + 1 PROVE all[i].size \in Nat
  <2>1. CASE i = 1
    BY <1>1, <1>3, <2>1
  <2>2. CASE i # 1
    <3> PICK j : j = i - 1
      OBVIOUS
    <3>1. j \in 1 .. Len(records) /\ i = j + 1
      BY <2>2
    <3>2. all[i] = records[j] /\ records[j] \in SizedRecord
      BY <1>3, <3>1
    <3>3. records[j].size \in LenRange
      BY <3>2 DEF SizedRecord
    <3>4. records[j].size \in Nat
      BY <3>3, Ranges
    <3> QED
      BY <3>2, <3>4
  <2> QED
    BY <2>1, <2>2
<1> QED
  BY <1>3, <1>4

LEMMA StartNext ==
  ASSUME NEW records \in Seq(SizedRecord)
  PROVE  /\ Start(records, 1) = 0
         /\ \A i \in 1 .. Len(records) + 1 :
              /\ Start(records, i) \in Nat
              /\ Start(records, i + 1) = Start(records, i) + 4 + All(records)[i].size
         /\ Start(records, Len(records) + 2) \in Nat
<1> DEFINE m == Len(records) + 1
           w == Sizes(records)
<1>1. m \in Nat /\ \A k \in 1 .. m : w[k] = 4 + All(records)[k].size /\ All(records)[k].size \in Nat
  BY AllIs DEF Sizes
<1> HIDE DEF m, w
<1>2. ASSUME NEW n \in 0 .. m PROVE Start(records, n + 1) = SumFunctionOnSet(w, 1 .. n)
  <2> DEFINE v == [k \in 1 .. (n + 1) - 1 |-> 4 + All(records)[k].size]
  <2>1. 1 .. (n + 1) - 1 = 1 .. n /\ DOMAIN v = 1 .. n /\ IsFiniteSet(1 .. n)
    BY PrefixFinite
  <2>2. \A k \in 1 .. n : v[k] = w[k]
    BY <1>1, <2>1
  <2>3. Start(records, n + 1) = SumFunctionOnSet(v, DOMAIN v)
    BY Zenon DEF Start, SumFunction
  <2> HIDE DEF v
  <2> QED
    BY <2>1, <2>2, <2>3, SumSame
<1>3. ASSUME NEW n \in 0 .. m PROVE SumFunctionOnSet(w, 1 .. n) \in Nat
  <2>1. \A k \in 1 .. n : w[k] \in Nat
    BY <1>1
  <2>2. n \in Nat
    OBVIOUS
  <2>3. IsFiniteSet(1 .. n)
    BY <2>2, PrefixFinite
  <2> PICK S : S = 1 .. n
    OBVIOUS
  <2> QED
    BY <2>1, <2>3, SumNat
<1>4. ASSUME NEW n \in 0 .. m - 1
      PROVE  SumFunctionOnSet(w, 1 .. n + 1) = SumFunctionOnSet(w, 1 .. n) + (4 + All(records)[n + 1].size)
  <2>1. n \in Nat /\ n + 1 \in 1 .. m /\ \A k \in 1 .. n : k \in 1 .. m
    BY <1>1
  <2>2. \A k \in 1 .. n : w[k] \in Nat
    BY <1>1, <2>1
  <2>3. w[n + 1] = 4 + All(records)[n + 1].size /\ w[n + 1] \in Nat
    BY <1>1, <2>1
  <2> QED
    BY <2>1, <2>2, <2>3, SumNext
<1>5. Start(records, 1) = 0
  <2>1. 1 .. 0 = {} /\ 0 \in 0 .. m
    BY <1>1
  <2>2. Start(records, 0 + 1) = SumFunctionOnSet(w, 1 .. 0)
    BY <1>2, <2>1
  <2> QED
    BY <2>1, <2>2, SumEmpty
<1>6. ASSUME NEW i \in 1 .. m
      PROVE  /\ Start(records, i) \in Nat
             /\ Start(records, i + 1) = Start(records, i) + 4 + All(records)[i].size
  <2> PICK n : n = i - 1
    OBVIOUS
  <2>1. n \in 0 .. m - 1 /\ n \in 0 .. m /\ n + 1 \in 0 .. m /\ i = n + 1
    BY <1>1
  <2> PICK a, b, c : /\ a = SumFunctionOnSet(w, 1 .. n) /\ b = SumFunctionOnSet(w, 1 .. n + 1)
                     /\ c = All(records)[n + 1].size
    OBVIOUS
  <2>2. Start(records, n + 1) = a /\ Start(records, (n + 1) + 1) = b
    BY <1>2, <2>1
  <2>3. a \in Nat /\ b = a + (4 + c) /\ c \in Nat
    BY <1>1, <1>3, <1>4, <2>1
  <2> QED
    BY <2>1, <2>2, <2>3, SMTT(30)
<1>7. Start(records, Len(records) + 2) \in Nat
  <2>1. m \in 1 .. m /\ m + 1 = Len(records) + 2
    BY DEF m
  <2>2. Start(records, m) \in Nat /\ Start(records, m + 1) = Start(records, m) + 4 + All(records)[m].size
        /\ All(records)[m].size \in Nat
    BY <1>1, <1>6, <2>1
  <2> PICK a, b : a = Start(records, m) /\ b = All(records)[m].size
    OBVIOUS
  <2>3. a + 4 + b \in Nat
    BY <2>2
  <2> QED
    BY <2>1, <2>2, <2>3
<1> QED
  BY <1>5, <1>6, <1>7 DEF m

LEMMA StartsGrow ==
  ASSUME NEW records \in Seq(SizedRecord)
  PROVE  \A i, j \in 1 .. Len(records) + 2 : i <= j =>
           Start(records, i) \in Nat /\ Start(records, j) \in Nat /\ Start(records, i) + 4 * (j - i) <= Start(records, j)
<1> DEFINE M == Len(records) + 2
           s(i) == Start(records, i)
           T == {k \in Nat : \A i, j \in 1 .. M : i <= j /\ j = i + k => s(i) + 4 * (j - i) <= s(j)}
<1>1. M \in Nat /\ \A i \in 1 .. M : s(i) \in Nat
  <2>1. M \in Nat
    OBVIOUS
  <2>2. ASSUME NEW i \in 1 .. M PROVE s(i) \in Nat
    <3>1. i \in 1 .. Len(records) + 1 \/ i = Len(records) + 2
      OBVIOUS
    <3> QED
      BY <3>1, StartNext
  <2> QED
    BY <2>1, <2>2
<1>2. \A i \in 1 .. M - 1 : s(i) + 4 <= s(i + 1)
  <2> TAKE i \in 1 .. M - 1
  <2>1. i \in 1 .. Len(records) + 1
    OBVIOUS
  <2>2. s(i + 1) = s(i) + 4 + All(records)[i].size /\ All(records)[i].size \in Nat /\ s(i) \in Nat
    BY <2>1, StartNext, AllIs
  <2> PICK a, b : a = s(i) /\ b = All(records)[i].size
    OBVIOUS
  <2>3. a + 4 <= a + 4 + b
    BY <2>2
  <2> QED
    BY <2>2, <2>3
<1> HIDE DEF s, M
<1>3. 0 \in T
  BY <1>1
<1>4. ASSUME NEW k \in T PROVE k + 1 \in T
  <2> SUFFICES ASSUME NEW i \in 1 .. M, NEW j \in 1 .. M, i <= j, j = i + (k + 1)
               PROVE  s(i) + 4 * (j - i) <= s(j)
    OBVIOUS
  <2> PICK h : h = j - 1
    OBVIOUS
  <2>1. h \in 1 .. M - 1 /\ h \in 1 .. M /\ i <= h /\ h = i + k /\ j = h + 1 /\ k \in Nat
    BY <1>1
  <2>2. s(i) + 4 * (h - i) <= s(h)
    BY <1>4, <2>1
  <2>3. s(h) + 4 <= s(j)
    BY <1>2, <2>1
  <2>4. s(i) \in Nat /\ s(h) \in Nat /\ s(j) \in Nat
    BY <1>1, <2>1
  <2> QED
    BY <2>1, <2>2, <2>3, <2>4
<1>5. T \in SUBSET Nat
  OBVIOUS
<1> HIDE DEF T
<1>6. T = Nat
  BY <1>3, <1>4, <1>5, NatSetInduction
<1>7. ASSUME NEW i \in 1 .. M, NEW j \in 1 .. M, i <= j PROVE s(i) + 4 * (j - i) <= s(j)
  <2> PICK k : k = j - i
    OBVIOUS
  <2>1. k \in T /\ j = i + k
    BY <1>1, <1>6, <1>7
  <2> QED
    BY <1>7, <2>1 DEF T
<1> QED
  BY <1>1, <1>7 DEF s, M

\* A head that is accepted is a FAR in the order that is found in it.
LEMMA HeadIs ==
  ASSUME NEW head, Len(head) = 6, Ok(detect_byte_order_result(head))
  PROVE  LET order == detect_byte_order(head)
         IN /\ order \in Orders /\ detect_byte_order_result(head) = [order |-> order]
            /\ from_bytes(head, 0, order) = [rec_len |-> 2, type |-> FAR]
<1> PICK order, found : order = OrderOf(head) /\ found = detect_byte_order_result(head)
  OBVIOUS
<1>1. detect_byte_order(head) = order
  BY DEF detect_byte_order
<1>2. found = CASE order = "none" /\ (IsFar(head, LittleEndian) \/ IsFar(head, BigEndian)) ->
                     Failed("InvalidField", 0, 0)
                [] order = "none" -> Failed("InvalidFar", 0, 0)
                [] order # "none" /\ head[6] # STDF_VER -> Failed("UnsupportedVersion", 0, 0)
                [] OTHER -> [order |-> order]
  <2>1. ~(Len(head) < 6)
    OBVIOUS
  <2> QED
    BY <2>1, Zenon DEF detect_byte_order_result
<1>3. Ok(found) /\ \A kind : ~Ok(Failed(kind, 0, 0))
  BY NoFrameEnds
<1>4. order # "none" /\ found = [order |-> order]
  <2>1. \A kind : found # Failed(kind, 0, 0)
    BY <1>3, Zenon
  <2> DEFINE far == IsFar(head, LittleEndian) \/ IsFar(head, BigEndian)
             none == order = "none"
             old == head[6] # STDF_VER
  <2>2. found = CASE none /\ far -> Failed("InvalidField", 0, 0)
                  [] none -> Failed("InvalidFar", 0, 0)
                  [] ~none /\ old -> Failed("UnsupportedVersion", 0, 0)
                  [] OTHER -> [order |-> order]
    BY <1>2
  <2> HIDE DEF far, none, old
  <2>3. ~none
    <3>1. CASE none /\ far
      <4>1. found = Failed("InvalidField", 0, 0) \/ found = Failed("InvalidFar", 0, 0)
        BY <2>2, <3>1
      <4> QED
        BY <2>1, <4>1
    <3>2. CASE none /\ ~far
      <4>1. found = Failed("InvalidFar", 0, 0)
        BY <2>2, <3>2
      <4> QED
        BY <2>1, <4>1
    <3> QED
      BY <3>1, <3>2
  <2>4. ~old
    <3> SUFFICES ASSUME old PROVE FALSE
      OBVIOUS
    <3>1. found = Failed("UnsupportedVersion", 0, 0)
      BY <2>2, <2>3
    <3> QED
      BY <2>1, <3>1
  <2>5. found = [order |-> order]
    BY <2>2, <2>3, <2>4
  <2> QED
    BY <2>3, <2>5 DEF none
<1>5. order \in Orders /\ IsFar(head, order)
  <2> DEFINE little == IsFar(head, LittleEndian) /\ head[5] = 2
             big == IsFar(head, BigEndian) /\ head[5] = 1
  <2>1. order = CASE little -> LittleEndian [] big -> BigEndian [] OTHER -> "none"
    BY DEF OrderOf
  <2>2. ~(little /\ big)
    OBVIOUS
  <2> HIDE DEF little, big
  <2>3. (little /\ order = LittleEndian) \/ (big /\ order = BigEndian)
    BY <1>4, <2>1, <2>2
  <2> QED
    BY <2>3 DEF little, big, Orders
<1> QED
  BY <1>1, <1>4, <1>5 DEF IsFar

\* The whole file: the records lie one after another.
FullIs(full, records, order) ==
  /\ full \in Seq(Byte) /\ Len(full) = Start(records, Len(records) + 2)
  /\ \A i \in 1 .. Len(records) + 1 :
       from_bytes(full, Start(records, i), order) =
         [rec_len |-> All(records)[i].size, type |-> All(records)[i].type]

LEMMA StartIsTotal ==
  ASSUME NEW records \in Seq(SizedRecord), NEW order \in Orders
  PROVE  /\ Pieces(records, order) \in Seq(Seq(Byte)) /\ Len(Pieces(records, order)) = Len(records)
         /\ \A k \in 0 .. Len(records) :
              Start(records, k + 2) = 6 + Total(Pieces(records, order), k)
<1> DEFINE m == Len(records)
           pieces == Pieces(records, order)
           T == {k \in Nat : k <= m => Start(records, k + 2) = 6 + Total(pieces, k)}
<1>1. m \in Nat /\ DOMAIN records = 1 .. m /\ \A i \in 1 .. m : records[i] \in SizedRecord
  OBVIOUS
<1>2. \A i \in 1 .. m : Piece(records[i], order) \in Seq(Byte) /\ Len(Piece(records[i], order)) = 4 + records[i].size
  BY <1>1, PieceIs DEF PieceOf
<1>3. pieces \in Seq(Seq(Byte)) /\ Len(pieces) = m /\ \A i \in 1 .. m : pieces[i] = Piece(records[i], order)
  BY <1>1, <1>2 DEF Pieces
<1>4. 0 \in T
  <2>1. Start(records, 1) = 0 /\ Start(records, 1 + 1) = Start(records, 1) + 4 + All(records)[1].size
    <3>1. 1 \in 1 .. Len(records) + 1
      BY <1>1
    <3> QED
      BY <3>1, StartNext
  <2>2. All(records)[1].size = 2
    BY AllIs
  <2>3. Start(records, 2) = 6
    BY <2>1, <2>2
  <2>4. Total(pieces, 0) = 0
    BY <1>3, TotalNext
  <2> HIDE DEF pieces
  <2> QED
    BY <2>3, <2>4
<1>5. ASSUME NEW k \in T PROVE k + 1 \in T
  <2> SUFFICES ASSUME k + 1 <= m PROVE Start(records, (k + 1) + 2) = 6 + Total(pieces, k + 1)
    OBVIOUS
  <2>1. k \in Nat /\ k \in 0 .. m - 1 /\ k \in 0 .. m /\ k + 1 \in 1 .. m /\ k + 2 \in 1 .. m + 1
        /\ (k + 1) + 2 = (k + 2) + 1 /\ k + 2 = (k + 1) + 1
    BY <1>1
  <2>2. Total(pieces, k + 1) = Total(pieces, k) + Len(pieces[k + 1]) /\ Total(pieces, k) \in Nat
    BY <1>3, <2>1, TotalNext
  <2>3. Len(pieces[k + 1]) = 4 + records[k + 1].size
    BY <1>2, <1>3, <2>1
  <2>4. Start(records, (k + 2) + 1) = Start(records, k + 2) + 4 + All(records)[k + 2].size
    BY <2>1, StartNext
  <2>5. All(records)[k + 2] = records[k + 1] /\ All(records)[k + 2].size \in Nat
    <3>1. All(records)[(k + 1) + 1] = records[k + 1]
      BY <2>1, AllIs
    <3> QED
      BY <2>1, <3>1, AllIs
  <2>6. Start(records, k + 2) = 6 + Total(pieces, k)
    BY <1>5, <2>1
  <2>p. PICK a, b, t : a = Start(records, k + 2) /\ b = All(records)[k + 2].size /\ t = Total(pieces, k)
    OBVIOUS
  <2>7. Start(records, (k + 1) + 2) = a + 4 + b /\ Total(pieces, k + 1) = t + (4 + b) /\ a = 6 + t /\ b \in Nat /\ t \in Nat
    BY <2>p, <2>1, <2>2, <2>3, <2>4, <2>5, <2>6
  <2>8. a + 4 + b = 6 + (t + (4 + b))
    <3>1. a = 6 + t /\ b \in Nat /\ t \in Nat
      BY <2>7
    <3> QED
      BY <3>1
  <2> HIDE DEF pieces
  <2> QED
    BY <2>7, <2>8
<1>6. T \in SUBSET Nat
  OBVIOUS
<1> HIDE DEF T
<1>7. T = Nat
  BY <1>4, <1>5, <1>6, NatSetInduction
<1>8. \A k \in 0 .. m : Start(records, k + 2) = 6 + Total(pieces, k)
  BY <1>1, <1>7 DEF T
<1> QED
  BY <1>3, <1>8

LEMMA EncodeIs ==
  ASSUME NEW records \in Seq(SizedRecord), NEW order \in Orders
  PROVE  /\ Encode(records, order) \in Seq(Byte)
         /\ 6 + Len(Encode(records, order)) = Start(records, Len(records) + 2)
         /\ \A i \in 1 .. Len(records) : \A j \in 1 .. 4 :
              Encode(records, order)[Start(records, i + 1) - 6 + j] = Piece(records[i], order)[j]
<1> DEFINE m == Len(records)
           pieces == Pieces(records, order)
<1> PICK code : code = FlattenSeq(pieces)
  OBVIOUS
<1>1. Encode(records, order) = code
  BY Zenon DEF Encode, Pieces, Piece
<1>2. m \in Nat /\ DOMAIN records = 1 .. m /\ \A i \in 1 .. m : records[i] \in SizedRecord
  OBVIOUS
<1>3. pieces \in Seq(Seq(Byte)) /\ Len(pieces) = m
      /\ \A k \in 0 .. m : Start(records, k + 2) = 6 + Total(pieces, k)
  BY StartIsTotal
<1>4. \A i \in 1 .. m : pieces[i] = Piece(records[i], order)
  BY <1>2 DEF Pieces
<1> HIDE DEF pieces
<1>5. code \in Seq(Byte) /\ Holds(pieces, code, m)
  BY <1>3, FlattenAt
<1>6. \A k \in 0 .. m : Total(pieces, k) \in Nat
  BY <1>3, TotalNext
<1>7. 6 + Len(code) = Start(records, m + 2)
  <2>1. m \in 0 .. m
    BY <1>2
  <2> QED
    BY <1>3, <1>5, <2>1 DEF Holds
<1>8. ASSUME NEW i \in 1 .. m, NEW j \in 1 .. 4
      PROVE  code[Start(records, i + 1) - 6 + j] = Piece(records[i], order)[j]
  <2> PICK k : k = i - 1
    OBVIOUS
  <2>1. k \in 0 .. m /\ i + 1 = k + 2
    BY <1>2
  <2> PICK t : t = Total(pieces, k)
    OBVIOUS
  <2>2. Start(records, i + 1) = 6 + t /\ t \in Nat
    BY <1>3, <1>6, <2>1
  <2>3. j \in 1 .. Len(pieces[i])
    <3>1. records[i] \in SizedRecord /\ Len(pieces[i]) = 4 + records[i].size
      BY <1>2, <1>4, PieceIs DEF PieceOf
    <3>2. records[i].size \in Nat
      BY <3>1, Ranges DEF SizedRecord
    <3> QED
      BY <3>1, <3>2
  <2>4. code[Total(pieces, i - 1) + j] = pieces[i][j]
    BY <1>5, <2>3 DEF Holds
  <2>5. Start(records, i + 1) - 6 + j = t + j
    BY <2>2
  <2> QED
    BY <1>4, <2>4, <2>5
<1> QED
  BY <1>1, <1>5, <1>7, <1>8

SameBytes(f, p, g, q) == \A j \in 1 .. 4 : f[p + j] = g[q + j]
LEMMA SameHeader ==
  ASSUME NEW f, NEW g, NEW p \in Nat, NEW q \in Nat, NEW order, SameBytes(f, p, g, q)
  PROVE  from_bytes(f, p, order) = from_bytes(g, q, order)
<1>1. 1 \in 1 .. 4 /\ 2 \in 1 .. 4 /\ 3 \in 1 .. 4 /\ 4 \in 1 .. 4
  OBVIOUS
<1>2. f[p + 1] = g[q + 1] /\ f[p + 2] = g[q + 2] /\ f[p + 3] = g[q + 3] /\ f[p + 4] = g[q + 4]
  BY <1>1, Zenon DEF SameBytes
<1> QED
  BY <1>2, Zenon DEF from_bytes

LEMMA AfterHead ==
  ASSUME NEW p \in Nat, NEW n \in Nat, NEW j \in 1 .. 4, 6 <= p, p + 4 <= 6 + n
  PROVE  p - 6 \in Nat /\ (p - 6) + j \in 1 .. n /\ p + j = 6 + ((p - 6) + j)
  OBVIOUS

LEMMA FullFile ==
  ASSUME NEW head \in Seq(Byte), Len(head) = 6, NEW order \in Orders,
         from_bytes(head, 0, order) = [rec_len |-> 2, type |-> FAR],
         NEW records \in Seq(SizedRecord)
  PROVE  FullIs(head \o Encode(records, order), records, order)
<1> DEFINE m == Len(records)
<1> PICK code, full : code = Encode(records, order) /\ full = head \o code
  OBVIOUS
<1>1. code \in Seq(Byte) /\ 6 + Len(code) = Start(records, m + 2)
      /\ \A i \in 1 .. m : \A j \in 1 .. 4 :
           code[Start(records, i + 1) - 6 + j] = Piece(records[i], order)[j]
  BY EncodeIs
<1>2. full \in Seq(Byte) /\ Joins(full, head, code)
  BY <1>1, ConcatIs, Zenon
<1>3. m \in Nat /\ DOMAIN records = 1 .. m /\ \A i \in 1 .. m : records[i] \in SizedRecord
  OBVIOUS
<1>4. Len(full) = Start(records, m + 2)
  BY <1>1, <1>2 DEF Joins
<1>5. from_bytes(full, Start(records, 1), order)
        = [rec_len |-> All(records)[1].size, type |-> All(records)[1].type]
  <2>1. Start(records, 1) = 0
    BY StartNext
  <2>2. All(records)[1].size = 2 /\ All(records)[1].type = FAR
    BY AllIs
  <2>p. PICK p : p = 0
    OBVIOUS
  <2>3. p \in Nat /\ SameBytes(full, p, head, p)
    BY <1>2, <2>p DEF Joins, SameBytes
  <2>4. from_bytes(full, p, order) = from_bytes(head, p, order)
    BY <2>3, SameHeader
  <2> QED
    BY <2>p, <2>1, <2>2, <2>4
<1>6. ASSUME NEW i \in 1 .. m
      PROVE  from_bytes(full, Start(records, i + 1), order)
               = [rec_len |-> All(records)[i + 1].size, type |-> All(records)[i + 1].type]
  <2> PICK p, piece, record : /\ p = Start(records, i + 1) /\ record = records[i]
                              /\ piece = Piece(record, order)
    OBVIOUS
  <2>1. i + 1 \in 1 .. m + 1 /\ record \in SizedRecord /\ All(records)[i + 1] = record
    BY <1>3, AllIs
  <2>2. piece \in Seq(Byte) /\ Len(piece) = 4 + record.size
        /\ piece[3] = record.type[1] /\ piece[4] = record.type[2]
        /\ record.size = IF order = LittleEndian THEN piece[1] + 256 * piece[2]
                         ELSE 256 * piece[1] + piece[2]
    <3>1. PieceOf(piece, record, order)
      BY <2>1, PieceIs
    <3> QED
      BY <3>1 DEF PieceOf
  <2>3. p \in Nat /\ 6 <= p /\ p + 4 <= Len(full)
    <3>1. Start(records, 2) = 6 /\ i + 1 \in 1 .. m + 2 /\ i + 2 \in 1 .. m + 2 /\ m + 2 \in 1 .. m + 2
          /\ 2 \in 1 .. m + 2 /\ 2 <= i + 1 /\ i + 1 <= m + 2
      <4>1. Start(records, 0 + 2) = 6 + Total(Pieces(records, order), 0) /\ Total(Pieces(records, order), 0) = 0
        <5>1. 0 \in 0 .. m
          BY <1>3
        <5> QED
          BY <5>1, StartIsTotal, TotalNext
      <4> QED
        BY <1>3, <4>1
    <3>2. p \in Nat /\ Start(records, 2) + 4 * ((i + 1) - 2) <= p
          /\ p + 4 * ((m + 2) - (i + 1)) <= Start(records, m + 2) /\ Start(records, m + 2) \in Nat
      BY <3>1, StartsGrow
    <3> PICK last : last = Start(records, m + 2)
      OBVIOUS
    <3> HIDE DEF m
    <3> QED
      BY <1>3, <1>4, <3>1, <3>2, SMTT(30)
  <2>q. PICK q : q = p - 6
    OBVIOUS
  <2>4. ASSUME NEW j \in 1 .. 4 PROVE full[p + j] = piece[j]
    <3>1. q \in Nat /\ q + j \in 1 .. Len(code) /\ p + j = 6 + (q + j)
      <4> PICK n : n = Len(code)
        OBVIOUS
      <4>1. Len(full) = 6 + n /\ n \in Nat
        BY <1>1, <1>2 DEF Joins
      <4>2. p + 4 <= 6 + n
        BY <2>3, <4>1
      <4> QED
        BY <2>q, <2>3, <4>1, <4>2, AfterHead
    <3>2. full[Len(head) + (q + j)] = code[q + j]
      BY <1>2, <3>1, Zenon DEF Joins
    <3>3. code[q + j] = piece[j]
      BY <1>1, <2>q, Zenon
    <3> QED
      BY <3>1, <3>2, <3>3
  <2>z. PICK zero : zero = 0
    OBVIOUS
  <2>5. from_bytes(full, p, order) = from_bytes(piece, zero, order)
    <3>1. SameBytes(full, p, piece, zero)
      <4> SUFFICES \A j \in 1 .. 4 : full[p + j] = piece[zero + j]
        BY Zenon DEF SameBytes
      <4> TAKE j \in 1 .. 4
      <4>1. zero + j = j
        BY <2>z
      <4> QED
        BY <2>4, <4>1
    <3>2. p \in Nat /\ zero \in Nat
      BY <2>3, <2>z
    <3> QED
      BY <3>1, <3>2, SameHeader
  <2>6. <<piece[3], piece[4]>> = record.type
    <3>1. record.type \in [1 .. 2 -> Byte]
      BY <2>1 DEF SizedRecord
    <3>2. record.type \in Seq(Byte) /\ Len(record.type) = 2
      BY <3>1, FunctionIsSeq
    <3> QED
      BY <2>2, <3>2
  <2>7. from_bytes(piece, zero, order) = [rec_len |-> record.size, type |-> <<piece[3], piece[4]>>]
    <3>1. zero + 1 = 1 /\ zero + 2 = 2 /\ zero + 3 = 3 /\ zero + 4 = 4
      BY <2>z
    <3>2. from_bytes(piece, zero, order) =
            [rec_len |-> IF order = LittleEndian THEN piece[zero + 1] + 256 * piece[zero + 2]
                                                 ELSE 256 * piece[zero + 1] + piece[zero + 2],
             type |-> <<piece[zero + 3], piece[zero + 4]>>]
      BY Zenon DEF from_bytes
    <3>3. record.size = IF order = LittleEndian THEN piece[1] + 256 * piece[2] ELSE 256 * piece[1] + piece[2]
      BY <2>2
    <3>4. /\ piece[zero + 1] = piece[1] /\ piece[zero + 2] = piece[2]
          /\ piece[zero + 3] = piece[3] /\ piece[zero + 4] = piece[4]
      BY <3>1, Zenon
    <3>5. (IF order = LittleEndian THEN piece[zero + 1] + 256 * piece[zero + 2]
                                   ELSE 256 * piece[zero + 1] + piece[zero + 2]) = record.size
      BY <3>3, <3>4
    <3>6. <<piece[zero + 3], piece[zero + 4]>> = <<piece[3], piece[4]>>
      BY <3>4
    <3> QED
      BY <3>2, <3>5, <3>6, Zenon
  <2> QED
    BY <2>1, <2>5, <2>6, <2>7
<1>7. ASSUME NEW i \in 1 .. m + 1
      PROVE  from_bytes(full, Start(records, i), order)
               = [rec_len |-> All(records)[i].size, type |-> All(records)[i].type]
  <2>1. CASE i = 1
    BY <1>5, <2>1
  <2>2. CASE i # 1
    <3> PICK j : j = i - 1
      OBVIOUS
    <3>1. j \in 1 .. m /\ j + 1 = i
      BY <1>3, <2>2
    <3>2. from_bytes(full, Start(records, j + 1), order)
               = [rec_len |-> All(records)[j + 1].size, type |-> All(records)[j + 1].type]
      BY <1>6, <3>1
    <3> QED
      BY <3>1, <3>2
  <2> QED
    BY <2>1, <2>2
<1> QED
  BY <1>2, <1>4, <1>7 DEF FullIs

-----------------------------------------------------------------------------
(* A cut, and the records that are whole in it.                            *)

FrameOf(records, i) ==
  Frame(Start(records, i), [rec_len |-> All(records)[i].size, type |-> All(records)[i].type])

\* The first n bytes of the records.
IsCut(data, records, order, n) ==
  /\ data \in Seq(Byte) /\ Len(data) = n /\ n \in Nat /\ 6 <= n
  /\ n <= Start(records, Len(records) + 2)
  /\ \A i \in 1 .. Len(records) + 1 : Start(records, i) + 4 <= n =>
       from_bytes(data, Start(records, i), order) =
         [rec_len |-> All(records)[i].size, type |-> All(records)[i].type]

LEMMA CutIs ==
  ASSUME NEW full, NEW records \in Seq(SizedRecord), NEW order, FullIs(full, records, order),
         NEW n \in 6 .. Len(full)
  PROVE  IsCut(SubSeq(full, 1, n), records, order, n)
<1> PICK data : data = SubSeq(full, 1, n)
  OBVIOUS
<1>1. full \in Seq(Byte) /\ n \in Nat /\ 6 <= n /\ n <= Len(full)
  BY DEF FullIs
<1>2. data \in Seq(Byte) /\ Len(data) = n /\ \A k \in 1 .. n : data[k] = full[k]
  BY <1>1
<1>3. ASSUME NEW i \in 1 .. Len(records) + 1, Start(records, i) + 4 <= n
      PROVE  from_bytes(data, Start(records, i), order) =
               [rec_len |-> All(records)[i].size, type |-> All(records)[i].type]
  <2>p. PICK p : p = Start(records, i)
    OBVIOUS
  <2>1. p \in Nat /\ p + 4 <= n
    BY <1>3, <2>p, StartNext
  <2>2. SameBytes(data, p, full, p)
    <3> SUFFICES \A j \in 1 .. 4 : data[p + j] = full[p + j]
      BY Zenon DEF SameBytes
    <3> TAKE j \in 1 .. 4
    <3>1. p + j \in 1 .. n
      BY <1>1, <2>1
    <3> QED
      BY <1>2, <3>1
  <2>3. from_bytes(data, p, order) = from_bytes(full, p, order)
    BY <2>1, <2>2, SameHeader
  <2> QED
    BY <2>3, <2>p, Zenon DEF FullIs
<1> QED
  BY <1>1, <1>2, <1>3 DEF IsCut, FullIs

\* What the buffer walk finds where a record begins.
LEMMA RawAtRecord ==
  ASSUME NEW records \in Seq(SizedRecord), NEW data, NEW order, NEW n, IsCut(data, records, order, n),
         NEW i \in 1 .. Len(records) + 1
  PROVE  LET next == RawNext(data, Start(records, i), order)
         IN /\ Start(records, i + 1) <= n =>
                 /\ Start(records, i) < n
                 /\ next.item = FrameOf(records, i) /\ next.pos = Start(records, i + 1)
            /\ Start(records, i) < n /\ Start(records, i + 1) > n =>
                 ~Ok(next.item) /\ next.pos = n
<1>p. PICK p, q, size, next : /\ p = Start(records, i) /\ q = Start(records, i + 1)
                              /\ size = All(records)[i].size
                              /\ next = RawNext(data, p, order)
  OBVIOUS
<1>1. p \in Nat /\ size \in Nat /\ q = p + 4 + size
  BY <1>p, StartNext, AllIs
<1>2. data \in Seq(Byte) /\ Len(data) = n /\ n \in Nat
  BY DEF IsCut
<1>3. p + 4 <= n => RecLen(data, p, order) = size /\
        Frame(p, from_bytes(data, p, order)) = FrameOf(records, i)
  <2> SUFFICES ASSUME p + 4 <= n
               PROVE  RecLen(data, p, order) = size /\
                      Frame(p, from_bytes(data, p, order)) = FrameOf(records, i)
    OBVIOUS
  <2>1. from_bytes(data, p, order) =
          [rec_len |-> All(records)[i].size, type |-> All(records)[i].type]
    BY <1>p DEF IsCut
  <2>2. RecLen(data, p, order) = size
    BY <1>p, <2>1 DEF RecLen
  <2> QED
    BY <1>p, <2>1, <2>2 DEF FrameOf
<1>4. ASSUME q <= n
      PROVE  p < n /\ next.item = FrameOf(records, i) /\ next.pos = q
  <2>1. p + 4 <= n /\ p + 4 + size <= n /\ p \in 0 .. n - 1 /\ p < n
    BY <1>1, <1>2, <1>4
  <2>2. next.item = Frame(p, from_bytes(data, p, order)) /\ next.pos = p + 4 + size
    BY <1>p, <1>2, <1>3, <2>1, RawNextIs
  <2> QED
    BY <1>1, <1>3, <2>1, <2>2
<1>5. ASSUME p < n, q > n PROVE ~Ok(next.item) /\ next.pos = n
  <2>1. p \in 0 .. n - 1
    BY <1>1, <1>2, <1>5
  <2>2. CASE p + 4 > n
    <3>1. next.item = Failed("UnexpectedEof", p, 4) /\ next.pos = n
      BY <1>p, <1>2, <2>1, <2>2, RawNextIs
    <3> QED
      BY <3>1, NoFrameEnds
  <2>3. CASE p + 4 <= n
    <3>1. next.item = Failed("UnexpectedEof", p + 4, size) /\ next.pos = n
      BY <1>p, <1>1, <1>2, <1>3, <1>5, <2>1, <2>3, RawNextIs
    <3> QED
      BY <3>1, NoFrameEnds
  <2> QED
    BY <1>1, <1>2, <2>2, <2>3
<1> QED
  BY <1>p, <1>4, <1>5

\* The first w of all records are whole.
Whole(records, n, w) ==
  /\ w \in 1 .. Len(records) + 1 /\ Start(records, w + 1) <= n
  /\ w = Len(records) + 1 \/ Start(records, w + 2) > n
  /\ {i \in DOMAIN All(records) : Start(records, i + 1) <= n} = 1 .. w

LEMMA StartOfTwo ==
  ASSUME NEW records \in Seq(SizedRecord)
  PROVE  Start(records, 2) = 6
<1>1. 1 \in 1 .. Len(records) + 1
  OBVIOUS
<1>2. Start(records, 1 + 1) = Start(records, 1) + 4 + All(records)[1].size
  BY <1>1, StartNext
<1>3. Start(records, 1) = 0 /\ All(records)[1].size = 2
  BY StartNext, AllIs
<1> QED
  BY <1>2, <1>3

LEMMA WholeExists ==
  ASSUME NEW records \in Seq(SizedRecord), NEW n \in Nat, 6 <= n
  PROVE  \E w : Whole(records, n, w)
<1> DEFINE M == Len(records) + 1
           cut == {k \in 1 .. M : k = M \/ Start(records, k + 2) > n}
<1>1. M \in Nat /\ M \in cut /\ cut \in SUBSET Nat
  OBVIOUS
<1>2. PICK w \in cut : \A k \in cut : w <= k
  BY <1>1, LeastNat
<1>3. w \in 1 .. M
  BY <1>2
<1>4. \A k \in 1 .. M + 1 : Start(records, k) \in Nat
  BY <1>1, StartsGrow
<1>5. Start(records, w + 1) <= n
  <2>1. CASE w = 1
    BY <2>1, StartOfTwo
  <2>2. CASE w # 1
    <3> PICK k : k = w - 1
      OBVIOUS
    <3>1. k \in 1 .. M /\ k < w /\ k # M /\ k + 2 = w + 1 /\ k + 2 \in 1 .. M + 1
      BY <1>1, <1>3, <2>2
    <3>2. k \notin cut
      BY <1>2, <3>1
    <3>3. ~(Start(records, k + 2) > n)
      BY <3>1, <3>2
    <3> QED
      BY <1>4, <3>1, <3>3
  <2> QED
    BY <2>1, <2>2
<1>6. w = M \/ Start(records, w + 2) > n
  BY <1>2
<1> HIDE DEF cut
<1>7. ASSUME NEW i \in 1 .. M PROVE Start(records, i + 1) <= n <=> i \in 1 .. w
  <2>p. PICK a, b, c : a = Start(records, i + 1) /\ b = Start(records, w + 1) /\ c = Start(records, w + 2)
    OBVIOUS
  <2>1. a \in Nat /\ b \in Nat
    BY <1>1, <1>3, <1>4, <2>p
  <2>2. CASE i <= w
    <3>1. i + 1 \in 1 .. M + 1 /\ w + 1 \in 1 .. M + 1 /\ i + 1 <= w + 1 /\ 4 * ((w + 1) - (i + 1)) \in Nat
      BY <1>1, <1>3, <2>2
    <3>2. a + 4 * ((w + 1) - (i + 1)) <= b
      BY <2>p, <3>1, StartsGrow
    <3>3. a <= b
      BY <2>1, <3>1, <3>2
    <3> QED
      BY <1>3, <1>5, <2>p, <2>1, <2>2, <3>3
  <2>3. CASE w < i
    <3>1. w + 2 \in 1 .. M + 1 /\ i + 1 \in 1 .. M + 1 /\ w + 2 <= i + 1 /\ 4 * ((i + 1) - (w + 2)) \in Nat /\ w # M
      BY <1>1, <1>3, <2>3
    <3>2. c \in Nat /\ c + 4 * ((i + 1) - (w + 2)) <= a /\ c > n
      <4>1. M + 1 = Len(records) + 2
        OBVIOUS
      <4>2. Start(records, w + 2) + 4 * ((i + 1) - (w + 2)) <= Start(records, i + 1)
        BY <3>1, <4>1, StartsGrow
      <4>3. c \in Nat /\ c > n
        BY <1>4, <1>6, <2>p, <3>1
      <4> QED
        BY <2>p, <4>2, <4>3
    <3>3. a > n
      BY <2>1, <3>1, <3>2
    <3> QED
      BY <1>3, <2>p, <2>1, <2>3, <3>3
  <2> QED
    BY <1>3, <2>2, <2>3
<1>8. DOMAIN All(records) = 1 .. M
  BY AllIs
<1>9. {i \in DOMAIN All(records) : Start(records, i + 1) <= n} = 1 .. w
  <2>1. \A i \in 1 .. w : i \in 1 .. M
    BY <1>1, <1>3
  <2> HIDE DEF M
  <2> QED
    BY <1>7, <1>8, <2>1
<1>10. Whole(records, n, w)
  BY <1>3, <1>5, <1>6, <1>9 DEF Whole
<1> QED
  BY <1>10

LEMMA WithinIs ==
  ASSUME NEW records \in Seq(SizedRecord), NEW n, NEW w, Whole(records, n, w)
  PROVE  Within(records, n) =
           [frames |-> [i \in 1 .. w |-> FrameOf(records, i)], end |-> Start(records, w + 1)]
<1>p. PICK whole : whole = {i \in DOMAIN All(records) : Start(records, i + 1) <= n}
  OBVIOUS
<1>1. whole = 1 .. w /\ w \in Nat
  BY <1>p DEF Whole
<1>2. Cardinality(1 .. w) = w
  <2>1. Cardinality(1 .. w) = IF 1 > w THEN 0 ELSE w - 1 + 1
    BY <1>1, FS_Interval
  <2>2. w >= 1
    BY DEF Whole
  <2> QED
    BY <1>1, <2>1, <2>2
<1>3. Cardinality(whole) = w
  BY <1>1, <1>2
<1>4. Within(records, n) =
        [frames |-> [i \in 1 .. Cardinality(whole) |-> FrameOf(records, i)],
         end |-> Start(records, Cardinality(whole) + 1)]
  BY <1>p, Zenon DEF Within, FrameOf, Start, All
<1> QED
  BY <1>3, <1>4

-----------------------------------------------------------------------------
(* The items of a cut.                                                     *)

\* Whether the cut is within a record, and then what is found instead.
Left(records, n, w) == IF Start(records, w + 1) = n THEN 0 ELSE 1
ItemAt(data, records, order, i) == RawNext(data, Start(records, i), order).item
ItemsTo(data, records, order, L) == [i \in 1 .. L |-> ItemAt(data, records, order, i)]

\* The frames of the whole records, and then an error if anything is left.
ItemsAre(items, records, n, w) ==
  /\ items = [i \in 1 .. w + Left(records, n, w) |-> items[i]]
  /\ \A i \in 1 .. w : items[i] = FrameOf(records, i)
  /\ Left(records, n, w) = 1 => ~Ok(items[w + 1])

LEMMA RawItemsAre ==
  ASSUME NEW records \in Seq(SizedRecord), NEW data, NEW order, NEW n, IsCut(data, records, order, n),
         NEW w, Whole(records, n, w)
  PROVE  ItemsAre(RawItems(data, order), records, n, w)
<1>p. PICK L, raw : L = w + Left(records, n, w) /\ raw = RawFrom(data, order)
  OBVIOUS
<1> DEFINE m == Len(records)
           item(i) == ItemAt(data, records, order, i)
           tail(i) == [t \in 1 .. L - (i - 1) |-> item((i - 1) + t)]
           T == {k \in Nat : \A i \in 1 .. L + 1 : i + k = L + 1 =>
                   raw[IF i = L + 1 THEN n ELSE Start(records, i)] = tail(i)}
<1>1. data \in Seq(Byte) /\ Len(data) = n /\ n \in Nat /\ 6 <= n /\ n <= Start(records, m + 2)
  BY DEF IsCut
<1>2. m \in Nat /\ w \in 1 .. m + 1 /\ L \in Nat /\ Left(records, n, w) \in {0, 1} /\ (L = w \/ L = w + 1)
  BY <1>p DEF Whole, Left
<1>3. RawSteps(raw, data, order) /\ RawItems(data, order) = raw[0]
  BY <1>p, <1>1, RawExists
<1>4. raw[n] = <<>>
  <2>1. n \in 0 .. Len(data)
    BY <1>1
  <2> QED
    BY <1>1, <1>3, <2>1, Zenon DEF RawSteps
<1>5. \A i \in 1 .. m + 2 : Start(records, i) \in Nat
  BY <1>2, StartsGrow
\* Where the items are.
<1>6. ASSUME NEW i \in 1 .. w
      PROVE  /\ Start(records, i) < n /\ Start(records, i + 1) <= n
             /\ RawNext(data, Start(records, i), order).pos = Start(records, i + 1)
             /\ item(i) = FrameOf(records, i)
  <2>1. i \in 1 .. m + 1 /\ i + 1 \in 1 .. m + 2 /\ w + 1 \in 1 .. m + 2 /\ i + 1 <= w + 1
        /\ 4 * ((w + 1) - (i + 1)) \in Nat
    BY <1>2
  <2>p. PICK a, b : a = Start(records, i + 1) /\ b = Start(records, w + 1)
    OBVIOUS
  <2>2. a \in Nat /\ b \in Nat /\ a + 4 * ((w + 1) - (i + 1)) <= b /\ b <= n
    BY <2>p, <2>1, StartsGrow DEF Whole
  <2>3. a <= n
    BY <1>1, <2>1, <2>2
  <2>4. Start(records, i + 1) <= n
    BY <2>p, <2>3
  <2> QED
    BY <2>1, <2>4, RawAtRecord DEF ItemAt
<1>7. ASSUME L = w + 1
      PROVE  /\ w <= m /\ Start(records, L) < n
             /\ RawNext(data, Start(records, L), order).pos = n
             /\ ~Ok(item(L))
  <2>1. Start(records, w + 1) # n /\ Start(records, w + 1) <= n
    BY <1>p, <1>2, <1>7 DEF Whole, Left
  <2>2. w # m + 1
    <3> SUFFICES ASSUME w = m + 1 PROVE FALSE
      OBVIOUS
    <3>1. w + 1 = m + 2 /\ w + 1 \in 1 .. m + 2
      BY <1>2
    <3>2. Start(records, w + 1) \in Nat
      BY <1>5, <3>1
    <3>3. n <= Start(records, w + 1)
      BY <1>1, <3>1
    <3> QED
      BY <1>1, <2>1, <3>2, <3>3
  <2>3. L \in 1 .. m + 1 /\ w <= m /\ w + 2 = L + 1 /\ L \in 1 .. m + 2
    BY <1>2, <1>7, <2>2
  <2>4. Start(records, L + 1) > n
    BY <2>2, <2>3 DEF Whole
  <2>5. Start(records, L) < n
    <3>1. Start(records, L) \in Nat
      BY <1>5, <2>3
    <3> QED
      BY <1>1, <1>7, <2>1, <3>1
  <2> QED
    BY <2>3, <2>4, <2>5, RawAtRecord DEF ItemAt
<1>8. ASSUME NEW i \in 1 .. L
      PROVE  raw[Start(records, i)] = <<item(i)>> \o raw[IF i + 1 = L + 1 THEN n ELSE Start(records, i + 1)]
  <2>p. PICK pos : pos = Start(records, i)
    OBVIOUS
  <2>1. pos \in Nat /\ pos < n /\ RawNext(data, pos, order).pos = IF i + 1 = L + 1 THEN n ELSE Start(records, i + 1)
    <3>1. CASE i \in 1 .. w
      <4>0. i \in 1 .. m + 2
        BY <1>2, <3>1
      <4>1. pos \in Nat /\ pos < n /\ RawNext(data, pos, order).pos = Start(records, i + 1)
        BY <1>5, <1>6, <2>p, <3>1, <4>0
      <4>2. i + 1 = L + 1 => Start(records, i + 1) = n
        <5> SUFFICES ASSUME i + 1 = L + 1 PROVE Start(records, i + 1) = n
          OBVIOUS
        <5>1. i = L /\ L = w
          BY <1>2, <3>1
        <5>2. Left(records, n, w) = 0
          BY <1>p, <1>2, <5>1
        <5> QED
          BY <5>1, <5>2 DEF Left
      <4> QED
        BY <4>1, <4>2
    <3>2. CASE i \notin 1 .. w
      <4>1. L = w + 1 /\ i = L
        BY <1>2, <3>2
      <4>2. L \in 1 .. m + 2
        BY <1>2, <1>7, <4>1
      <4>3. Start(records, L) \in Nat
        BY <1>5, <4>2
      <4> QED
        BY <1>7, <2>p, <4>1, <4>3
    <3> QED
      BY <3>1, <3>2
  <2>2. pos \in 0 .. Len(data) /\ pos # Len(data)
    BY <1>1, <2>1
  <2>3. raw[pos] = <<RawNext(data, pos, order).item>> \o raw[RawNext(data, pos, order).pos]
    BY <1>3, <2>2, Zenon DEF RawSteps
  <2> QED
    BY <2>p, <2>1, <2>3 DEF ItemAt
<1> HIDE DEF m, item
<1>9. 0 \in T
  <2> SUFFICES ASSUME NEW i \in 1 .. L + 1, i + 0 = L + 1
               PROVE raw[IF i = L + 1 THEN n ELSE Start(records, i)] = tail(i)
    OBVIOUS
  <2>1. i = L + 1 /\ L - (i - 1) = 0
    BY <1>2
  <2>2. tail(i) = <<>>
    BY <2>1
  <2> HIDE DEF tail
  <2> QED
    BY <1>4, <2>1, <2>2
<1>10. ASSUME NEW k \in T PROVE k + 1 \in T
  <2>0. k + 1 \in Nat
    OBVIOUS
  <2> SUFFICES ASSUME NEW i \in 1 .. L + 1, i + (k + 1) = L + 1
               PROVE  raw[IF i = L + 1 THEN n ELSE Start(records, i)] = tail(i)
    BY <2>0
  <2>1. k \in Nat /\ i \in 1 .. L /\ i # L + 1 /\ i + 1 \in 1 .. L + 1 /\ (i + 1) + k = L + 1
    BY <1>2
  <2>2. raw[IF i + 1 = L + 1 THEN n ELSE Start(records, i + 1)] = tail(i + 1)
    BY <1>10, <2>1
  <2>3. raw[Start(records, i)] = <<item(i)>> \o raw[IF i + 1 = L + 1 THEN n ELSE Start(records, i + 1)]
    BY <1>8, <2>1
  <2>4. <<item(i)>> \o tail(i + 1) = tail(i)
    <3> DEFINE X == {item(t) : t \in 1 .. L}
    <3>1. \A t \in 1 .. L : item(t) \in X
      OBVIOUS
    <3> HIDE DEF X
    <3>p. PICK a, r, l : a = <<item(i)>> /\ r = tail(i + 1) /\ l = L - i
      OBVIOUS
    <3>2. a \in Seq(X) /\ Len(a) = 1 /\ a[1] = item(i)
      BY <2>1, <3>1, <3>p
    <3>3. l \in Nat /\ L - ((i + 1) - 1) = l /\ L - (i - 1) = l + 1
      BY <1>2, <2>1, <3>p
    <3>4. r \in Seq(X) /\ Len(r) = l /\ \A t \in 1 .. l : r[t] = item(i + t)
      <4>1. \A t \in 1 .. l : ((i + 1) - 1) + t = i + t /\ i + t \in 1 .. L
        BY <1>2, <2>1, <3>3
      <4>2. r = [t \in 1 .. l |-> item(i + t)]
        BY <3>p, <3>3, <4>1
      <4>3. \A t \in 1 .. l : item(i + t) \in X
        BY <3>1, <4>1
      <4> QED
        BY <3>3, <4>2, <4>3
    <3>5. a \o r \in Seq(X) /\ Joins(a \o r, a, r)
      BY <3>2, <3>4, ConcatIs, Zenon
    <3>6. tail(i) \in Seq(X) /\ Len(tail(i)) = l + 1 /\ \A t \in 1 .. l + 1 : tail(i)[t] = item((i - 1) + t)
      <4>1. \A t \in 1 .. l + 1 : (i - 1) + t \in 1 .. L
        BY <1>2, <2>1, <3>3
      <4>2. \A t \in 1 .. l + 1 : item((i - 1) + t) \in X
        BY <3>1, <4>1
      <4>3. l + 1 \in Nat /\ tail(i) = [t \in 1 .. l + 1 |-> item((i - 1) + t)]
        BY <3>3
      <4> HIDE DEF tail
      <4> QED
        BY <4>2, <4>3
    <3>7. ASSUME NEW t \in 1 .. l + 1 PROVE (a \o r)[t] = tail(i)[t]
      <4>p. PICK h : h = a \o r
        OBVIOUS
      <4>0. Len(h) = 1 + l /\ (\A u \in 1 .. 1 : h[u] = a[u]) /\ \A u \in 1 .. l : h[1 + u] = r[u]
        BY <3>2, <3>4, <3>5, <4>p DEF Joins
      <4>1. CASE t = 1
        <5>1. 1 \in 1 .. 1 /\ (i - 1) + 1 = i
          BY <2>1
        <5>2. h[1] = a[1]
          BY <4>0, <5>1, Zenon
        <5>3. tail(i)[1] = item(i)
          BY <3>6, <4>1, <5>1, Zenon
        <5> QED
          BY <3>2, <4>p, <4>1, <5>2, <5>3
      <4>2. CASE t # 1
        <5>p. PICK u : u = t - 1
          OBVIOUS
        <5>1. u \in 1 .. l /\ t = 1 + u /\ (i - 1) + t = i + u
          BY <2>1, <3>3, <4>2, <5>p
        <5>2. h[1 + u] = r[u] /\ r[u] = item(i + u)
          BY <3>4, <4>0, <5>1, Zenon
        <5>3. tail(i)[t] = item(i + u)
          BY <3>6, <5>1, Zenon
        <5> QED
          BY <4>p, <5>1, <5>2, <5>3
      <4> QED
        BY <4>1, <4>2
    <3>8. Len(a \o r) = l + 1 /\ l + 1 \in Nat
      BY <3>2, <3>3, <3>4, <3>5 DEF Joins
    <3>9. a \o r = tail(i)
      <4>p. PICK f, g : f = a \o r /\ g = tail(i)
        OBVIOUS
      <4>1. f \in Seq(X) /\ g \in Seq(X) /\ Len(f) = Len(g) /\ Len(g) = l + 1
        BY <3>5, <3>6, <3>8, <4>p
      <4>2. \A q \in 1 .. Len(g) : g[q] = f[q]
        BY <3>7, <4>1, <4>p
      <4>3. g = f
        BY <4>1, <4>2, SameElements
      <4> QED
        BY <4>3, <4>p
    <3> QED
      BY <3>p, <3>9
  <2> QED
    BY <2>1, <2>2, <2>3, <2>4
<1>11. T \in SUBSET Nat
  OBVIOUS
<1> HIDE DEF T
<1>12. L \in T
  <2>1. T = Nat
    BY <1>9, <1>10, <1>11, NatSetInduction
  <2> QED
    BY <1>2, <2>1
<1>13. raw[0] = tail(1)
  <2>1. 1 \in 1 .. L + 1 /\ 1 + L = L + 1 /\ 1 # L + 1
    BY <1>2
  <2>2. raw[IF 1 = L + 1 THEN n ELSE Start(records, 1)] = tail(1)
    BY <1>12, <2>1 DEF T
  <2>3. Start(records, 1) = 0
    BY StartNext
  <2> HIDE DEF tail
  <2> QED
    BY <2>1, <2>2, <2>3
<1>14. tail(1) = [i \in 1 .. L |-> item(i)]
  <2>1. L - (1 - 1) = L
    BY <1>2
  <2>2. \A t \in 1 .. L : (1 - 1) + t = t
    BY <1>2
  <2> QED
    BY <2>1, <2>2
<1>p2. PICK items : items = RawItems(data, order)
  OBVIOUS
<1>15. items = [i \in 1 .. L |-> item(i)]
  BY <1>3, <1>13, <1>14, <1>p2
<1>16. items = [i \in 1 .. L |-> items[i]] /\ \A i \in 1 .. w : items[i] = FrameOf(records, i)
  <2>1. \A i \in 1 .. w : i \in 1 .. L
    BY <1>2
  <2> QED
    BY <1>6, <1>15, <2>1
<1>17. Left(records, n, w) = 1 => ~Ok(items[w + 1])
  <2> SUFFICES ASSUME Left(records, n, w) = 1 PROVE ~Ok(items[w + 1])
    OBVIOUS
  <2>1. L = w + 1 /\ w + 1 \in 1 .. L
    BY <1>p, <1>2
  <2> QED
    BY <1>7, <1>15, <2>1
<1> QED
  BY <1>p, <1>p2, <1>16, <1>17 DEF ItemsAre

\* One element of each of the first w and none of the others, and the other way round.
LEMMA FlattenFirst ==
  ASSUME NEW X, NEW s \in Seq(Seq(X)), NEW w \in 0 .. Len(s), NEW f \in Seq(X), Len(f) = w,
         \A i \in 1 .. w : s[i] = <<f[i]>>, \A i \in w + 1 .. Len(s) : s[i] = <<>>
  PROVE  FlattenSeq(s) = f
<1> DEFINE T == {k \in Nat : k <= Len(s) => Total(s, k) = Least(k, w)}
<1>1. w \in Nat /\ Len(s) \in Nat /\ w <= Len(s)
  OBVIOUS
<1>2. 0 \in T
  <2>1. Total(s, 0) = 0
    BY TotalNext
  <2> QED
    BY <1>1, <2>1 DEF Least
<1>3. ASSUME NEW k \in T PROVE k + 1 \in T
  <2>0. k \in Nat /\ k + 1 \in Nat
    OBVIOUS
  <2> SUFFICES ASSUME k + 1 <= Len(s) PROVE Total(s, k + 1) = Least(k + 1, w)
    BY <2>0
  <2>1. k \in 0 .. Len(s) - 1 /\ k + 1 \in 1 .. Len(s) /\ k <= Len(s)
    BY <1>1, <2>0
  <2>2. Total(s, k + 1) = Total(s, k) + Len(s[k + 1]) /\ Total(s, k) = Least(k, w)
    BY <1>3, <2>1, TotalNext
  <2>3. Len(s[k + 1]) = IF k + 1 <= w THEN 1 ELSE 0
    <3>1. CASE k + 1 <= w
      <4>1. k + 1 \in 1 .. w
        BY <1>1, <2>0, <3>1
      <4>2. s[k + 1] = <<f[k + 1]>>
        BY <4>1
      <4>3. Len(<<f[k + 1]>>) = 1
        OBVIOUS
      <4> QED
        BY <3>1, <4>2, <4>3
    <3>2. CASE ~(k + 1 <= w)
      <4>1. k + 1 \in w + 1 .. Len(s)
        BY <1>1, <2>1, <3>2
      <4> QED
        BY <3>2, <4>1
    <3> QED
      BY <3>1, <3>2
  <2> QED
    BY <1>1, <2>0, <2>2, <2>3, SMTT(30) DEF Least
<1>4. T \in SUBSET Nat
  OBVIOUS
<1> HIDE DEF T
<1>5. T = Nat
  BY <1>2, <1>3, <1>4, NatSetInduction
<1>6. \A k \in 0 .. Len(s) : Total(s, k) = Least(k, w)
  BY <1>1, <1>5 DEF T
<1>p. PICK g : g = FlattenSeq(s)
  OBVIOUS
<1>7. g \in Seq(X) /\ Holds(s, g, Len(s))
  BY <1>p, FlattenAt
<1>8. Len(g) = w
  <2>1. Len(g) = Total(s, Len(s)) /\ Len(s) \in 0 .. Len(s)
    BY <1>1, <1>7 DEF Holds
  <2> QED
    BY <1>1, <1>6, <2>1 DEF Least
<1>9. ASSUME NEW q \in 1 .. w PROVE g[q] = f[q]
  <2>1. q \in 1 .. Len(s) /\ q - 1 \in 0 .. Len(s) /\ q - 1 <= w
    BY <1>1
  <2>2. Total(s, q - 1) = q - 1
    BY <1>1, <1>6, <2>1 DEF Least
  <2>3. s[q] = <<f[q]>> /\ Len(<<f[q]>>) = 1
    OBVIOUS
  <2>4. 1 \in 1 .. Len(s[q])
    BY <2>3
  <2>5. g[Total(s, q - 1) + 1] = s[q][1]
    BY <1>7, <2>1, <2>4, Zenon DEF Holds
  <2>6. (q - 1) + 1 = q /\ s[q][1] = f[q]
    BY <1>1, <2>3
  <2> QED
    BY <2>2, <2>5, <2>6
<1>10. f = g
  BY <1>7, <1>8, <1>9, SameElements
<1> QED
  BY <1>10, <1>p

LEMMA FlattenLast ==
  ASSUME NEW X, NEW s \in Seq(Seq(X)), NEW w \in 0 .. Len(s), Len(s) <= w + 1,
         \A i \in 1 .. w : s[i] = <<>>
  PROVE  FlattenSeq(s) = IF Len(s) = w THEN <<>> ELSE s[w + 1]
<1> DEFINE T == {k \in Nat : k <= w => Total(s, k) = 0}
<1>1. w \in Nat /\ Len(s) \in Nat /\ w <= Len(s)
  OBVIOUS
<1>2. 0 \in T
  BY TotalNext
<1>3. ASSUME NEW k \in T PROVE k + 1 \in T
  <2>0. k \in Nat /\ k + 1 \in Nat
    OBVIOUS
  <2> SUFFICES ASSUME k + 1 <= w PROVE Total(s, k + 1) = 0
    BY <2>0
  <2>1. k \in 0 .. Len(s) - 1 /\ k + 1 \in 1 .. w /\ k <= w
    BY <1>1, <2>0
  <2>2. Total(s, k + 1) = Total(s, k) + Len(s[k + 1]) /\ Total(s, k) = 0
    BY <1>3, <2>1, TotalNext
  <2>3. Len(s[k + 1]) = 0
    <3>1. s[k + 1] = <<>>
      BY <2>1
    <3> QED
      BY <3>1
  <2> QED
    BY <2>2, <2>3
<1>4. T \in SUBSET Nat
  OBVIOUS
<1> HIDE DEF T
<1>5. T = Nat
  BY <1>2, <1>3, <1>4, NatSetInduction
<1>6. Total(s, w) = 0
  BY <1>1, <1>5 DEF T
<1>p. PICK g : g = FlattenSeq(s)
  OBVIOUS
<1>7. g \in Seq(X) /\ Holds(s, g, Len(s))
  BY <1>p, FlattenAt
<1>8. CASE Len(s) = w
  <2>1. Len(g) = 0
    BY <1>6, <1>7, <1>8 DEF Holds
  <2>2. g = <<>>
    BY <1>7, <2>1
  <2> QED
    BY <1>8, <1>p, <2>2
<1>9. CASE Len(s) # w
  <2>1. Len(s) = w + 1 /\ w + 1 \in 1 .. Len(s) /\ w \in 0 .. Len(s) - 1 /\ (w + 1) - 1 = w
    BY <1>1, <1>9
  <2>p. PICK e : e = s[w + 1]
    OBVIOUS
  <2>2. e \in Seq(X) /\ Total(s, w + 1) = Total(s, w) + Len(e) /\ Len(e) \in Nat
    BY <2>p, <2>1, TotalNext, SMTT(30)
  <2>3. Len(g) = Len(e)
    BY <1>6, <1>7, <2>1, <2>2 DEF Holds
  <2>4. ASSUME NEW q \in 1 .. Len(e) PROVE g[q] = e[q]
    <3>1. g[Total(s, (w + 1) - 1) + q] = s[w + 1][q]
      BY <1>7, <2>p, <2>1, Zenon DEF Holds
    <3>2. 0 + q = q
      BY <2>2
    <3> QED
      BY <1>6, <2>p, <2>1, <3>1, <3>2
  <2>5. e = g
    BY <1>7, <2>2, <2>3, <2>4, SameElements
  <2> QED
    BY <1>9, <1>p, <2>p, <2>5
<1> QED
  BY <1>8, <1>9

IfChosen(items, ok, i) == IF Ok(items[i]) = ok THEN <<items[i]>> ELSE <<>>

FramesChosen(items, records, n, w) ==
  /\ Frames(items) = [i \in 1 .. w |-> FrameOf(records, i)]
  /\ Chosen(items, FALSE) = IF Left(records, n, w) = 0 THEN <<>> ELSE <<items[w + 1]>>

LEMMA FramesAre ==
  ASSUME NEW items, NEW records \in Seq(SizedRecord), NEW n, NEW w, Whole(records, n, w),
         ItemsAre(items, records, n, w)
  PROVE  /\ items \in Seq({items[i] : i \in DOMAIN items}) /\ Len(items) = w + Left(records, n, w)
         /\ DOMAIN items = 1 .. Len(items)
         /\ FramesChosen(items, records, n, w)
<1>p. PICK L, X : L = w + Left(records, n, w) /\ X = {items[i] : i \in DOMAIN items}
  OBVIOUS
<1>1. w \in Nat /\ L \in Nat /\ Left(records, n, w) \in {0, 1} /\ (Left(records, n, w) = 0 <=> L = w)
      /\ (Left(records, n, w) = 1 <=> L = w + 1)
  BY <1>p DEF Whole, Left
<1>2. items = [i \in 1 .. L |-> items[i]]
  BY <1>p DEF ItemsAre
<1>3. DOMAIN items = 1 .. L
  BY <1>2
<1>4. \A i \in 1 .. L : items[i] \in X
  BY <1>3, <1>p
<1>5. items \in Seq(X) /\ Len(items) = L
  <2>1. items \in [1 .. L -> X]
    BY <1>2, <1>4
  <2> QED
    BY <1>1, <2>1, FunctionIsSeq
<1>6. \A i \in 1 .. w : items[i] = FrameOf(records, i) /\ Ok(items[i]) = TRUE /\ Ok(items[i]) # FALSE
  <2>1. \A i \in 1 .. w : items[i] = FrameOf(records, i)
    BY DEF ItemsAre
  <2>2. \A i \in 1 .. w : Ok(FrameOf(records, i))
    BY NoFrameEnds DEF FrameOf
  <2>3. \A i \in 1 .. w : Ok(FrameOf(records, i)) \in BOOLEAN
    BY DEF Ok
  <2> QED
    BY <2>1, <2>2, <2>3
<1>7. L = w + 1 => Ok(items[w + 1]) = FALSE /\ Ok(items[w + 1]) # TRUE
  BY <1>1 DEF ItemsAre, Ok
<1>8. ASSUME NEW ok
      PROVE  /\ [i \in 1 .. L |-> IfChosen(items, ok, i)] \in Seq(Seq(X))
             /\ Len([i \in 1 .. L |-> IfChosen(items, ok, i)]) = L
             /\ Chosen(items, ok) = FlattenSeq([i \in 1 .. L |-> IfChosen(items, ok, i)])
  <2>1. \A i \in 1 .. L : IfChosen(items, ok, i) \in Seq(X)
    BY <1>4 DEF IfChosen
  <2>2. [i \in 1 .. L |-> IfChosen(items, ok, i)] \in [1 .. L -> Seq(X)]
    BY <2>1
  <2>3. Chosen(items, ok) = FlattenSeq([i \in DOMAIN items |-> IfChosen(items, ok, i)])
    BY Zenon DEF Chosen, IfChosen
  <2> QED
    BY <1>1, <1>3, <2>2, <2>3, FunctionIsSeq
<1>9. Frames(items) = [i \in 1 .. w |-> FrameOf(records, i)]
  <2>p. PICK s, f : s = [i \in 1 .. L |-> IfChosen(items, TRUE, i)] /\ f = [i \in 1 .. w |-> FrameOf(records, i)]
    OBVIOUS
  <2>1. s \in Seq(Seq(X)) /\ Len(s) = L
    BY <1>8, <2>p
  <2>2. \A i \in 1 .. w : i \in 1 .. L
    BY <1>1
  <2>3. f \in Seq(X) /\ Len(f) = w
    <3>1. \A i \in 1 .. w : FrameOf(records, i) \in X
      BY <1>4, <1>6, <2>2
    <3>2. f \in [1 .. w -> X]
      BY <2>p, <3>1
    <3> QED
      BY <1>1, <3>2, FunctionIsSeq
  <2>4. \A i \in 1 .. w : s[i] = <<f[i]>>
    <3> TAKE i \in 1 .. w
    <3>1. s[i] = IfChosen(items, TRUE, i) /\ f[i] = items[i]
      BY <1>6, <2>2, <2>p
    <3> QED
      BY <1>6, <3>1 DEF IfChosen
  <2>5. \A i \in w + 1 .. Len(s) : s[i] = <<>>
    <3> TAKE i \in w + 1 .. Len(s)
    <3>1. i = w + 1 /\ L = w + 1 /\ i \in 1 .. L
      BY <1>1, <2>1
    <3>2. s[i] = IfChosen(items, TRUE, i)
      BY <2>p, <3>1
    <3>3. Ok(items[i]) # TRUE
      BY <1>7, <3>1
    <3> QED
      BY <3>2, <3>3 DEF IfChosen
  <2>6. w \in 0 .. Len(s)
    BY <1>1, <2>1
  <2>7. FlattenSeq(s) = f
    BY <2>1, <2>3, <2>4, <2>5, <2>6, FlattenFirst
  <2>8. Frames(items) = FlattenSeq(s)
    BY <1>8, <2>p DEF Frames
  <2> QED
    BY <2>7, <2>8, <2>p
<1>10. Chosen(items, FALSE) = IF Left(records, n, w) = 0 THEN <<>> ELSE <<items[w + 1]>>
  <2>p. PICK s : s = [i \in 1 .. L |-> IfChosen(items, FALSE, i)]
    OBVIOUS
  <2>1. s \in Seq(Seq(X)) /\ Len(s) = L /\ w \in 0 .. Len(s) /\ Len(s) <= w + 1
    <3>1. s \in Seq(Seq(X)) /\ Len(s) = L
      BY <1>8, <2>p
    <3> QED
      BY <1>1, <3>1
  <2>2. \A i \in 1 .. w : s[i] = <<>>
    <3> TAKE i \in 1 .. w
    <3>1. i \in 1 .. L
      BY <1>1
    <3>2. s[i] = IfChosen(items, FALSE, i)
      BY <2>p, <3>1
    <3> QED
      BY <1>6, <3>2 DEF IfChosen
  <2>3. FlattenSeq(s) = IF Len(s) = w THEN <<>> ELSE s[w + 1]
    BY <2>1, <2>2, FlattenLast
  <2>4. L = w + 1 => s[w + 1] = <<items[w + 1]>>
    <3> SUFFICES ASSUME L = w + 1 PROVE s[w + 1] = <<items[w + 1]>>
      OBVIOUS
    <3>1. w + 1 \in 1 .. L
      BY <1>1
    <3>2. s[w + 1] = IfChosen(items, FALSE, w + 1)
      BY <2>p, <3>1
    <3> QED
      BY <1>7, <3>2 DEF IfChosen
  <2>5. Chosen(items, FALSE) = FlattenSeq(s)
    BY <1>8, <2>p
  <2> QED
    BY <1>1, <2>1, <2>3, <2>4, <2>5
<1> QED
  BY <1>3, <1>5, <1>9, <1>10, <1>p DEF FramesChosen

-----------------------------------------------------------------------------
(* The summary.                                                            *)

Summary(o, t, c, b, u, e) ==
  [order |-> o, total_records |-> t, record_counts |-> c, bytes_consumed |-> b,
   truncated |-> u, errors |-> e]
CountOne(c, type) ==
  [t \in DOMAIN c \cup {type} |->
     IF t = type THEN (IF type \in DOMAIN c THEN c[type] ELSE 0) + 1 ELSE c[t]]

SummedAs(next, o, t, c, b, u, e, item) ==
  /\ ~Ok(item) => next = Summary(o, t, c, b, TRUE, Append(e, item))
  /\ Ok(item) =>
       next = Summary(o, t + 1, CountOne(c, item.header.type), item.offset + 4 + item.header.rec_len, u, e)

LEMMA SummedIs ==
  ASSUME NEW o, NEW t, NEW c, NEW b, NEW u, NEW e, NEW item, NEW s, s = Summary(o, t, c, b, u, e)
  PROVE  SummedAs(Summed(s, item), o, t, c, b, u, e, item)
<1>p. s = Summary(o, t, c, b, u, e)
  OBVIOUS
<1>1. /\ s.order = o /\ s.total_records = t /\ s.record_counts = c /\ s.bytes_consumed = b
      /\ s.truncated = u /\ s.errors = e
  BY <1>p DEF Summary
<1>2. ASSUME NEW x, NEW y
      PROVE  [s EXCEPT !.truncated = x, !.errors = y] = Summary(o, t, c, b, x, y)
  <2> DEFINE f == [s EXCEPT !.truncated = x]
             g == [f EXCEPT !.errors = y]
  <2>1. f = Summary(o, t, c, b, x, e)
    BY <1>p DEF Summary
  <2> HIDE DEF f
  <2>2. g = Summary(o, t, c, b, x, y)
    BY <2>1 DEF Summary
  <2> QED
    BY <2>2 DEF f
<1>3. ASSUME NEW x, NEW y, NEW z
      PROVE  [s EXCEPT !.total_records = x, !.record_counts = y, !.bytes_consumed = z] =
                Summary(o, x, y, z, u, e)
  <2> DEFINE f == [s EXCEPT !.total_records = x]
             g == [f EXCEPT !.record_counts = y]
             h == [g EXCEPT !.bytes_consumed = z]
  <2>1. f = Summary(o, x, c, b, u, e)
    BY <1>p DEF Summary
  <2> HIDE DEF f
  <2>2. g = Summary(o, x, y, b, u, e)
    BY <2>1 DEF Summary
  <2> HIDE DEF g
  <2>3. h = Summary(o, x, y, z, u, e)
    BY <2>2 DEF Summary
  <2> QED
    BY <2>3 DEF f, g
<1>4. CASE ~Ok(item)
  <2>1. Summed(s, item) = [s EXCEPT !.truncated = TRUE, !.errors = Append(s.errors, item)]
    BY <1>4, Zenon DEF Summed
  <2>2. [s EXCEPT !.truncated = TRUE, !.errors = Append(s.errors, item)]
          = Summary(o, t, c, b, TRUE, Append(s.errors, item))
    BY <1>2
  <2> QED
    <3>1. Summed(s, item) = Summary(o, t, c, b, TRUE, Append(e, item))
      BY <1>p, <1>1, <1>4, <2>1, <2>2
    <3> QED
      BY <1>4, <3>1, Zenon DEF SummedAs
<1>5. CASE Ok(item)
  <2>p. PICK type, at : type = item.header.type /\ at = item.offset + 4 + item.header.rec_len
    OBVIOUS
  <2>1. Summed(s, item) =
          [s EXCEPT !.total_records = s.total_records + 1,
                    !.record_counts = CountOne(s.record_counts, type), !.bytes_consumed = at]
    BY <1>5, <2>p, Zenon DEF Summed, CountOne
  <2>2. [s EXCEPT !.total_records = s.total_records + 1,
                    !.record_counts = CountOne(s.record_counts, type), !.bytes_consumed = at]
          = Summary(o, s.total_records + 1, CountOne(s.record_counts, type), at, u, e)
    BY <1>3
  <2> QED
    <3>1. Summed(s, item) = Summary(o, t + 1, CountOne(c, type), at, u, e)
      BY <1>p, <1>1, <1>5, <2>p, <2>1, <2>2
    <3> QED
      BY <1>5, <2>p, <3>1, Zenon DEF SummedAs
<1> QED
  BY <1>4, <1>5, Zenon DEF SummedAs

TypeOf(records, i) == All(records)[i].type
TypesTo(records, k) == {TypeOf(records, i) : i \in 1 .. k}
OfType(records, k, t) == {i \in 1 .. k : TypeOf(records, i) = t}
Counts(records, k) == [t \in TypesTo(records, k) |-> Cardinality(OfType(records, k, t))]

LEMMA CountsNext ==
  ASSUME NEW records, NEW k \in Nat
  PROVE  Counts(records, k + 1) = CountOne(Counts(records, k), TypeOf(records, k + 1))
<1>p. PICK type, c, next : /\ type = TypeOf(records, k + 1) /\ c = Counts(records, k)
                           /\ next = k + 1
  OBVIOUS
<1>1. next \in Nat /\ \A i : i \in 1 .. next <=> i \in 1 .. k \/ i = next
  BY <1>p
<1>2. TypesTo(records, next) = TypesTo(records, k) \cup {type}
  BY <1>p, <1>1 DEF TypesTo
<1>3. DOMAIN c = TypesTo(records, k)
  BY <1>p DEF Counts
<1>4. \A t : t # type => OfType(records, next, t) = OfType(records, k, t)
  BY <1>p, <1>1 DEF OfType
<1>5. OfType(records, next, type) = OfType(records, k, type) \cup {next} /\ next \notin OfType(records, k, type)
  <2>1. next \notin 1 .. k
    BY <1>p
  <2> QED
    BY <1>p, <1>1, <2>1 DEF OfType
<1>6. \A t : IsFiniteSet(OfType(records, k, t))
  <2> TAKE t
  <2>1. IsFiniteSet(1 .. k) /\ OfType(records, k, t) \subseteq 1 .. k
    BY PrefixFinite DEF OfType
  <2> QED
    BY <2>1, FS_Subset
<1>7. Cardinality(OfType(records, next, type)) = Cardinality(OfType(records, k, type)) + 1
  BY <1>5, <1>6, FS_AddElement
<1>8. type \notin TypesTo(records, k) => Cardinality(OfType(records, k, type)) = 0
  <2> SUFFICES ASSUME type \notin TypesTo(records, k) PROVE Cardinality(OfType(records, k, type)) = 0
    OBVIOUS
  <2>1. OfType(records, k, type) = {}
    BY DEF OfType, TypesTo
  <2> QED
    BY <2>1, FS_EmptySet
<1>9. \A t \in TypesTo(records, k) : c[t] = Cardinality(OfType(records, k, t))
  BY <1>p DEF Counts
<1>10. ASSUME NEW t \in TypesTo(records, next)
       PROVE  Cardinality(OfType(records, next, t)) =
                IF t = type THEN (IF type \in DOMAIN c THEN c[type] ELSE 0) + 1 ELSE c[t]
  <2>1. CASE t = type
    <3>1. (IF type \in DOMAIN c THEN c[type] ELSE 0) = Cardinality(OfType(records, k, type))
      BY <1>3, <1>8, <1>9
    <3> QED
      BY <1>7, <2>1, <3>1
  <2>2. CASE t # type
    <3>1. t \in TypesTo(records, k)
      BY <1>2, <2>2
    <3> QED
      BY <1>4, <1>9, <2>2, <3>1
  <2> QED
    BY <2>1, <2>2
<1>11. Counts(records, next) = CountOne(c, type)
  <2>1. Counts(records, next) = [t \in TypesTo(records, next) |-> Cardinality(OfType(records, next, t))]
    BY DEF Counts
  <2>2. TypesTo(records, next) = DOMAIN c \cup {type}
    BY <1>2, <1>3
  <2> HIDE DEF Counts
  <2> QED
    BY <1>10, <2>1, <2>2 DEF CountOne
<1> QED
  BY <1>11, <1>p

LEMMA CountsBegin ==
  ASSUME NEW records
  PROVE  Counts(records, 0) = <<>>
<1>1. TypesTo(records, 0) = {}
  BY DEF TypesTo
<1>2. Counts(records, 0) = [t \in {} |-> Cardinality(OfType(records, 0, t))]
  BY <1>1 DEF Counts
<1>3. DOMAIN <<>> = {} /\ <<>> = [t \in DOMAIN <<>> |-> <<>>[t]]
  OBVIOUS
<1> QED
  BY <1>2, <1>3

LEMMA CountsAddUp ==
  ASSUME NEW records, NEW k \in Nat
  PROVE  SumFunction(Counts(records, k)) = k
<1>p. PICK c, types : c = Counts(records, k) /\ types = TypesTo(records, k)
  OBVIOUS
<1> DEFINE f == [t \in types |-> OfType(records, k, t)]
<1>1. IsFiniteSet(1 .. k)
  BY PrefixFinite
<1>2. IsFiniteSet(types)
  <2>p. PICK g : g = [i \in 1 .. k |-> TypeOf(records, i)]
    OBVIOUS
  <2>1. types = {g[i] : i \in 1 .. k}
    BY <1>p, <2>p DEF TypesTo
  <2> QED
    BY <1>1, <2>1, ImageFinite
<1>3. DOMAIN c = types
  BY <1>p DEF Counts
<1>4. Disjoint(f, types)
  BY DEF Disjoint, OfType
<1>5. \A t \in types : IsFiniteSet(f[t]) /\ c[t] = Cardinality(f[t])
  <2> TAKE t \in types
  <2>1. f[t] = OfType(records, k, t) /\ OfType(records, k, t) \subseteq 1 .. k
    BY DEF OfType
  <2>2. c[t] = Cardinality(OfType(records, k, t))
    BY <1>p DEF Counts
  <2>3. IsFiniteSet(OfType(records, k, t))
    BY <1>1, <2>1, FS_Subset
  <2> QED
    BY <2>1, <2>2, <2>3
<1>6. \A i : i \in 1 .. k <=> \E t \in types : i \in f[t]
  BY <1>p DEF OfType, TypesTo
<1> HIDE DEF f
<1>p2. PICK K : K = 1 .. k
  OBVIOUS
<1>7. Cardinality(K) = SumFunctionOnSet(c, types)
  <2>1. \A i : i \in K <=> \E t \in types : i \in f[t]
    BY <1>6, <1>p2
  <2> QED
    BY <1>2, <1>4, <1>5, <2>1, SumOfSizes, Zenon
<1>8. Cardinality(K) = k
  <2>1. Cardinality(1 .. k) = IF 1 > k THEN 0 ELSE k - 1 + 1
    BY FS_Interval
  <2> QED
    BY <1>p2, <2>1
<1>9. SumFunction(c) = SumFunctionOnSet(c, DOMAIN c)
  BY Zenon DEF SumFunction
<1> QED
  BY <1>p, <1>3, <1>7, <1>8, <1>9

Summaries(order, items) ==
  CHOOSE f : f = [s \in SUBSET DOMAIN items |->
                    IF s = {} THEN Empty(order)
                    ELSE Summed(f[s \ {Max(s)}], items[Max(s)])]

LEMMA SummedFold ==
  ASSUME NEW order, NEW items
  PROVE  FoldLeft(Summed, Empty(order), items) = Summaries(order, items)[DOMAIN items]
  BY Zenon DEF FoldLeft, MapThenFoldSet, Max, Summaries, Max

LEMMA EmptyIs ==
  ASSUME NEW order
  PROVE  Empty(order) = Summary(order, 0, <<>>, 0, FALSE, <<>>)
<1>p. PICK zero, no, nil, one : zero = 0 /\ no = FALSE /\ nil = <<>> /\ one = <<nil>>
  OBVIOUS
<1> DEFINE s == NoSummary(<<>>)
           f == [s EXCEPT !.order = order]
           g == [f EXCEPT !.errors = nil]
<1>1. s = Summary("none", zero, nil, zero, no, one)
  BY <1>p DEF NoSummary, Summary
<1> HIDE DEF s
<1>2. f = Summary(order, zero, nil, zero, no, one)
  BY <1>1 DEF Summary
<1> HIDE DEF f
<1>3. g = Summary(order, zero, nil, zero, no, nil)
  BY <1>2 DEF Summary
<1> HIDE DEF g
<1>4. Empty(order) = g
  BY <1>p, Zenon DEF Empty, f, g, s
<1>5. g = Summary(order, 0, <<>>, 0, FALSE, <<>>)
  BY <1>3, <1>p, Zenon
<1> QED
  BY <1>4, <1>5, Zenon

\* The summaries of items of which those that are frames are of some types.
SummariesOf(order, types, X) ==
  [order : {order}, total_records : Nat, record_counts : UNION {[S -> Nat] : S \in SUBSET types},
   bytes_consumed : Nat, truncated : BOOLEAN, errors : Seq(X)]
Typed(item, types) ==
  ~Ok(item) \/ (item.header.type \in types /\ item.offset + 4 + item.header.rec_len \in Nat)

LEMMA SummaryIn ==
  ASSUME NEW types, NEW X, NEW o, NEW t, NEW c, NEW b, NEW u, NEW e
  PROVE  Summary(o, t, c, b, u, e) \in SummariesOf(o, types, X) <=>
           /\ t \in Nat /\ c \in UNION {[S -> Nat] : S \in SUBSET types} /\ b \in Nat
           /\ u \in BOOLEAN /\ e \in Seq(X)
<1>p. PICK C : C = UNION {[S -> Nat] : S \in SUBSET types}
  OBVIOUS
<1> QED
  BY <1>p DEF Summary, SummariesOf

LEMMA SummaryParts ==
  ASSUME NEW types, NEW X, NEW o, NEW s \in SummariesOf(o, types, X)
  PROVE  s = Summary(o, s.total_records, s.record_counts, s.bytes_consumed, s.truncated, s.errors)
<1>p. PICK C : C = UNION {[S -> Nat] : S \in SUBSET types}
  OBVIOUS
<1> QED
  BY <1>p DEF Summary, SummariesOf

LEMMA CountOneIn ==
  ASSUME NEW types, NEW c \in UNION {[S -> Nat] : S \in SUBSET types}, NEW type \in types
  PROVE  CountOne(c, type) \in UNION {[S -> Nat] : S \in SUBSET types}
<1>1. PICK S \in SUBSET types : c \in [S -> Nat]
  OBVIOUS
<1>2. S \cup {type} \in SUBSET types /\ DOMAIN c = S
  BY <1>1
<1>3. \A t \in S \cup {type} :
        (IF t = type THEN (IF type \in DOMAIN c THEN c[type] ELSE 0) + 1 ELSE c[t]) \in Nat
  BY <1>1
<1>4. CountOne(c, type) \in [S \cup {type} -> Nat]
  BY <1>2, <1>3 DEF CountOne
<1> QED
  BY <1>2, <1>4

LEMMA SummedType ==
  ASSUME NEW types, NEW X, NEW o, NEW s \in SummariesOf(o, types, X), NEW item \in X, Typed(item, types)
  PROVE  Summed(s, item) \in SummariesOf(o, types, X)
<1>p. PICK t, c, b, u, e : /\ t = s.total_records /\ c = s.record_counts /\ b = s.bytes_consumed
                           /\ u = s.truncated /\ e = s.errors
  OBVIOUS
<1>1. s = Summary(o, t, c, b, u, e)
  BY <1>p, SummaryParts
<1>s. SummedAs(Summed(s, item), o, t, c, b, u, e, item)
  BY <1>1, SummedIs
<1>2. /\ t \in Nat /\ c \in UNION {[S -> Nat] : S \in SUBSET types} /\ b \in Nat
      /\ u \in BOOLEAN /\ e \in Seq(X)
  <2>1. Summary(o, t, c, b, u, e) \in SummariesOf(o, types, X)
    BY <1>1
  <2> QED
    BY <2>1, SummaryIn, Zenon
<1>3. CASE ~Ok(item)
  <2>1. Summed(s, item) = Summary(o, t, c, b, TRUE, Append(e, item))
    BY <1>s, <1>3, Zenon DEF SummedAs
  <2>2. Append(e, item) \in Seq(X) /\ TRUE \in BOOLEAN
    BY <1>2
  <2>y. PICK yes, f : yes = TRUE /\ f = Append(e, item)
    OBVIOUS
  <2>3. Summary(o, t, c, b, yes, f) \in SummariesOf(o, types, X)
    BY <1>2, <2>2, <2>y, SummaryIn
  <2> QED
    BY <2>1, <2>3, <2>y
<1>4. CASE Ok(item)
  <2>p. PICK type, at, d : /\ type = item.header.type /\ at = item.offset + 4 + item.header.rec_len
                           /\ d = CountOne(c, type)
    OBVIOUS
  <2>1. Summed(s, item) = Summary(o, t + 1, d, at, u, e)
    BY <1>s, <1>4, <2>p, Zenon DEF SummedAs
  <2>2. type \in types /\ at \in Nat /\ t + 1 \in Nat
    BY <1>2, <1>4, <2>p DEF Typed
  <2>3. d \in UNION {[S -> Nat] : S \in SUBSET types}
    BY <1>2, <2>2, <2>p, CountOneIn
  <2>n. PICK n : n = t + 1
    OBVIOUS
  <2>4. Summary(o, n, d, at, u, e) \in SummariesOf(o, types, X)
    BY <1>2, <2>2, <2>3, <2>n, SummaryIn
  <2> QED
    BY <2>1, <2>4, <2>n
<1> QED
  BY <1>3, <1>4

LEMMA SumsStep ==
  ASSUME NEW types, NEW X, NEW items \in Seq(X), \A i \in 1 .. Len(items) : Typed(items[i], types),
         NEW order
  PROVE  /\ Summaries(order, items)[{}] = Empty(order)
         /\ \A n \in 1 .. Len(items) :
              Summaries(order, items)[1 .. n] = Summed(Summaries(order, items)[1 .. n - 1], items[n])
<1>p. PICK N, V, base : /\ N = Len(items) /\ V = SummariesOf(order, types, X)
                        /\ base = Empty(order)
  OBVIOUS
<1> DEFINE step == [x \in V \X (1 .. N) |-> Summed(x[1], items[x[2]])]
<1>1. N \in Nat /\ DOMAIN items = 1 .. N /\ \A i \in 1 .. N : items[i] \in X /\ Typed(items[i], types)
  BY <1>p
<1>2. base \in V
  <2>1. <<>> \in UNION {[S -> Nat] : S \in SUBSET types}
    <3>1. {} \in SUBSET types /\ <<>> \in [{} -> Nat]
      OBVIOUS
    <3> QED
      BY <3>1
  <2>2. 0 \in Nat /\ FALSE \in BOOLEAN /\ <<>> \in Seq(X)
    OBVIOUS
  <2>3. Summary(order, 0, <<>>, 0, FALSE, <<>>) \in SummariesOf(order, types, X)
    BY <2>1, <2>2, SummaryIn, Zenon
  <2> QED
    BY <1>p, <2>3, EmptyIs
<1>3. step \in [V \X (1 .. N) -> V]
  <2>1. ASSUME NEW s \in V, NEW i \in 1 .. N PROVE Summed(s, items[i]) \in V
    BY <1>1, <1>p, SummedType
  <2> QED
    BY <2>1
<1>4. \A t \in V, n \in 1 .. N : step[<<t, n>>] = Summed(t, items[n])
  OBVIOUS
<1> HIDE DEF step
<1>5. PICK g \in [SUBSET (1 .. N) -> V] : Folding(g, base, step, 1 .. N)
  BY <1>1, <1>2, <1>3, FoldingExists
<1>6. g = [s \in SUBSET DOMAIN items |-> IF s = {} THEN base ELSE Summed(g[s \ {Max(s)}], items[Max(s)])]
  <2>1. ASSUME NEW s \in SUBSET (1 .. N), s # {} PROVE g[s] = Summed(g[s \ {Max(s)}], items[Max(s)])
    <3>1. Max(s) \in 1 .. N /\ s \ {Max(s)} \in SUBSET (1 .. N)
      BY <1>1, <2>1, MaxIsElement
    <3>2. g[s \ {Max(s)}] \in V
      BY <3>1
    <3>3. g[s] = step[<<g[s \ {Max(s)}], Max(s)>>]
      BY <1>5, <2>1 DEF Folding
    <3> QED
      BY <1>4, <3>1, <3>2, <3>3
  <2>2. g[{}] = base
    BY <1>5 DEF Folding
  <2> QED
    BY <1>1, <2>1, <2>2
<1>h. PICK h : h = Summaries(order, items)
  OBVIOUS
<1>7. h = [s \in SUBSET DOMAIN items |-> IF s = {} THEN base ELSE Summed(h[s \ {Max(s)}], items[Max(s)])]
  <2>1. \E f : f = [s \in SUBSET DOMAIN items |->
                      IF s = {} THEN base ELSE Summed(f[s \ {Max(s)}], items[Max(s)])]
    BY <1>6
  <2> QED
    BY <1>p, <1>h, <2>1, Zenon DEF Summaries
<1>8. h[{}] = base
  BY <1>7
<1>9. ASSUME NEW n \in 1 .. N PROVE h[1 .. n] = Summed(h[1 .. n - 1], items[n])
  <2>1. n \in Nat \ {0} /\ n \in 1 .. n /\ \A x \in 1 .. n : x \in 1 .. N
    BY <1>1
  <2>2. Max(1 .. n) = n /\ (1 .. n) \ {n} = 1 .. n - 1
    BY <2>1, MaxOfPrefix
  <2>3. 1 .. n \in SUBSET DOMAIN items /\ 1 .. n # {}
    BY <1>1, <2>1
  <2> QED
    BY <1>7, <2>2, <2>3
<1> QED
  BY <1>h, <1>p, <1>8, <1>9

LastError(items, records, n, w) == IF Left(records, n, w) = 0 THEN <<>> ELSE <<items[w + 1]>>
SummaryOf(items, records, order, n, w) ==
  Summary(order, w, Counts(records, w), Start(records, w + 1), Left(records, n, w) # 0,
          LastError(items, records, n, w))

LEMMA FrameIs ==
  ASSUME NEW records \in Seq(SizedRecord), NEW i \in 1 .. Len(records) + 1
  PROVE  LET frame == FrameOf(records, i)
         IN /\ Ok(frame) /\ frame.header.type = TypeOf(records, i)
            /\ frame.offset + 4 + frame.header.rec_len = Start(records, i + 1)
            /\ Start(records, i + 1) \in Nat
<1>p. PICK f, h, p, size : /\ f = FrameOf(records, i) /\ p = Start(records, i)
                           /\ size = All(records)[i].size
                           /\ h = [rec_len |-> size, type |-> All(records)[i].type]
  OBVIOUS
<1>1. f = Frame(p, h)
  BY <1>p DEF FrameOf
<1>2. f.offset = p /\ f.header = h /\ h.rec_len = size /\ h.type = TypeOf(records, i)
  BY <1>1, <1>p DEF Frame, TypeOf
<1>3. Ok(f)
  BY <1>1, NoFrameEnds
<1>4. p \in Nat /\ size \in Nat /\ Start(records, i + 1) = p + 4 + size
  BY <1>p, StartNext, AllIs
<1>5. p + 4 + size \in Nat
  BY <1>4
<1> QED
  BY <1>2, <1>3, <1>4, <1>5, <1>p

LEMMA SummaryIs ==
  ASSUME NEW items, NEW records \in Seq(SizedRecord), NEW n, NEW w, Whole(records, n, w),
         ItemsAre(items, records, n, w), NEW order
  PROVE  FoldLeft(Summed, Empty(order), items) = SummaryOf(items, records, order, n, w)
<1>p. PICK X, types, sums : /\ X = {items[i] : i \in DOMAIN items} /\ types = TypesTo(records, w)
                            /\ sums = Summaries(order, items)
  OBVIOUS
<1> DEFINE so(k) == Summary(order, k, Counts(records, k), Start(records, k + 1), FALSE, <<>>)
           T == {k \in Nat : k <= w => sums[1 .. k] = so(k)}
<1>1. /\ w \in Nat /\ w \in 1 .. Len(records) + 1 /\ Left(records, n, w) \in {0, 1}
      /\ items \in Seq(X) /\ Len(items) = w + Left(records, n, w) /\ DOMAIN items = 1 .. Len(items)
  <2>1. /\ items \in Seq({items[i] : i \in DOMAIN items}) /\ Len(items) = w + Left(records, n, w)
        /\ DOMAIN items = 1 .. Len(items)
    BY FramesAre
  <2>2. w \in Nat /\ w \in 1 .. Len(records) + 1 /\ Left(records, n, w) \in {0, 1}
    BY DEF Whole, Left
  <2> QED
    BY <1>p, <2>1, <2>2
<1>2. \A i \in 1 .. w : items[i] = FrameOf(records, i) /\ i \in 1 .. Len(records) + 1
  <2>1. \A i \in 1 .. w : items[i] = FrameOf(records, i)
    BY DEF ItemsAre
  <2>2. \A i \in 1 .. w : i \in 1 .. Len(records) + 1
    BY <1>1
  <2> QED
    BY <2>1, <2>2
<1>3. Left(records, n, w) = 1 => ~Ok(items[w + 1])
  BY DEF ItemsAre
<1>4. ASSUME NEW i \in 1 .. Len(items) PROVE Typed(items[i], types)
  <2>1. CASE i \in 1 .. w
    <3>p. PICK f : f = items[i]
      OBVIOUS
    <3>1. f = FrameOf(records, i) /\ i \in 1 .. Len(records) + 1
      BY <1>2, <2>1, <3>p
    <3>2. f.header.type = TypeOf(records, i) /\ f.offset + 4 + f.header.rec_len \in Nat
      BY <3>1, FrameIs
    <3>3. TypeOf(records, i) \in types
      BY <1>p, <2>1 DEF TypesTo
    <3> QED
      BY <3>p, <3>2, <3>3 DEF Typed
  <2>2. CASE i \notin 1 .. w
    <3>1. i = w + 1 /\ Left(records, n, w) = 1
      BY <1>1, <2>2
    <3> QED
      BY <1>3, <3>1 DEF Typed
  <2> QED
    BY <2>1, <2>2
<1>5. /\ sums[{}] = Empty(order)
      /\ \A k \in 1 .. Len(items) : sums[1 .. k] = Summed(sums[1 .. k - 1], items[k])
  BY <1>1, <1>4, <1>p, SumsStep
<1>6. 0 \in T
  <2>1. 1 .. 0 = {} /\ 0 + 1 = 1
    OBVIOUS
  <2>2. sums[1 .. 0] = Summary(order, 0, <<>>, 0, FALSE, <<>>)
    BY <1>5, <2>1, EmptyIs
  <2>3. Counts(records, 0) = <<>> /\ Start(records, 0 + 1) = 0
    BY <2>1, CountsBegin, StartNext
  <2>4. sums[1 .. 0] = so(0)
    BY <2>2, <2>3
  <2> HIDE DEF so
  <2> QED
    BY <2>4
<1>7. ASSUME NEW k \in T PROVE k + 1 \in T
  <2>0. k \in Nat /\ k + 1 \in Nat
    OBVIOUS
  <2> SUFFICES ASSUME k + 1 <= w PROVE sums[1 .. k + 1] = so(k + 1)
    BY <2>0
  <2>p. PICK j, f, s : j = k + 1 /\ f = items[j] /\ s = sums[1 .. k]
    OBVIOUS
  <2>1. j \in 1 .. w /\ j \in 1 .. Len(items) /\ 1 .. j - 1 = 1 .. k
    BY <1>1, <2>0, <2>p
  <2>2. sums[1 .. j] = Summed(s, f)
    BY <1>5, <2>1, <2>p
  <2>3. s = Summary(order, k, Counts(records, k), Start(records, j), FALSE, <<>>)
    <3>1. k <= w
      BY <1>1, <2>0
    <3>2. sums[1 .. k] = so(k)
      BY <1>7, <3>1
    <3> QED
      BY <2>p, <3>2
  <2>4. Ok(f) /\ f.header.type = TypeOf(records, j)
        /\ f.offset + 4 + f.header.rec_len = Start(records, j + 1)
    <3>1. f = FrameOf(records, j) /\ j \in 1 .. Len(records) + 1
      BY <1>2, <2>1, <2>p
    <3> QED
      BY <3>1, FrameIs
  <2>c. PICK c, b, u, e : /\ c = Counts(records, k) /\ b = Start(records, j) /\ u = FALSE /\ e = <<>>
    OBVIOUS
  <2>5. SummedAs(Summed(s, f), order, k, c, b, u, e, f)
    BY <2>3, <2>c, SummedIs
  <2>6. Summed(s, f) = Summary(order, k + 1, CountOne(c, TypeOf(records, j)), Start(records, j + 1), u, e)
    BY <2>4, <2>5 DEF SummedAs
  <2>7. CountOne(c, TypeOf(records, j)) = Counts(records, j)
    BY <2>0, <2>c, <2>p, CountsNext
  <2> QED
    BY <2>2, <2>6, <2>7, <2>c, <2>p
<1>8. T \in SUBSET Nat
  OBVIOUS
<1> HIDE DEF T, so
<1>9. sums[1 .. w] = so(w)
  <2>1. T = Nat
    BY <1>6, <1>7, <1>8, NatSetInduction
  <2> QED
    BY <1>1, <2>1 DEF T
<1>10. sums[1 .. Len(items)] = SummaryOf(items, records, order, n, w)
  <2>1. CASE Left(records, n, w) = 0
    <3>1. Len(items) = w
      BY <1>1, <2>1
    <3>2. LastError(items, records, n, w) = <<>> /\ (Left(records, n, w) # 0) = FALSE
      BY <2>1 DEF LastError
    <3> QED
      BY <1>9, <3>1, <3>2 DEF SummaryOf, so
  <2>2. CASE Left(records, n, w) # 0
    <3>1. Len(items) = w + 1 /\ Left(records, n, w) = 1 /\ w + 1 \in 1 .. Len(items) /\ (w + 1) - 1 = w
      BY <1>1, <2>2
    <3>p. PICK f, c, b, u, e, s : /\ f = items[w + 1] /\ c = Counts(records, w) /\ s = so(w)
                                  /\ b = Start(records, w + 1) /\ u = FALSE /\ e = <<>>
      OBVIOUS
    <3>2. s = Summary(order, w, c, b, u, e)
      BY <3>p DEF so
    <3>3. SummedAs(Summed(s, f), order, w, c, b, u, e, f)
      BY <3>2, SummedIs
    <3>4. Summed(s, f) = Summary(order, w, c, b, TRUE, Append(e, f))
      BY <1>3, <3>1, <3>3, <3>p DEF SummedAs
    <3>5. sums[1 .. w + 1] = Summed(s, f)
      <4>1. sums[1 .. w + 1] = Summed(sums[1 .. (w + 1) - 1], items[w + 1])
        BY <1>5, <3>1, Zenon
      <4> QED
        BY <1>9, <3>1, <3>p, <4>1
    <3>6. Append(e, f) = <<f>>
      BY <3>p
    <3>7. LastError(items, records, n, w) = <<f>> /\ (Left(records, n, w) # 0) = TRUE
      BY <2>2, <3>p DEF LastError
    <3> QED
      BY <3>1, <3>4, <3>5, <3>6, <3>7, <3>p DEF SummaryOf
  <2> QED
    BY <2>1, <2>2
<1>11. FoldLeft(Summed, Empty(order), items) = sums[DOMAIN items]
  BY <1>p, SummedFold
<1> QED
  BY <1>1, <1>10, <1>11

\* Only the last item can be an error: decode_with_summary looks at all of them.
ErrorsIn(items) == {i \in 1 .. Len(items) : ~Ok(items[i])}
FirstError(items) == IF ErrorsIn(items) # {} THEN Min(ErrorsIn(items)) ELSE 0
ReadOf(items) == IF FirstError(items) = 0 THEN items ELSE SubSeq(items, 1, FirstError(items))

LEMMA AllRead ==
  ASSUME NEW items, NEW records \in Seq(SizedRecord), NEW n, NEW w, Whole(records, n, w),
         ItemsAre(items, records, n, w)
  PROVE  ReadOf(items) = items
<1>p. PICK X : X = {items[i] : i \in DOMAIN items}
  OBVIOUS
<1>1. /\ w \in Nat /\ w \in 1 .. Len(records) + 1 /\ Left(records, n, w) \in {0, 1}
      /\ items \in Seq(X) /\ Len(items) = w + Left(records, n, w) /\ DOMAIN items = 1 .. Len(items)
  <2>1. /\ items \in Seq({items[i] : i \in DOMAIN items}) /\ Len(items) = w + Left(records, n, w)
        /\ DOMAIN items = 1 .. Len(items)
    BY FramesAre
  <2>2. w \in Nat /\ w \in 1 .. Len(records) + 1 /\ Left(records, n, w) \in {0, 1}
    BY DEF Whole, Left
  <2> QED
    BY <1>p, <2>1, <2>2
<1>2. \A i \in 1 .. w : Ok(items[i])
  <2> TAKE i \in 1 .. w
  <2>1. items[i] = FrameOf(records, i)
    BY DEF ItemsAre
  <2>2. i \in 1 .. Len(records) + 1
    BY <1>1
  <2> QED
    BY <2>1, <2>2, FrameIs
<1>3. CASE Left(records, n, w) = 0
  <2>1. ErrorsIn(items) = {}
    BY <1>1, <1>2, <1>3 DEF ErrorsIn
  <2> QED
    BY <2>1 DEF FirstError, ReadOf
<1>4. CASE Left(records, n, w) = 1
  <2>p. PICK l : l = w + 1
    OBVIOUS
  <2>1. Len(items) = l /\ l \in Nat /\ l # 0 /\ ~Ok(items[l]) /\ \A i \in 1 .. l : i \in 1 .. w \/ i = l
    BY <1>1, <1>4, <2>p DEF ItemsAre
  <2>2. ErrorsIn(items) = {l}
    BY <1>2, <2>1 DEF ErrorsIn
  <2>3. Min({l}) = l
    <3>1. \A x \in {l} : (\A y \in {l} : x <= y) <=> x = l
      BY <2>1
    <3>2. (CHOOSE x \in {l} : \A y \in {l} : x <= y) = l
      BY <3>1
    <3> QED
      BY <3>2, Zenon DEF Min
  <2>4. FirstError(items) = l
    BY <2>2, <2>3 DEF FirstError
  <2>5. SubSeq(items, 1, l) = items
    <3>p. PICK s : s = SubSeq(items, 1, l)
      OBVIOUS
    <3>1. s \in Seq(X) /\ Len(s) = l /\ \A i \in 1 .. l : s[i] = items[i]
      BY <1>1, <2>1, <3>p
    <3>2. s = items
      BY <1>1, <2>1, <3>1, SameElements
    <3> QED
      BY <3>p, <3>2
  <2> QED
    BY <2>1, <2>4, <2>5 DEF ReadOf
<1> QED
  BY <1>1, <1>3, <1>4

LEMMA DecodedIs ==
  ASSUME NEW data, NEW order, detect_byte_order_result(data) = [order |-> order]
  PROVE  LET items == RawItems(data, order)
             frames == Frames(ReadOf(items))
             decoded == decode_with_summary(data)
         IN /\ decoded = [records |-> [i \in DOMAIN frames |-> Decoded(frames[i])],
                          summary |-> FoldLeft(Summed, Empty(order), ReadOf(items)),
                          error |-> Chosen(ReadOf(items), FALSE)]
            /\ summarize(data) = FoldLeft(Summed, Empty(order), items)
<1>p. PICK found : found = detect_byte_order_result(data)
  OBVIOUS
<1>1. found.order = order
  BY <1>p
<1>2. Ok(found)
  BY <1>p DEF Ok
<1>3. summarize(data) = FoldLeft(Summed, Empty(order), RawItems(data, order))
  BY <1>1, <1>2, <1>p, Zenon DEF summarize
<1>4. decode_with_summary(data) =
        [records |-> [i \in DOMAIN Frames(ReadOf(RawItems(data, order))) |->
                        Decoded(Frames(ReadOf(RawItems(data, order)))[i])],
         summary |-> FoldLeft(Summed, Empty(order), ReadOf(RawItems(data, order))),
         error |-> Chosen(ReadOf(RawItems(data, order)), FALSE)]
  BY <1>1, <1>2, <1>p, Zenon DEF decode_with_summary, SelectInSeq, ReadOf, FirstError, ErrorsIn
<1> QED
  BY <1>3, <1>4, Zenon

-----------------------------------------------------------------------------
(* What is read of a cut.                                                  *)

Alike(f, g) == \A j \in 1 .. 6 : f[j] = g[j]

LEMMA CutHead ==
  ASSUME NEW head \in Seq(Byte), Len(head) = 6, NEW tail \in Seq(Byte), NEW n \in 6 .. 6 + Len(tail)
  PROVE  LET data == SubSeq(head \o tail, 1, n)
         IN /\ data \in Seq(Byte) /\ Len(data) = n /\ SubSeq(data, 1, 6) = head /\ Alike(data, head)
<1>p. PICK full, data : full = head \o tail /\ data = SubSeq(full, 1, n)
  OBVIOUS
<1>1. full \in Seq(Byte) /\ Len(full) = 6 + Len(tail) /\ \A j \in 1 .. 6 : full[j] = head[j]
  <2>1. full \in Seq(Byte) /\ Joins(full, head, tail)
    BY <1>p, ConcatIs
  <2>2. Len(tail) \in Nat
    OBVIOUS
  <2> QED
    BY <2>1, <2>2 DEF Joins
<1>2. n \in Nat /\ 6 <= n /\ n <= Len(full)
  BY <1>1
<1>3. data \in Seq(Byte) /\ Len(data) = n /\ \A j \in 1 .. n : data[j] = full[j]
  BY <1>p, <1>1, <1>2
<1>4. Alike(data, head)
  BY <1>1, <1>2, <1>3 DEF Alike
<1>5. SubSeq(data, 1, 6) = head
  <2>1. SubSeq(data, 1, 6) \in Seq(Byte) /\ Len(SubSeq(data, 1, 6)) = 6
        /\ \A j \in 1 .. 6 : SubSeq(data, 1, 6)[j] = data[j]
    BY <1>2, <1>3
  <2>2. \A j \in 1 .. 6 : SubSeq(data, 1, 6)[j] = head[j]
    BY <1>4, <2>1 DEF Alike
  <2>3. SubSeq(data, 1, 6) = [j \in 1 .. 6 |-> SubSeq(data, 1, 6)[j]] /\ head = [j \in 1 .. 6 |-> head[j]]
    BY <2>1
  <2> QED
    BY <2>2, <2>3
<1> QED
  BY <1>3, <1>4, <1>5, <1>p

LEMMA AlikeHeaders ==
  ASSUME NEW f, NEW g, Alike(f, g), NEW order
  PROVE  from_bytes(f, 0, order) = from_bytes(g, 0, order)
<1>p. PICK z \in Nat : z = 0
  OBVIOUS
<1>1. SameBytes(f, z, g, z)
  BY <1>p DEF Alike, SameBytes
<1>0. z \in Nat
  BY <1>p
<1>2. from_bytes(f, z, order) = from_bytes(g, z, order)
  BY <1>0, <1>1, SameHeader
<1> QED
  BY <1>2, <1>p

\* The byte order is that of the first six bytes.
LEMMA AlikeFound ==
  ASSUME NEW f, NEW g, Alike(f, g), Len(f) \in Nat, Len(f) >= 6, Len(g) = 6
  PROVE  detect_byte_order_result(f) = detect_byte_order_result(g)
<1>1. \A order : IsFar(f, order) <=> IsFar(g, order)
  BY AlikeHeaders, Zenon DEF IsFar
<1>2. f[5] = g[5] /\ f[6] = g[6]
  BY DEF Alike
<1>3. OrderOf(f) = OrderOf(g)
  BY <1>1, <1>2 DEF OrderOf
<1>4. ~(Len(f) < 6) /\ ~(Len(g) < 6)
  OBVIOUS
<1> QED
  BY <1>1, <1>2, <1>3, <1>4 DEF detect_byte_order_result

LEMMA CutFile ==
  ASSUME NEW head \in Seq(Byte), Len(head) = 6, Ok(detect_byte_order_result(head)),
         NEW tail \in Seq(Byte), NEW n \in 6 .. 6 + Len(tail)
  PROVE  LET order == detect_byte_order(head)
             data == SubSeq(head \o tail, 1, n)
         IN IsFile(data, order) /\ detect_byte_order_result(data) = [order |-> order]
<1>p. PICK data, order : data = SubSeq(head \o tail, 1, n) /\ order = detect_byte_order(head)
  OBVIOUS
<1>1. /\ order \in Orders /\ detect_byte_order_result(head) = [order |-> order]
      /\ from_bytes(head, 0, order) = [rec_len |-> 2, type |-> FAR]
  BY <1>p, HeadIs
<1>2. data \in Seq(Byte) /\ Len(data) = n /\ SubSeq(data, 1, 6) = head /\ Alike(data, head)
  BY <1>p, CutHead
<1>3. n \in Nat /\ n >= 6
  OBVIOUS
<1>4. from_bytes(data, 0, order) = from_bytes(head, 0, order)
  BY <1>2, AlikeHeaders, Zenon
<1>5. detect_byte_order_result(data) = detect_byte_order_result(head)
  BY <1>2, <1>3, AlikeFound
<1>6. IsFile(data, order)
  BY <1>1, <1>2, <1>3, <1>4 DEF IsFile
<1> QED
  BY <1>1, <1>5, <1>6, <1>p

\* The conjuncts of CutRead, of items that are those of the whole records.
ReadIs(items, records, n, summary, decoded) ==
  LET within == Within(records, n)
  IN /\ Frames(items) = within.frames
     /\ Len(items) = Len(within.frames) + (IF within.end = n THEN 0 ELSE 1)
     /\ summary.total_records = Len(within.frames)
     /\ summary.bytes_consumed = within.end
     /\ summary.truncated <=> within.end < n
     /\ decoded.summary = summary
     /\ Len(decoded.records) = summary.total_records
     /\ decoded.error = summary.errors
     /\ SumFunction(summary.record_counts) = summary.total_records

LEMMA ReadAll ==
  ASSUME NEW records \in Seq(SizedRecord), NEW n \in Nat, 6 <= n, NEW data, NEW order,
         IsCut(data, records, order, n),
         detect_byte_order_result(data) = [order |-> order]
  PROVE  ReadIs(RawItems(data, order), records, n, summarize(data),
                decode_with_summary(data))
<1>w. PICK w : Whole(records, n, w)
  BY WholeExists
<1>p. PICK items, summary, decoded, frames, left, end :
        /\ items = RawItems(data, order) /\ summary = summarize(data)
        /\ decoded = decode_with_summary(data)
        /\ frames = [i \in 1 .. w |-> FrameOf(records, i)]
        /\ left = Left(records, n, w) /\ end = Start(records, w + 1)
  OBVIOUS
<1>1. ItemsAre(items, records, n, w)
  BY <1>w, <1>p, RawItemsAre
<1>2. w \in Nat /\ end \in Nat /\ end <= n
  <2>1. w \in 1 .. Len(records) + 1 /\ end <= n
    BY <1>w, <1>p DEF Whole
  <2>2. w \in Nat /\ w + 1 \in 1 .. Len(records) + 2
    BY <2>1
  <2>3. Start(records, w + 1) \in Nat
    BY <2>2, StartsGrow
  <2> QED
    BY <2>1, <2>2, <2>3, <1>p
<1>3. left \in {0, 1} /\ (left = 0 <=> end = n)
  BY <1>p DEF Left
<1>4. left # 0 <=> end < n
  BY <1>2, <1>3
<1>5. /\ Len(items) = w + left /\ Frames(items) = frames
      /\ Chosen(items, FALSE) = LastError(items, records, n, w)
  <2>1. Len(items) = w + Left(records, n, w) /\ FramesChosen(items, records, n, w)
    BY <1>w, <1>1, FramesAre
  <2> QED
    BY <2>1, <1>p DEF FramesChosen, LastError
<1>6. Within(records, n) = [frames |-> frames, end |-> end]
  BY <1>w, <1>p, WithinIs
<1>7. DOMAIN frames = 1 .. w /\ Len(frames) = w
  BY <1>2, <1>p
<1>8. ReadOf(items) = items
  BY <1>w, <1>1, AllRead
<1>9. FoldLeft(Summed, Empty(order), items) =
        Summary(order, w, Counts(records, w), end, left # 0, LastError(items, records, n, w))
  <2>1. FoldLeft(Summed, Empty(order), items) = SummaryOf(items, records, order, n, w)
    BY <1>w, <1>1, SummaryIs
  <2> QED
    BY <2>1, <1>p DEF SummaryOf
<1>10. /\ decoded = [records |-> [i \in DOMAIN frames |-> Decoded(frames[i])],
                     summary |-> FoldLeft(Summed, Empty(order), items),
                     error |-> Chosen(items, FALSE)]
       /\ summary = FoldLeft(Summed, Empty(order), items)
  <2>1. LET all == RawItems(data, order)
            got == Frames(ReadOf(all))
        IN /\ decoded = [records |-> [i \in DOMAIN got |-> Decoded(got[i])],
                         summary |-> FoldLeft(Summed, Empty(order), ReadOf(all)),
                         error |-> Chosen(ReadOf(all), FALSE)]
           /\ summary = FoldLeft(Summed, Empty(order), all)
    BY <1>p, DecodedIs
  <2>2. RawItems(data, order) = items /\ ReadOf(items) = items /\ Frames(items) = frames
    BY <1>5, <1>8, <1>p
  <2> QED
    BY <2>1, <2>2
<1>11. /\ summary.total_records = w /\ summary.record_counts = Counts(records, w)
       /\ summary.bytes_consumed = end /\ summary.truncated = (left # 0)
       /\ summary.errors = LastError(items, records, n, w)
  BY <1>9, <1>10 DEF Summary
<1>12. /\ decoded.summary = summary /\ Len(decoded.records) = w
       /\ decoded.error = LastError(items, records, n, w)
  <2>1. Len([i \in 1 .. w |-> Decoded(frames[i])]) = w
    BY <1>2
  <2> QED
    BY <1>5, <1>7, <1>10, <2>1
<1>13. SumFunction(Counts(records, w)) = w
  BY <1>2, CountsAddUp
<1>14. Within(records, n).frames = frames /\ Within(records, n).end = end
  BY <1>6
<1>15. w + left = w + (IF end = n THEN 0 ELSE 1)
  BY <1>2, <1>3
<1>16. ReadIs(items, records, n, summary, decoded)
  <2> DEFINE within == Within(records, n)
  <2>1. Frames(items) = within.frames
    BY <1>5, <1>14
  <2>2. Len(items) = Len(within.frames) + (IF within.end = n THEN 0 ELSE 1)
    BY <1>5, <1>7, <1>14, <1>15
  <2>3. summary.total_records = Len(within.frames) /\ summary.bytes_consumed = within.end
    BY <1>7, <1>11, <1>14
  <2>4. summary.truncated <=> within.end < n
    BY <1>4, <1>11, <1>14
  <2>5. Len(decoded.records) = summary.total_records /\ decoded.error = summary.errors
    BY <1>11, <1>12
  <2>6. SumFunction(summary.record_counts) = summary.total_records
    BY <1>11, <1>13
  <2> QED
    BY <1>12, <2>1, <2>2, <2>3, <2>4, <2>5, <2>6 DEF ReadIs
<1> QED
  BY <1>16, <1>p

LEMMA CutsAreRead ==
  ASSUME NEW head \in Heads, Ok(detect_byte_order_result(head)),
         NEW records \in Recordings, NEW n \in 6 .. 6 + Len(Encode(records, LittleEndian))
  PROVE  CutRead(head, records, n)
<1>p. PICK order, tail, data : /\ order = detect_byte_order(head)
                               /\ tail = Encode(records, order)
                               /\ data = SubSeq(head \o tail, 1, n)
  OBVIOUS
<1>1. head \in Seq(Byte) /\ Len(head) = 6
  <2>1. head \in [1 .. 6 -> Byte] /\ 6 \in Nat
    BY ByteAssumption DEF Byte
  <2> QED
    BY <2>1, FunctionIsSeq
<1>2. records \in Seq(SizedRecord)
  BY ByteAssumption DEF SizedRecord, Byte, LenRange
<1>3. /\ order \in Orders /\ from_bytes(head, 0, order) = [rec_len |-> 2, type |-> FAR]
  BY <1>1, <1>p, HeadIs
<1>4. tail \in Seq(Byte) /\ Len(tail) = Len(Encode(records, LittleEndian))
      /\ FullIs(head \o tail, records, order)
  <2>1. tail \in Seq(Byte) /\ 6 + Len(tail) = Start(records, Len(records) + 2)
    BY <1>2, <1>3, <1>p, EncodeIs
  <2>2. LittleEndian \in Orders
    BY DEF Orders
  <2>3. Encode(records, LittleEndian) \in Seq(Byte)
        /\ 6 + Len(Encode(records, LittleEndian)) = Start(records, Len(records) + 2)
    BY <1>2, <2>2, EncodeIs
  <2>4. Len(tail) = Len(Encode(records, LittleEndian))
    <3>1. \A s \in Seq(Byte), t \in Seq(Byte) : 6 + Len(s) = 6 + Len(t) => Len(s) = Len(t)
      OBVIOUS
    <3> QED
      BY <2>1, <2>3, <3>1
  <2>5. FullIs(head \o tail, records, order)
    BY <1>1, <1>2, <1>3, <1>p, FullFile
  <2> QED
    BY <2>1, <2>4, <2>5
<1>5. n \in 6 .. 6 + Len(tail)
  BY <1>4
<1>6. IsFile(data, order) /\ detect_byte_order_result(data) = [order |-> order]
  BY <1>1, <1>4, <1>5, <1>p, CutFile
<1>7. n \in 6 .. Len(head \o tail)
  <2>1. Joins(head \o tail, head, tail)
    BY <1>1, <1>4, ConcatIs
  <2>2. Len(head \o tail) = 6 + Len(tail)
    BY <1>1, <2>1 DEF Joins
  <2> QED
    BY <1>5, <2>2
<1>8. IsCut(data, records, order, n)
  BY <1>2, <1>4, <1>7, <1>p, CutIs
<1>9. n \in Nat /\ 6 <= n
  BY <1>8 DEF IsCut
<1>10. ReadIs(RawItems(data, order), records, n, summarize(data),
              decode_with_summary(data))
  BY <1>2, <1>6, <1>8, <1>9, ReadAll
<1>11. \A chunk \in Chunks : Events(data, chunk) = RawItems(data, order)
  <2> SUFFICES ASSUME NEW chunk \in Chunks PROVE Events(data, chunk) = RawItems(data, order)
    OBVIOUS
  <2>1. chunk \in Nat \ {0}
    BY ByteAssumption
  <2> QED
    BY <1>6, <2>1, EventsAreItems
<1> QED
  BY <1>10, <1>11, <1>p DEF CutRead, ReadIs

-----------------------------------------------------------------------------
(* Heads, and those who open a file.                                       *)

LEMMA RefusedIs ==
  ASSUME NEW data, NEW found, found = detect_byte_order_result(data), ~Ok(found)
  PROVE  /\ decode_with_summary(data).error = <<found>>
         /\ decode_with_summary(data).records = <<>>
         /\ summarize(data).errors = <<found>>
<1>1. decode_with_summary(data) =
        [records |-> <<>>, summary |-> NoSummary(found), error |-> <<found>>]
  BY Zenon DEF decode_with_summary
<1>2. summarize(data) = NoSummary(found)
  BY Zenon DEF summarize
<1>3. NoSummary(found).errors = <<found>>
  BY DEF NoSummary
<1> QED
  BY <1>1, <1>2, <1>3

LEMMA OpenedIs ==
  ASSUME NEW data \in Seq(Byte), Len(data) \in 0 .. 6, NEW chunk \in Nat \ {0}
  PROVE  LET found == detect_byte_order_result(data)
             opened == Opened(data, chunk)
         IN /\ Len(data) < 6 => opened = Failed("Io", 0, 0)
            /\ Len(data) = 6 => opened = IF Ok(found) THEN NewReader(found.order) ELSE found
<1>p. PICK got, zero, part, found : /\ zero = 0 /\ got = Filled(data, zero, 6, chunk)
                                    /\ part = SubSeq(data, 1, got)
                                    /\ found = detect_byte_order_result(part)
  OBVIOUS
<1>1. got = Len(data)
  <2>1. zero \in 0 .. Len(data) /\ 6 \in Nat /\ Len(data) \in Nat
    BY <1>p
  <2>2. got = Least(6, Len(data) - zero)
    BY <2>1, <1>p, FilledIs
  <2> QED
    BY <2>2, <1>p DEF Least
<1>2. part = data
  <2>1. part = SubSeq(data, 1, Len(data))
    BY <1>1, <1>p
  <2>2. /\ SubSeq(data, 1, Len(data)) = [i \in 1 .. Len(data) |-> data[i]]
        /\ data = [i \in 1 .. Len(data) |-> data[i]]
    OBVIOUS
  <2> QED
    BY <2>1, <2>2
<1>3. Opened(data, chunk) = CASE got < 6 -> Failed("Io", 0, 0)
                                    [] got = 6 /\ Ok(found) -> NewReader(found.order)
                                    [] OTHER -> found
  BY <1>p, Zenon DEF Opened
<1>4. CASE got < 6
  <2>1. got # 6
    BY <1>4
  <2>2. Opened(data, chunk) = Failed("Io", 0, 0)
    BY <1>3, <1>4, <2>1
  <2> QED
    BY <1>1, <2>1, <2>2
<1>5. CASE ~(got < 6)
  <2>1. got = 6 /\ ~(Len(data) < 6)
    BY <1>1, <1>5
  <2>2. Opened(data, chunk) = IF Ok(found) THEN NewReader(found.order) ELSE found
    BY <1>3, <1>5, <2>1
  <2> QED
    BY <1>2, <1>p, <2>1, <2>2
<1> QED
  BY <1>4, <1>5

LEMMA ReadersOk ==
  ASSUME NEW order
  PROVE  Ok(NewReader(order))
  BY DEF Ok, NewReader

\* A byte order is not found only if the version is another.
LEMMA OrderFound ==
  ASSUME NEW head, Len(head) = 6, detect_byte_order(head) # "none",
         head[6] = STDF_VER
  PROVE  Ok(detect_byte_order_result(head))
<1>p. PICK order : order = OrderOf(head)
  OBVIOUS
<1>1. detect_byte_order(head) = order
  BY <1>p DEF detect_byte_order
<1>2. order # "none"
  BY <1>1
<1>3. detect_byte_order_result(head) = [order |-> order]
  BY <1>p, <1>2 DEF detect_byte_order_result
<1>4. Ok([order |-> order])
  BY DEF Ok
<1> QED
  BY <1>3, <1>4

LEMMA ShortHead ==
  ASSUME NEW data, Len(data) \in 0 .. 5
  PROVE  /\ detect_byte_order(data) = "none"
         /\ detect_byte_order_result(data) = Failed("UnexpectedEof", 0, 6)
<1>1. \A m \in 0 .. 5 : m < 6
  OBVIOUS
<1>2. Len(data) < 6
  BY <1>1
<1> QED
  BY <1>2, Zenon DEF detect_byte_order, detect_byte_order_result

LEMMA HeadsAreJudged ==
  ASSUME NEW head \in Heads, NEW n \in 0 .. 6
  PROVE  HeadJudged(SubSeq(head, 1, n))
<1>p. PICK data, found : data = SubSeq(head, 1, n) /\ found = detect_byte_order_result(data)
  OBVIOUS
<1>1. data \in Seq(Byte) /\ Len(data) = n
  <2>1. head \in [1 .. 6 -> Byte] /\ 6 \in Nat
    BY ByteAssumption DEF Byte
  <2>2. head \in Seq(Byte) /\ Len(head) = 6
    BY <2>1, FunctionIsSeq
  <2> QED
    BY <2>2, <1>p
<1>2. Len(data) \in 0 .. 6 /\ \A chunk \in Chunks : chunk \in Nat \ {0}
  BY <1>1, ByteAssumption
<1>3. ~Ok(found) => /\ decode_with_summary(data).error = <<found>>
                          /\ decode_with_summary(data).records = <<>>
                          /\ summarize(data).errors = <<found>>
  BY <1>p, RefusedIs
<1>4. Ok(found) => detect_byte_order(data) = found.order
  <2>1. CASE Len(data) = 6
    <3> SUFFICES ASSUME Ok(found) PROVE detect_byte_order(data) = found.order
      OBVIOUS
    <3>1. found = [order |-> detect_byte_order(data)]
      BY <2>1, <1>p, HeadIs
    <3> QED
      BY <3>1
  <2>2. CASE Len(data) # 6
    <3>1. Len(data) \in 0 .. 5
      BY <1>2, <2>2
    <3>2. found = Failed("UnexpectedEof", 0, 6)
      BY <3>1, <1>p, ShortHead
    <3> QED
      BY <3>2, NoFrameEnds
  <2> QED
    BY <2>1, <2>2
<1>5. detect_byte_order(data) # "none" => Ok(found) \/ data[6] # STDF_VER
  <2>1. CASE Len(data) = 6
    BY <2>1, <1>p, OrderFound
  <2>2. CASE Len(data) # 6
    <3>1. Len(data) \in 0 .. 5
      BY <1>2, <2>2
    <3> QED
      BY <3>1, ShortHead
  <2> QED
    BY <2>1, <2>2
<1>6. ASSUME NEW chunk \in Chunks
      PROVE  /\ Ok(Opened(data, chunk)) = Ok(found)
             /\ ~Ok(found) /\ Len(data) = 6 => Opened(data, chunk) = found
  <2>1. CASE Len(data) = 6
    <3>1. Opened(data, chunk) = IF Ok(found) THEN NewReader(found.order) ELSE found
      BY <1>1, <1>2, <2>1, <1>p, OpenedIs
    <3>2. CASE Ok(found)
      <4>1. Opened(data, chunk) = NewReader(found.order)
        BY <3>1, <3>2
      <4>2. Ok(Opened(data, chunk))
        BY <4>1, ReadersOk
      <4>3. Ok(Opened(data, chunk)) \in BOOLEAN /\ Ok(found) \in BOOLEAN
        BY DEF Ok
      <4> QED
        BY <3>2, <4>2, <4>3
    <3>3. CASE ~Ok(found)
      BY <3>1, <3>3
    <3> QED
      BY <3>2, <3>3
  <2>2. CASE Len(data) # 6
    <3>1. Len(data) \in 0 .. 5 /\ Len(data) < 6
      <4>1. \A m \in 0 .. 6 : m # 6 => m \in 0 .. 5 /\ m < 6
        OBVIOUS
      <4> QED
        BY <1>2, <2>2, <4>1
    <3>2. found = Failed("UnexpectedEof", 0, 6)
      BY <3>1, <1>p, ShortHead
    <3>3. Opened(data, chunk) = Failed("Io", 0, 0)
      BY <1>1, <1>2, <3>1, OpenedIs
    <3>4. ~Ok(found) /\ ~Ok(Opened(data, chunk))
      BY <3>2, <3>3, NoFrameEnds
    <3>5. Ok(Opened(data, chunk)) \in BOOLEAN /\ Ok(found) \in BOOLEAN
      BY DEF Ok
    <3> QED
      BY <2>2, <3>4, <3>5
  <2> QED
    BY <2>1, <2>2
<1>7. HeadJudged(data)
  BY <1>3, <1>4, <1>5, <1>6, <1>p, Zenon DEF HeadJudged
<1> QED
  BY <1>7, <1>p

LEMMA HeadsAreBytes ==
  ASSUME NEW head \in Heads
  PROVE  head \in Seq(Byte)
<1>1. head \in [1 .. 6 -> Byte] /\ 6 \in Nat
  BY ByteAssumption DEF Byte
<1> QED
  BY <1>1, FunctionIsSeq

LEMMA MembersAre ==
  ASSUME NEW members \in BoundedSeq(Heads, 2) \ {<<>>}
  PROVE  /\ members \in Seq(Seq(Byte)) /\ Len(members) \in {1, 2}
         /\ members[1] \in Seq(Byte) /\ (Len(members) = 2 => members[2] \in Seq(Byte))
<1>1. PICK m \in 0 .. 2 : members \in [1 .. m -> Heads]
  BY DEF BoundedSeq, SeqOf
<1>2. m # 0
  <2> SUFFICES ASSUME m = 0 PROVE FALSE
    OBVIOUS
  <2>1. members \in [{} -> Heads]
    <3>1. 1 .. m = {}
      OBVIOUS
    <3> QED
      BY <1>1, <3>1
  <2>2. members = <<>>
    BY <2>1
  <2> QED
    BY <2>2
<1>3. members \in [1 .. m -> Seq(Byte)]
  BY <1>1, HeadsAreBytes
<1>4. members \in Seq(Seq(Byte)) /\ Len(members) = m
  BY <1>3, FunctionIsSeq
<1>5. m \in {1, 2}
  BY <1>2
<1> QED
  BY <1>3, <1>4, <1>5

LEMMA FlattenMembers ==
  ASSUME NEW members \in Seq(Seq(Byte)), Len(members) \in {1, 2}
  PROVE  /\ Len(members) = 1 => FlattenSeq(members) = members[1]
         /\ Len(members) = 2 => FlattenSeq(members) = members[1] \o members[2]
<1>1. FlattenSeq(members) = Joined(members)[Len(members)]
  BY FlattenIsJoined
<1>2. \A i \in 1 .. Len(members) :
        Joined(members)[i] = IF i = 1 THEN members[i] ELSE Joined(members)[i - 1] \o members[i]
  BY JoinedStep, Zenon
<1>3. Joined(members)[1] = members[1]
  <2>1. 1 \in 1 .. Len(members)
    OBVIOUS
  <2> QED
    BY <1>2, <2>1
<1>4. ASSUME Len(members) = 2 PROVE FlattenSeq(members) = members[1] \o members[2]
  <2>1. 2 \in 1 .. Len(members) /\ 2 # 1 /\ 2 - 1 = 1
    BY <1>4
  <2>2. Joined(members)[2] = Joined(members)[2 - 1] \o members[2]
    BY <1>2, <2>1
  <2> QED
    BY <1>1, <1>3, <1>4, <2>1, <2>2
<1> QED
  BY <1>1, <1>3, <1>4

LEMMA PrefixOfFirst ==
  ASSUME NEW s \in Seq(Byte), NEW t \in Seq(Byte)
  PROVE  IsPrefix(s, s) /\ IsPrefix(s, s \o t)
<1>p. PICK h : h = s \o t
  OBVIOUS
<1>1. h \in Seq(Byte) /\ Joins(h, s, t)
  BY <1>p, ConcatIs
<1>2. Len(s) \in Nat /\ Len(t) \in Nat /\ Len(s) <= Len(h) /\ \A i \in 1 .. Len(s) : h[i] = s[i]
  BY <1>1 DEF Joins
<1>3. SubSeq(s, 1, Len(s)) = [i \in 1 .. Len(s) |-> s[i]]
  OBVIOUS
<1>4. SubSeq(h, 1, Len(s)) = [i \in 1 .. Len(s) |-> h[i]]
  BY <1>1, <1>2
<1>5. SubSeq(h, 1, Len(s)) = SubSeq(s, 1, Len(s))
  BY <1>2, <1>3, <1>4
<1> QED
  BY <1>2, <1>5, <1>p DEF IsPrefix

LEMMA OpenersAreAgreed ==
  ASSUME NEW file \in [ext : BOOLEAN, magic : BOOLEAN, members : BoundedSeq(Heads, 2) \ {<<>>}],
         file.magic \/ Len(file.members) = 1
  PROVE  OpenersAgree(file)
<1>p. PICK members, joined, first, whole, rows, viewer :
        /\ members = file.members /\ joined = FlattenSeq(members) /\ first = members[1]
        /\ whole = OpenWhole(file) /\ rows = OpenRecords(file)
        /\ viewer = Spooled(file)
  OBVIOUS
<1>1. file.members \in BoundedSeq(Heads, 2) \ {<<>>} /\ file.ext \in BOOLEAN /\ file.magic \in BOOLEAN
  OBVIOUS
<1>2. /\ members \in Seq(Seq(Byte)) /\ Len(members) \in {1, 2}
      /\ first \in Seq(Byte) /\ (Len(members) = 2 => members[2] \in Seq(Byte))
  BY <1>1, <1>p, MembersAre
<1>3. /\ Len(members) = 1 => joined = first
      /\ Len(members) = 2 => joined = first \o members[2]
  BY <1>2, <1>p, FlattenMembers
<1>4. IsPrefix(first, joined) /\ IsPrefix(first, first)
  BY <1>2, <1>3, PrefixOfFirst
<1>5. FlattenSeq(file.members) = joined
  BY <1>p
<1>6. whole = (IF file.magic THEN first ELSE IF file.ext THEN Refused ELSE first)
  BY <1>1, <1>p DEF OpenWhole, GzDecoder, PlainBytes
<1>7. rows = (IF file.magic THEN joined ELSE IF file.ext THEN Refused ELSE first)
  BY <1>1, <1>5, <1>p DEF OpenRecords, MultiGzDecoder, PlainBytes
<1>8. viewer = (IF file.magic THEN joined ELSE first)
  BY <1>1, <1>5, <1>p DEF Spooled, MultiGzDecoder, PlainBytes
<1>9. file.magic \/ ~file.ext => /\ rows = viewer
                                 /\ IsPrefix(whole, viewer)
                                 /\ Len(members) = 1 => whole = viewer
  BY <1>1, <1>3, <1>4, <1>6, <1>7, <1>8
<1>10. ~file.magic /\ file.ext => whole = Refused /\ rows = Refused
  BY <1>6, <1>7
<1> QED
  BY <1>9, <1>10, <1>p, Zenon DEF OpenersAgree

\* However a file is cut, however its bytes arrive and by whomever it is opened: FilesFramed.
THEOREM FilesAlwaysFramed == FilesFramed
<1>1. \A head \in Heads : \A n \in 0 .. 6 : HeadJudged(SubSeq(head, 1, n))
  BY HeadsAreJudged
<1>2. \A head \in {h \in Heads : Ok(detect_byte_order_result(h))},
         records \in Recordings :
        \A n \in 6 .. 6 + Len(Encode(records, LittleEndian)) : CutRead(head, records, n)
  BY CutsAreRead
<1>3. \A file \in [ext : BOOLEAN, magic : BOOLEAN, members : BoundedSeq(Heads, 2) \ {<<>>}] :
        file.magic \/ Len(file.members) = 1 => OpenersAgree(file)
  BY OpenersAreAgreed
<1> QED
  BY <1>1, <1>2, <1>3 DEF FilesFramed
==============================================================================
