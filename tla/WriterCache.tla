----------------------------- MODULE WriterCache ----------------------------
(***************************************************************************)
(* The bounded set of Parquet writers a managed conversion keeps open      *)
(* (stdf-parquet/src/dataset/fragments.rs, WriterCache), one per partition *)
(* directory, and the receipt of what they wrote (write_receipt,           *)
(* read_receipt).  The cache is a value of one conversion.                 *)
(*                                                                         *)
(* Memory is in units of the reservation for one row (8 KiB in the code,   *)
(* 64 KiB for a file).  What an ArrowWriter holds is external: the weights *)
(* of its rows.  A batch is [key, ids, weight]: its rows and what each     *)
(* weighs; options are [max_memory, max_open_writers, row_group_rows,      *)
(* max_files].                                                             *)
(***************************************************************************)
EXTENDS Naturals, Sequences, FiniteSets, SequencesExt

CONSTANTS
  FileReserve,      \* what a file takes: 8 in the code
  MinimumWorking    \* the least working writer_budget: 128 in the code

ChunkDivisor == 2
MaxChunk == 256

\* FragmentOptions::budget: paths and plans have their share, then three phases.
Affords(options) == options.max_memory >= options.max_files
writer_budget(options) == (options.max_memory - options.max_files) \div 3

Valid(options) ==
  /\ options.max_open_writers > 0 /\ options.row_group_rows > 0 /\ options.max_files > 0
  /\ Affords(options) /\ writer_budget(options) >= MinimumWorking
  /\ options.max_open_writers * FileReserve <= writer_budget(options)

NewCache ==
  [open |-> [k \in {} |-> {}], outputs |-> <<>>, created |-> 0, tick |-> 0, error |-> "none"]

Fail(cache, resource) == [cache EXCEPT !.error = resource]

memory(cache) ==
  SumFunction([k \in DOMAIN cache.open |-> SumFunction(cache.open[k].weights) + FileReserve])

close(cache, key) ==
  LET o == cache.open[key]
      done == [key |-> key, part |-> o.part, ids |-> o.ids, rows |-> Len(o.ids),
               batches |-> o.batches]
  IN [cache EXCEPT !.open = Restrict(@, DOMAIN @ \ {key}), !.outputs = Append(@, done)]

\* The writer that was written to least recently is closed.
evict(cache) ==
  close(cache, CHOOSE k \in DOMAIN cache.open :
                 \A l \in DOMAIN cache.open : cache.open[k].tick <= cache.open[l].tick)

\* Mutant: one writer is closed, whatever that makes room for.
EvictOnce(cache, reserve, available) ==
  IF DOMAIN cache.open # {} /\ memory(cache) + reserve > available THEN evict(cache) ELSE cache

\* Writers are closed until the reservation fits, or none is left.
EvictFor(cache, reserve, available) ==
  LET fits[n \in 0..Cardinality(DOMAIN cache.open)] ==
        IF n = 0 THEN cache
        ELSE LET c == fits[n - 1]
             IN IF DOMAIN c.open # {} /\ memory(c) + reserve > available THEN evict(c) ELSE c
  IN fits[Cardinality(DOMAIN cache.open)]

\* Opens the writer of a partition under the next part number.
OpenWriter(cache, key, options) ==
  LET c == IF Cardinality(DOMAIN cache.open) = options.max_open_writers
           THEN evict(cache) ELSE cache
      o == [part |-> c.created, ids |-> <<>>, weights |-> <<>>, batches |-> 0, tick |-> c.tick]
  IN CASE key \in DOMAIN cache.open -> cache
       [] key \notin DOMAIN cache.open /\ c.created + 1 > options.max_files -> Fail(c, "output files")
       [] OTHER -> [c EXCEPT !.open = [k \in DOMAIN @ \cup {key} |-> IF k = key THEN o ELSE @[k]],
                             !.created = @ + 1]

\* The rows of one chunk, as many as the fragment still takes.
WriteChunk(cache, batch, offset, count, options) ==
  LET o == cache.open[batch.key]
      n == Min({count, options.row_group_rows - Len(o.ids)})
      wrote == [o EXCEPT !.ids = @ \o SubSeq(batch.ids, offset + 1, offset + n),
                         !.weights = @ \o [i \in 1..n |-> batch.weight],
                         !.batches = @ + 1, !.tick = cache.tick + 1]
      c == [cache EXCEPT !.open[batch.key] = wrote, !.tick = @ + 1]
      after == CASE memory(c) > writer_budget(options) -> Fail(c, "writer bytes")
                 [] memory(c) <= writer_budget(options) /\ Len(wrote.ids) = options.row_group_rows ->
                      close(c, batch.key)
                 [] OTHER -> c
  IN [cache |-> after, offset |-> offset + n]

NextChunk(at, batch, options) ==
  LET count == Min({Len(batch.ids) - at.offset, options.row_group_rows,
                    Max({1, Min({MaxChunk, writer_budget(options) \div ChunkDivisor})})})
      reserve == count + FileReserve
      roomy == EvictFor(at.cache, reserve, writer_budget(options))
      opened == OpenWriter(roomy, batch.key, options)
  IN CASE reserve > writer_budget(options) -> [at EXCEPT !.cache = Fail(@, "writer reservation bytes")]
       [] reserve <= writer_budget(options) /\ opened.error # "none" -> [at EXCEPT !.cache = opened]
       [] OTHER -> WriteChunk(opened, batch, at.offset, count, options)

write(cache, batch, options) ==
  LET chunks[n \in 0..Len(batch.ids)] ==
        IF n = 0 THEN [cache |-> cache, offset |-> 0]
        ELSE LET at == chunks[n - 1]
             IN IF at.offset = Len(batch.ids) \/ at.cache.error # "none" THEN at
                ELSE NextChunk(at, batch, options)
  IN IF Len(batch.ids) * batch.weight > writer_budget(options) THEN Fail(cache, "Arrow batch bytes")
     ELSE chunks[Len(batch.ids)].cache

close_all(cache) ==
  LET closing[n \in 0..Cardinality(DOMAIN cache.open)] ==
        IF n = 0 THEN cache ELSE evict(closing[n - 1])
  IN closing[Cardinality(DOMAIN cache.open)]

\* The caches of a conversion after each batch, up to the first error.
Caches(batches, options) ==
  LET after[n \in 0..Len(batches)] ==
        IF n = 0 THEN NewCache
        ELSE LET cache == after[n - 1]
             IN IF cache.error # "none" THEN cache ELSE write(cache, batches[n], options)
  IN after

\* The fragments in order of their paths: the partition, then the part.
PathBefore(a, b) == a.key < b.key \/ (a.key = b.key /\ a.part < b.part)

Fragments(batches, options) ==
  LET outputs == close_all(Caches(batches, options)[Len(batches)]).outputs
      place(i) == Cardinality({j \in DOMAIN outputs : PathBefore(outputs[j], outputs[i])})
  IN [n \in DOMAIN outputs |-> outputs[CHOOSE i \in DOMAIN outputs : place(i) = n - 1]]

-----------------------------------------------------------------------------
(* The receipt beside the fragments.                                       *)

write_receipt(outputs, rows) == [version |-> 2, rows |-> rows, fragments |-> outputs]

\* The checks of read_receipt that do not ask the file system.
read_receipt(receipt, expected_rows, max_files) ==
  /\ receipt.version = 2 /\ receipt.rows = expected_rows
  /\ Len(receipt.fragments) <= max_files
  /\ \A i, j \in DOMAIN receipt.fragments : i # j =>
       <<receipt.fragments[i].key, receipt.fragments[i].part>> #
         <<receipt.fragments[j].key, receipt.fragments[j].part>>
  /\ \A i \in DOMAIN receipt.fragments :
       LET f == receipt.fragments[i]
       IN f.rows > 0 /\ f.batches > 0 /\ f.batches <= f.rows
  /\ SumFunction([i \in DOMAIN receipt.fragments |-> receipt.fragments[i].rows]) = expected_rows
=============================================================================
