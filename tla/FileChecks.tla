----------------------------- MODULE FileChecks -----------------------------
(***************************************************************************)
(* What becomes of a file before its first record is looked at and after   *)
(* its last row is made: framing, the fragments of a conversion, and those *)
(* of a dataset whose rows the viewer takes for its own.  All are          *)
(* functions of the lists of the constants; ReportChecks says so of a      *)
(* state.                                                                  *)
(***************************************************************************)
EXTENDS Framing, WriterCache, DatasetReuse

CONSTANTS
  BatchLists,   \* lists of the batches of a conversion, as [key, rows, weight]
  WriterLimits, \* the options of a conversion
  DigestLists,  \* rows of a prepared file, by their digests (DatasetReuse)
  FragmentLists, \* fragments of a dataset, lists of digests
  Heads,        \* the first six bytes of a file, FARs and others
  Recordings,   \* lists of [type, size]: the records after the FAR
  Chunks        \* how much a read may return

\* The least budget reserves for a file and one chunk: 128 units for 8 + 64 in the code.
ASSUME ReserveAssumption ==
  FileReserve \in Nat \ {0} /\ MinimumWorking \in Nat /\ MinimumWorking >= 2 * FileReserve
ASSUME BatchAssumption ==
  /\ BatchLists \subseteq Seq([key : Nat, rows : Nat, weight : Nat])
  /\ WriterLimits \subseteq [max_memory : Nat, max_open_writers : Nat, row_group_rows : Nat,
                             max_files : Nat]
ASSUME DigestAssumption == DigestLists \subseteq Seq(Nat) /\ FragmentLists \subseteq Seq(Seq(Nat))
ByteMax == 255
LenMax == 65535
ASSUME ByteAssumption ==
  /\ Heads \subseteq [1..6 -> 0..ByteMax]
  /\ Recordings \subseteq Seq([type : [1..2 -> 0..ByteMax], size : 0..LenMax])
  /\ Chunks \subseteq Nat \ {0}

-----------------------------------------------------------------------------
(* The bytes of a recording, as RecordHeader::to_bytes writes its headers. *)

HeaderBytes(record, order) ==
  LET low == record.size % 256  high == record.size \div 256
  IN (IF order = LittleEndian THEN <<low, high>> ELSE <<high, low>>) \o record.type

Encode(records, order) ==
  FlattenSeq([i \in DOMAIN records |->
    HeaderBytes(records[i], order) \o [b \in 1..records[i].size |-> b % 3]])

\* The frames of the records that end within the first n bytes, and where they end.
Within(records, n) ==
  LET all == <<[type |-> FAR, size |-> 2]>> \o records
      start(i) == SumFunction([k \in 1..i - 1 |-> 4 + all[k].size])
      whole == {i \in DOMAIN all : start(i + 1) <= n}
      frame(i) == Frame(start(i), [rec_len |-> all[i].size, type |-> all[i].type])
  IN [frames |-> [i \in 1..Cardinality(whole) |-> frame(i)], end |-> start(Cardinality(whole) + 1)]

\* The two framers, the summaries and the decoder, of a file that begins with head.
CutRead(head, records, n) ==
  LET order == detect_byte_order(head)
      data == SubSeq(head \o Encode(records, order), 1, n)
      within == Within(records, n)
      items == RawItems(data, order)
      summary == summarize(data)
      decoded == decode_with_summary(data)
  IN /\ Frames(items) = within.frames
     /\ Len(items) = Len(within.frames) + (IF within.end = n THEN 0 ELSE 1)
     /\ \A chunk \in Chunks : Events(data, chunk) = items
     /\ summary.total_records = Len(within.frames)
     /\ summary.bytes_consumed = within.end
     /\ summary.truncated <=> within.end < n
     /\ decoded.summary = summary
     /\ Len(decoded.records) = summary.total_records
     /\ decoded.error = summary.errors
     /\ SumFunction(summary.record_counts) = summary.total_records

\* A head that is no FAR of this version is refused by all, with one error; detect_byte_order,
\* which does not look at the version, is otherwise of the same opinion.
HeadJudged(head) ==
  LET found == detect_byte_order_result(head)
      opened(chunk) == Opened(head, chunk)
  IN /\ Ok(found) => detect_byte_order(head) = found.order
     /\ detect_byte_order(head) # "none" => Ok(found) \/ head[6] # STDF_VER
     /\ \A chunk \in Chunks : Ok(opened(chunk)) = Ok(found)
     /\ ~Ok(found) => /\ decode_with_summary(head).error = <<found>>
                      /\ decode_with_summary(head).records = <<>>
                      /\ summarize(head).errors = <<found>>
                      /\ \A chunk \in Chunks : Len(head) = 6 => opened(chunk) = found

\* Three openers are given the same file: they see the same bytes of a plain file and of
\* one gzip member.  Of several members the whole-file reader sees the first only, and a
\* plain file named .gz is read by nobody but the viewer and the reports.
OpenersAgree(file) ==
  LET whole == OpenWhole(file)  rows == OpenRecords(file)  viewer == Spooled(file)
  IN /\ file.magic \/ ~file.ext => /\ rows = viewer
                                   /\ IsPrefix(whole, viewer)
                                   /\ Len(file.members) = 1 => whole = viewer
     /\ ~file.magic /\ file.ext => whole = Refused /\ rows = Refused

\* However a file is cut and however its bytes arrive, the buffer walk and the stream
\* frame the same records: those that were written and are whole, in order, and one error
\* with the same position if anything is left; the summaries count the same; and a file
\* that does not begin with a FAR of this version is refused by all of them.
FilesFramed ==
  /\ \A head \in Heads : \A n \in 0..6 : HeadJudged(SubSeq(head, 1, n))
  /\ \A head \in {h \in Heads : Ok(detect_byte_order_result(h))},
        records \in Recordings :
       \A n \in 6..6 + Len(Encode(records, LittleEndian)) : CutRead(head, records, n)
  /\ \A file \in [ext : BOOLEAN, magic : BOOLEAN, members : BoundedSeq(Heads, 2) \ {<<>>}] :
       file.magic \/ Len(file.members) = 1 => OpenersAgree(file)

-----------------------------------------------------------------------------
(* The fragments of a conversion.                                          *)

\* The batches with their rows named, batch and position.
Named(list) ==
  [b \in DOMAIN list |->
     [key |-> list[b].key, weight |-> list[b].weight,
      ids |-> [i \in 1..list[b].rows |-> <<b, i>>]]]

\* Rows that weigh no more than is reserved for them are written within the budget, by
\* at most as many open writers as allowed; only a batch that is larger than the budget
\* and a conversion that needs more files than it may have are refused.
WithinBudget(cache, named, options) ==
  /\ Cardinality(DOMAIN cache.open) <= options.max_open_writers
  /\ cache.created <= options.max_files
  /\ cache.error = "none" => memory(cache) <= writer_budget(options)
  /\ (\A b \in DOMAIN named : named[b].weight <= 1 /\
        Len(named[b].ids) * named[b].weight <= writer_budget(options)) =>
      cache.error \in {"none", "output files"}

\* The fragments of a partition are its rows.
RowsPartitioned(fragments, named, options) ==
  LET rows(list, key) == FlattenSeq([i \in DOMAIN list |->
                                       IF list[i].key = key THEN list[i].ids ELSE <<>>])
      total == SumFunction([b \in DOMAIN named |-> Len(named[b].ids)])
  IN /\ \A key \in {named[b].key : b \in DOMAIN named} :
          rows(fragments, key) = rows(named, key)
     /\ \A i \in DOMAIN fragments : Len(fragments[i].ids) <= options.row_group_rows
     /\ read_receipt(write_receipt(fragments, total), total, options.max_files)
     /\ ~read_receipt(write_receipt(fragments, total), total + 1, options.max_files)

\* Whatever is evicted when, a managed conversion stores every row once, in the fragments
\* of its partition and in order, and its own receipt is accepted.
FragmentsHoldRows ==
  \A list \in BatchLists, options \in {o \in WriterLimits : Valid(o)} :
    LET named == Named(list)
        caches == Caches(named, options)
    IN /\ \A n \in DOMAIN caches : WithinBudget(caches[n], named, options)
       /\ caches[Len(named)].error = "none" =>
            RowsPartitioned(Fragments(named, options), named, options)

\* A prepared file takes the rows of a dataset for its own exactly if they are the same
\* rows as often, in whatever order and fragments; it then knows each under one address,
\* no two under the same, where a row that is equal to it is stored.
ReusedRowsAreSame ==
  \A digests \in DigestLists, fragments \in FragmentLists :
    LET all == FlattenSeq(fragments)
        times(list, d) == Cardinality({i \in DOMAIN list : list[i] = d})
        same == \A d \in ToSet(digests) \cup ToSet(all) : times(digests, d) = times(all, d)
        reused == reuse_dataset(digests, fragments, 1, 8)
        fits == 1 + Len(all) <= 4
    IN /\ reused.ok <=> same /\ fits
       /\ reused.ok =>
            /\ \A id \in DOMAIN digests :
                 fragments[reused.at[id][1]][reused.at[id][2] + 1] = digests[id]
            /\ Cardinality({reused.at[id] : id \in DOMAIN digests}) = Len(digests)
=============================================================================
