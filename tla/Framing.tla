------------------------------ MODULE Framing -------------------------------
(***************************************************************************)
(* From bytes to records, twice: RawRecordIter walks a buffer that holds   *)
(* the whole file (stdf-core/src/iter.rs), StreamingRecordReader reads as  *)
(* much as its source returns at a time (stdf-io/src/streaming.rs).  On    *)
(* the first stand summarize, decode_with_summary and decode_all, which    *)
(* info, dump, validate and the single-file conversion use; on the second  *)
(* everything else.  Bytes are numbers, positions count from 0 as in the   *)
(* code; the fields of a body are left out, whether it decodes is a        *)
(* function of its header (Malformed).                                     *)
(***************************************************************************)
EXTENDS Integers, Sequences, FiniteSets, SequencesExt

LittleEndian == "LittleEndian"
BigEndian == "BigEndian"
FAR == <<0, 10>>
STDF_VER == 4

Failed(kind, position, expected) ==
  [error |-> kind, position |-> position, expected |-> expected]

\* RecordHeader::from_bytes of the four bytes at a position.
from_bytes(data, pos, order) ==
  [rec_len |-> IF order = LittleEndian THEN data[pos + 1] + 256 * data[pos + 2]
                                       ELSE 256 * data[pos + 1] + data[pos + 2],
   type |-> <<data[pos + 3], data[pos + 4]>>]

IsFar(data, order) == from_bytes(data, 0, order) = [rec_len |-> 2, type |-> FAR]

\* The byte order the CPU type of a FAR names, which must be that of its length.
OrderOf(data) ==
  CASE IsFar(data, LittleEndian) /\ data[5] = 2 -> LittleEndian
    [] IsFar(data, BigEndian) /\ data[5] = 1 -> BigEndian
    [] OTHER -> "none"

detect_byte_order(data) == IF Len(data) < 6 THEN "none" ELSE OrderOf(data)

detect_byte_order_result(data) ==
  IF Len(data) < 6 THEN Failed("UnexpectedEof", 0, 6)
  ELSE LET order == OrderOf(data)
       IN CASE order = "none" /\ (IsFar(data, LittleEndian) \/ IsFar(data, BigEndian)) ->
                 Failed("InvalidField", 0, 0)
            [] order = "none" -> Failed("InvalidFar", 0, 0)
            [] order # "none" /\ data[6] # STDF_VER -> Failed("UnsupportedVersion", 0, 0)
            [] OTHER -> [order |-> order]

Ok(result) == "error" \notin DOMAIN result

-----------------------------------------------------------------------------
(* The buffer.                                                             *)

Frame(offset, header) == [offset |-> offset, header |-> header]

\* Mutant: four bytes at the very end are not taken for a header.
RawNextEarly(data, pos, order) ==
  IF pos + 4 >= Len(data)
  THEN [item |-> Failed("UnexpectedEof", pos, 4), pos |-> Len(data)]
  ELSE LET header == from_bytes(data, pos, order)
       IN IF pos + 4 + header.rec_len > Len(data)
          THEN [item |-> Failed("UnexpectedEof", pos + 4, header.rec_len), pos |-> Len(data)]
          ELSE [item |-> Frame(pos, header), pos |-> pos + 4 + header.rec_len]

\* RawRecordIter::next before the end of the data; an error consumes the rest.
RawNext(data, pos, order) ==
  IF pos + 4 > Len(data)
  THEN [item |-> Failed("UnexpectedEof", pos, 4), pos |-> Len(data)]
  ELSE LET header == from_bytes(data, pos, order)
       IN IF pos + 4 + header.rec_len > Len(data)
          THEN [item |-> Failed("UnexpectedEof", pos + 4, header.rec_len), pos |-> Len(data)]
          ELSE [item |-> Frame(pos, header), pos |-> pos + 4 + header.rec_len]

RawItems(data, order) ==
  LET from[pos \in 0..Len(data)] ==
        IF pos = Len(data) THEN <<>>
        ELSE LET next == RawNext(data, pos, order) IN <<next.item>> \o from[next.pos]
  IN from[0]

\* The items that are frames, and those that are errors.
Chosen(items, ok) ==
  FlattenSeq([i \in DOMAIN items |-> IF Ok(items[i]) = ok THEN <<items[i]>> ELSE <<>>])
Frames(items) == Chosen(items, TRUE)

\* A body that is too short for its record type; the record is then kept as Unknown.
Malformed(header) == header.type[1] = 15 /\ header.rec_len < 3
Decoded(frame) ==
  [type |-> frame.header.type, unknown |-> Malformed(frame.header), size |-> frame.header.rec_len]

NoSummary(error) ==
  [order |-> "none", total_records |-> 0, record_counts |-> <<>>, bytes_consumed |-> 0,
   truncated |-> FALSE, errors |-> <<error>>]

Empty(order) == [NoSummary(<<>>) EXCEPT !.order = order, !.errors = <<>>]

\* One item into the summary that summarize and decode_with_summary keep.
Summed(summary, item) ==
  IF ~Ok(item)
  THEN [summary EXCEPT !.truncated = TRUE, !.errors = Append(@, item)]
  ELSE LET type == item.header.type
           before == IF type \in DOMAIN summary.record_counts
                     THEN summary.record_counts[type] ELSE 0
           after == [t \in DOMAIN summary.record_counts \cup {type} |->
                       IF t = type THEN before + 1 ELSE summary.record_counts[t]]
       IN [summary EXCEPT !.total_records = @ + 1, !.record_counts = after,
                          !.bytes_consumed = item.offset + 4 + item.header.rec_len]

summarize(data) ==
  LET found == detect_byte_order_result(data)
  IN IF ~Ok(found) THEN NoSummary(found)
     ELSE FoldLeft(Summed, Empty(found.order), RawItems(data, found.order))

\* The records up to the first framing error, that error, and the summary.
decode_with_summary(data) ==
  LET found == detect_byte_order_result(data)
      items == RawItems(data, found.order)
      failure == SelectInSeq(items, LAMBDA item : ~Ok(item))
      read == IF failure = 0 THEN items ELSE SubSeq(items, 1, failure)
      records == Frames(read)
  IN IF ~Ok(found) THEN [records |-> <<>>, summary |-> NoSummary(found), error |-> <<found>>]
     ELSE [records |-> [i \in DOMAIN records |-> Decoded(records[i])],
           summary |-> FoldLeft(Summed, Empty(found.order), read),
           error |-> Chosen(read, FALSE)]

-----------------------------------------------------------------------------
(* The stream.  Its source returns at most what is left up to the next     *)
(* multiple of chunk.                                                      *)

ReadSome(data, at, want, chunk) == Min({want, chunk - (at % chunk), Len(data) - at})

\* The bytes got after reading until there are want of them, or no more.
Filled(data, at, want, chunk) ==
  LET fill[got \in 0..want] ==
        IF got = want \/ at + got = Len(data) THEN got
        ELSE fill[got + ReadSome(data, at + got, want - got, chunk)]
  IN fill[0]

NewReader(order) ==
  [order |-> order, at |-> 6, offset |-> 0, first_body |-> TRUE, finished |-> FALSE]

\* StreamingRecordReader::new reads the six bytes of the FAR and keeps its body.
Opened(data, chunk) ==
  LET got == Filled(data, 0, 6, chunk)
      found == detect_byte_order_result(SubSeq(data, 1, got))
  IN CASE got < 6 -> Failed("Io", 0, 0)
       [] got = 6 /\ Ok(found) -> NewReader(found.order)
       [] OTHER -> found

Event(r, header, at) ==
  [event |-> Frame(r.offset, header),
   reader |-> [r EXCEPT !.first_body = FALSE, !.offset = @ + 4 + header.rec_len, !.at = at]]
NoEvent(r, event) == [event |-> event, reader |-> [r EXCEPT !.finished = TRUE]]
EndOfInput == [end |-> TRUE]

next_event(r, data, chunk) ==
  LET got == Filled(data, r.at, 4, chunk)
      header == from_bytes(data, r.at, r.order)
      body == Filled(data, r.at + 4, header.rec_len, chunk)
  IN CASE r.finished \/ (~r.first_body /\ got = 0) -> NoEvent(r, EndOfInput)
       [] ~r.finished /\ r.first_body -> Event(r, [rec_len |-> 2, type |-> FAR], r.at)
       [] ~r.finished /\ ~r.first_body /\ got \in 1..3 ->
            NoEvent(r, Failed("UnexpectedEof", r.offset, 4))
       [] ~r.finished /\ ~r.first_body /\ got = 4 ->
            IF body < header.rec_len
            THEN NoEvent(r, Failed("UnexpectedEof", r.offset + 4, header.rec_len))
            ELSE Event(r, header, r.at + 4 + body)

Reader(data) ==
  [order : {LittleEndian, BigEndian}, at : 0..Len(data), offset : Nat, first_body : BOOLEAN,
   finished : BOOLEAN]

\* All events of a stream that could be opened.
Events(data, chunk) ==
  LET from[r \in Reader(data)] ==
        LET next == next_event(r, data, chunk)
        IN IF next.event = EndOfInput THEN <<>> ELSE <<next.event>> \o from[next.reader]
  IN from[Opened(data, chunk)]

-----------------------------------------------------------------------------
(* The file.  It has the extension .gz or not, and the bytes of gzip       *)
(* members, each of some decompressed bytes, or is plain.  A decoder is    *)
(* external: GzDecoder ends after the first member, MultiGzDecoder after   *)
(* the last, and both refuse what is not gzip.                             *)

Refused == [refused |-> TRUE]
GzDecoder(file) == IF file.magic THEN file.members[1] ELSE Refused
MultiGzDecoder(file) == IF file.magic THEN FlattenSeq(file.members) ELSE Refused
PlainBytes(file) == file.members[1]

\* StdfReader::open: info, dump, validate, single-file convert, the Python bindings.
OpenWhole(file) == IF file.ext \/ file.magic THEN GzDecoder(file) ELSE PlainBytes(file)

\* open_records: directory and managed conversions.
OpenRecords(file) == IF file.magic \/ file.ext THEN MultiGzDecoder(file) ELSE PlainBytes(file)

\* spool and its like: the viewer, sanity, traceability and both Pareto reports.
Spooled(file) == IF file.magic THEN MultiGzDecoder(file) ELSE PlainBytes(file)
=============================================================================
