-------------------------- MODULE MCStreamReaders ---------------------------
(* Instances of StreamReaders for TLC: one head, two sites. *)
EXTENDS QueryChecks, TLC

CONSTANTS h1, s1, s2, g1, ga, w1, w2

RunRecords == RunRecord
WaferRecordOf(kind, group, wafer_id) ==
  [kind |-> kind, head |-> h1, group |-> group, wafer |-> wafer_id]
WaferStarts == {WaferRecordOf("WIR", g1, w1), WaferRecordOf("WIR", ga, w2)}
WaferEnds == {WaferRecordOf("WRR", g1, NoWafer), WaferRecordOf("WRR", ga, w1)}
SiteMaps == {[kind |-> "SDR", head |-> h1, group |-> g1, sites |-> {s1}]}
Test(kind, site, unexecuted, declared, carried) ==
  [kind |-> kind, head |-> h1, site |-> site, unexecuted |-> unexecuted,
   declared |-> declared, carried |-> carried]
Tests ==
  {Test("PTR", s1, TRUE, 0, 0), Test("MPR", s1, FALSE, 1, 0), Test("MPR", s2, FALSE, 1, 1)}
Undecodable == [kind : {"Malformed"}, of : {"MRR"}]

FullAlphabet ==
  RunRecords \cup WaferStarts \cup WaferEnds \cup SiteMaps \cup PartRecord \cup Tests
    \cup Undecodable
RunAlphabet == RunRecords \cup WaferStarts \cup WaferEnds

BudgetOf(runRecords, waferRecords, parts, testRecords, malformed) ==
  [c \in {"run", "context", "part", "test", "malformed"} |->
     CASE c = "run" -> runRecords [] c = "context" -> waferRecords [] c = "part" -> parts
       [] c = "test" -> testRecords [] OTHER -> malformed]

ReadersBudget == BudgetOf(3, 3, 3, 2, 1)
ClosureBudget == BudgetOf(4, 2, 0, 0, 0)

(***************************************************************************)
(* The attempts of a device: up to two of the first run of source 1, one   *)
(* of its second run, and two of a third run, of source 1 or another.  The *)
(* ids of one run follow its sequence, or are reversed.                    *)
(***************************************************************************)
RunTimes ==
  {[start |-> s, finish |-> f] : s \in 0..3, f \in 0..3}
    \ {[start |-> 0, finish |-> 1], [start |-> 0, finish |-> 3], [start |-> 3, finish |-> 1],
       [start |-> 2, finish |-> 0], [start |-> 3, finish |-> 0], [start |-> 3, finish |-> 2]}

AttemptOf(source, runOf, times, nth, id) ==
  [id |-> id, source |-> source, run |-> runOf, start |-> times.start,
   finish |-> times.finish, sequence |-> nth]

History(n, second, third, source, reversed, t1, t2, t3) ==
  [k \in 1..n |-> AttemptOf(1, 1, t1, k, IF reversed THEN n + 1 - k ELSE k)]
    \o [k \in 1..second |-> AttemptOf(1, 2, t2, n + 1, n + 1)]
    \o [k \in 1..third |-> AttemptOf(source, 3, t3, n + 1 + k, IF reversed THEN 9 - k ELSE 6 + k)]

SmallHistories ==
  {History(n, second, third, source, reversed, t1, t2, t3) :
     n \in 0..2, second \in 0..1, third \in 0..2, source \in 1..2, reversed \in BOOLEAN,
     t1 \in RunTimes, t2 \in RunTimes,
     t3 \in {t \in RunTimes : t.start # 1}} \ {<<>>}

\* Flows of three steps, and what may be known of each.
SmallFlows == [1..3 -> [required : BOOLEAN, stop_on_fail : BOOLEAN]]
CellOf(n, verdict, unclear) ==
  [tests |-> n, latest |-> verdict, incomplete |-> unclear, changed |-> FALSE]
SmallCells ==
  [1..3 -> {CellOf(0, "unknown", FALSE), CellOf(1, "pass", FALSE), CellOf(1, "fail", FALSE),
            CellOf(1, "fail", TRUE), CellOf(2, "unknown", FALSE)}]

(***************************************************************************)
(* Rows of two sources: a part of one is resolved to the device of a part  *)
(* of the other, or of its own source; up to three rows.  Four parts with  *)
(* three tests, for the correlations.                                      *)
(***************************************************************************)
RowOf(source, part, key, lot, on, pass, test, verdict, result) ==
  [source |-> source, part |-> part, key |-> key, lot |-> lot, wafer |-> on, site |-> part,
   bin |-> IF pass THEN 1 ELSE 2, xy |-> IF key = None THEN None ELSE <<1, part>>,
   part_pass |-> pass, test |-> test, verdict |-> verdict, result |-> result,
   lo |-> None, hi |-> 2]
Device == <<"device", 1>>
RowAlphabet ==
  {RowOf("a", 1, Device, "lot1", w1, FALSE, 1, "pass", 3),
   RowOf("a", 2, Device, "lot1", w2, TRUE, 1, "fail", 1),
   RowOf("b", 1, Device, "lot2", w1, TRUE, 2, None, None),
   RowOf("b", 1, None, "lot2", None, TRUE, 1, "pass", 2),
   RowOf("a", 1, None, "lot2", w1, FALSE, 2, "fail", None),
   RowOf("b", 2, None, "lot3", w1, TRUE, 2, "pass", 0)}
Results ==
  {FlattenSeq([p \in 1..4 |-> <<RowOf("a", p, None, "lot1", w1, TRUE, 1, "pass", p % 3),
                                RowOf("a", p, None, "lot1", w1, TRUE, 2, "pass", v[p]),
                                RowOf("a", p, None, "lot1", w1, TRUE, 3, "pass",
                                      IF p = 4 THEN None ELSE p % 2)>>]) :
     v \in [1..4 -> 0..2]}
SmallTables == BoundedSeq(RowAlphabet, 3) \cup Results
SmallLimits == {[rows |-> 12, lots |-> 3, parts |-> 4], [rows |-> 2, lots |-> 3, parts |-> 3],
                [rows |-> 3, lots |-> 1, parts |-> 3], [rows |-> 3, lots |-> 3, parts |-> 1]}

FtrOf(scope, flags) == [kind |-> "FTR", scope |-> scope, flags |-> flags]
PatternRecords ==
  {[kind |-> "MIR", scope |-> 0, flags |-> {}], FtrOf(1, {"failed"}), FtrOf(1, {"alarm"}),
   FtrOf(2, {"failed", "not_executed"}), FtrOf(2, {"failed", "doubtful"})}
PatternFiles == BoundedSeq(PatternRecords, 2)
SmallInputs == BoundedSeq(PatternFiles, 2) \cup {<<f>> : f \in TupleOf(PatternRecords, 3)}

(***************************************************************************)
(* Six bytes: FARs of both orders, a CPU type of the other order or of     *)
(* none, another version, another record.  Recordings of up to three small *)
(* records, and one with a body that takes both bytes of the length.       *)
(***************************************************************************)
SmallHeads ==
  {<<2, 0, 0, 10, 2, 4>>, <<0, 2, 0, 10, 1, 4>>, <<2, 0, 0, 10, 1, 4>>, <<0, 2, 0, 10, 2, 4>>,
   <<2, 0, 0, 10, 2, 3>>, <<2, 0, 0, 20, 2, 4>>, <<2, 0, 0, 10, 7, 4>>}
Recorded(type, size) == [type |-> type, size |-> size]
SmallRecordings ==
  BoundedSeq({Recorded(<<5, 10>>, 0), Recorded(<<15, 10>>, 2), Recorded(<<15, 10>>, 3)}, 3)
    \cup {<<Recorded(<<1, 20>>, 257)>>}
SmallChunks == {1, 3, 7, 1000}

(***************************************************************************)
(* Up to four batches of two partitions, of rows that weigh nothing, what  *)
(* is reserved for them, or more.  The budgets are too small, or hold one, *)
(* two or three writers and their rows.                                    *)
(***************************************************************************)
BatchOf(key, rows, weight) == [key |-> key, rows |-> rows, weight |-> weight]
SmallBatches ==
  BoundedSeq([key : 1..2, rows : {1, 3}, weight : {1}] \cup {BatchOf(3, 2, 0), BatchOf(1, 2, 3)}, 3)
    \cup {<<BatchOf(1, 1, 1), BatchOf(2, 1, 1), BatchOf(1, 1, 1), BatchOf(3, n, 1), BatchOf(2, 1, 1)>> : n \in 1..3}
WriterLimit(g, w, b, f) ==
  [row_group_rows |-> g, max_open_writers |-> w, max_memory |-> 3 * b + f, max_files |-> f]
SmallWriterLimits ==
  {WriterLimit(2, 2, 18, 9), WriterLimit(4, 1, 20, 9), WriterLimit(2, 3, 30, 9),
   WriterLimit(4, 2, 16, 2), WriterLimit(4, 2, 18, 9), WriterLimit(4, 1, 15, 9)}

(***************************************************************************)
(* A prepared file: three attempts of two devices in two runs, six         *)
(* measurements in fragments of two, of which three have any value.        *)
(***************************************************************************)
ViewRow(id, at, runOf, test, verdict, value) ==
  [id |-> id, record |-> id, attempt |-> at, run |-> runOf, wafer |-> IF at = 2 THEN None ELSE w1,
   site |-> IF at = 2 THEN 2 ELSE 1, hard_bin |-> IF at = 1 THEN None ELSE at, test |-> test,
   kind |-> IF test = 3 THEN "FTR" ELSE "PTR", channel |-> IF id = 4 THEN 0 ELSE None,
   pattern |-> IF test = 3 THEN 1 ELSE None, units |-> IF test = 3 THEN 2 ELSE 1,
   passed |-> verdict, value |-> value, value_state |-> IF test = 3 THEN "not_numeric" ELSE "missing",
   limits |-> id % 2, latest |-> IF at = 1 THEN FALSE ELSE TRUE, first |-> IF at = 3 THEN FALSE ELSE TRUE,
   last_execution |-> id # 2, alarm |-> id = 3, duration |-> IF at = 3 THEN None ELSE at,
   x |-> IF at = 1 THEN None ELSE at, y |-> at]
SmallDatabases ==
  {LET rows == <<ViewRow(1, 1, 1, 1, TRUE, v[1]), ViewRow(2, 2, 1, 2, FALSE, 1),
                 ViewRow(3, 2, 1, 2, None, v[2]), ViewRow(4, 3, 2, 1, None, v[3]),
                 ViewRow(5, 3, 2, 3, FALSE, None), ViewRow(6, 3, 2, 3, TRUE, None)>>
       devices == [a \in 1..3 |-> ViewRow(a, a, IF a = 3 THEN 2 ELSE 1, 0,
                                          IF a = 2 THEN FALSE ELSE TRUE, None)]
   IN [measurements |-> <<SubSeq(rows, 1, 2), SubSeq(rows, 3, 4), SubSeq(rows, 5, 6)>>,
       devices |-> <<SubSeq(devices, 1, 2), SubSeq(devices, 3, 3)>>,
       records |-> <<<<ViewRow(7, 0, 0, 0, None, None), ViewRow(8, 0, 1, 0, None, None)>>,
                     SubSeq(rows, 1, 4),
                     SubSeq(rows, 5, 6) \o <<ViewRow(9, 0, 2, 0, None, None)>>>>,
       attempts |-> devices,
       lookup |-> (1 :> {1} @@ 2 :> {1, 2} @@ 3 :> {2, 3}),
       budget |-> [groups |-> 1, series |-> 3, points |-> 8]] :
     v \in {u \in [1..3 -> {None, -1, 2}] : u[1] # -1 /\ u[3] \notin {None, u[1]}}}

QueryOf(table, of, plot) ==
  [table |-> table, population |-> of, run |-> None, wafer |-> None, sites |-> {}, tests |-> {},
   attempts |-> {}, hard_bins |-> {}, excluded_devices |-> {}, excluded_measurements |-> {},
   filters |-> {}, alerts |-> {}, sort |-> "", descending |-> FALSE, limit |-> 2, plot |-> plot,
   bins |-> 3, low_whisker |-> 2, high_whisker |-> 98, color |-> "site", level |-> "test",
   show_pass |-> FALSE, annotation |-> "all"]
Variants(q) ==
  {q, [q EXCEPT !.run = 2, !.bins = 1], [q EXCEPT !.tests = {1}, !.sort = "value"],
   [q EXCEPT !.attempts = {1, 3}, !.sort = "value", !.descending = TRUE],
   [q EXCEPT !.sites = {1}, !.excluded_devices = {3}, !.filters = {<<"site", {1}>>}],
   [q EXCEPT !.excluded_measurements = {2, 5}, !.filters = {<<"site", {2}>>}, !.color = "all",
             !.annotation = "failure"],
   [q EXCEPT !.hard_bins = {2, 3}, !.alerts = {<<"alarm", {TRUE}>>}]}
SmallQueries ==
  UNION {Variants(QueryOf(table, of, "histogram")) :
           table \in {"measurements", "devices", "records"}, of \in {"latest", "all"}}
    \cup Variants(QueryOf("measurements", "first", "histogram"))
    \cup Variants(QueryOf("measurements", "latest", "timing"))
    \cup Variants(QueryOf("devices", "all", "timing"))

SmallCurves ==
  {[i \in DOMAIN v |-> ViewRow(IF i < 3 THEN 3 - i ELSE i, 1, 1, 1, TRUE, v[i])] :
     v \in UNION {[1..n -> {0, 1}] : n \in 0..7}}

(***************************************************************************)
(* Attempts with up to three tests: clear and weak names of either axis,   *)
(* of both, integers, halves and zero, results marked unreliable.          *)
(***************************************************************************)
CoordinateTest(tokens, letters, value, reliable) ==
  [kind |-> "PTR", name |-> [tokens |-> tokens, letters |-> letters], value |-> value,
   finite |-> TRUE, reliable |-> reliable]
CoordinateTests ==
  {CoordinateTest({"x"}, {"x"}, 6, TRUE), CoordinateTest({"x"}, {"x", "y"}, 8, TRUE), CoordinateTest({"x"}, {"x"}, 6, FALSE),
   CoordinateTest({}, {"x"}, 4, TRUE), CoordinateTest({"x"}, {"x"}, 0, TRUE),
   CoordinateTest({}, {"y"}, 4, TRUE), CoordinateTest({}, {"x", "y"}, 4, TRUE),
   CoordinateTest({"y"}, {"y"}, 6, TRUE), CoordinateTest({"y"}, {"y"}, 5, TRUE), CoordinateTest({"x", "y"}, {"x", "y"}, 6, TRUE),
   [CoordinateTest({"y"}, {"y"}, 6, TRUE) EXCEPT !.kind = "MPR"],
   [CoordinateTest({"x"}, {"x"}, 0, TRUE) EXCEPT !.finite = FALSE],
   [CoordinateTest({}, {}, 4, TRUE) EXCEPT !.name = None]}
SmallIdentified ==
  {[wafer |-> p[1], lot |-> p[2], x |-> p[3], y |-> p[4], ambiguous |-> FALSE, tests |-> list] :
     p \in {<<w1, "lot1", 3, 5>>, <<w1, "lot1", 3, 0>>, <<w2, "lot1", 3, 5>>, <<None, NoLot, None, -1>>},
     list \in BoundedSeq(CoordinateTests, 3)}

(***************************************************************************)
(* Tests of one number: every request, limits that are odd, texts, short   *)
(* tests and tests that are cut.                                           *)
(***************************************************************************)
WireOf(record, opt, lo, text, spec) ==
  IF record = "PTR" THEN <<1, opt, lo, text, spec>> ELSE <<1, opt, lo, 1, text, spec>>
WiresOf(record) ==
  {WireOf(record, opt, lo, "V", spec) :
     opt \in {{}, {"default_lo"}, {"no_lo"}, {"no_spec"}}, lo \in {1, NotFinite}, spec \in {1, 2}}
    \cup {WireOf(record, {}, 2, text, 1) : text \in {"", "NUL"}}
    \cup Prefixes(WireOf(record, {"no_lo"}, 1, "V", 1))
    \cup {Append(SubSeq(WireOf(record, {}, 1, "V", 1), 1, n), Cut) : n \in 1..3}
TestsOf(record) ==
  {[record |-> record, flag |-> FALSE, parm |-> FALSE, count |-> 1, wire |-> wire] :
     wire \in WiresOf(record)}
Plain == {t \in TestsOf("MPR") : Len(t.wire) < 3 \/ t.wire[2] = {}}
SmallDefinitions ==
  UNION {TupleOf(TestsOf(record), 2) : record \in {"PTR", "MPR"}} \cup TupleOf(Plain, 3)

SmallDigestLists == BoundedSeq({1, 2}, 4)
SmallFragmentLists == BoundedSeq(BoundedSeq({1, 2}, 2) \cup {<<2, 1, 2>>}, 2)

SmallParts == BoundedSeq([head : {1, 2}, site : {1, 2}, bin : {1, 2}], 3)
=============================================================================
