----------------------------- MODULE ViewerQuery ----------------------------
(***************************************************************************)
(* The viewer's answers (viewer/query.rs), and what it exports             *)
(* (viewer/web.rs), over the tables of one prepared file, which no query   *)
(* changes.                                                                *)
(*                                                                         *)
(* db is [measurements, devices, records, attempts, lookup, budget]: each  *)
(* table a list of fragments, which are lists of rows; attempts the device *)
(* rows by attempt; lookup the fragments of an attempt's measurements, by  *)
(* number (ViewerTables); budget what bounds an answer.  A query has the   *)
(* fields of Query, filters being a set of <<field, values>>.  Numbers are *)
(* integers, the sums behind means are left out.                           *)
(***************************************************************************)
EXTENDS Integers, Sequences, FiniteSets, SequencesExt

LOCAL INSTANCE FiniteSetsExt

CONSTANT None

Refused == [ok |-> FALSE]

valid(q) ==
  /\ q.population \in {"latest", "first", "all"}
  /\ q.table \in {"measurements", "devices", "records", "tests", "wafers", "hard_bin"}
  /\ q.limit <= 1000 /\ q.bins \in 1..1024
  /\ q.low_whisker >= 0 /\ q.low_whisker <= q.high_whisker /\ q.high_whisker <= 100

population(q, r) ==
  CASE q.population = "first" -> r.first = TRUE
    [] q.population = "latest" -> r.latest = TRUE
    [] OTHER -> TRUE

scope(q, r) ==
  /\ q.run \in {None, r.run}
  /\ q.wafer \in {None, r.wafer}
  /\ q.sites = {} \/ r.site \in q.sites
  /\ q.attempts = {} \/ r.attempt \in q.attempts
  /\ q.hard_bins = {} \/ (r.hard_bin # None /\ r.hard_bin \in q.hard_bins)

included(q, r, ofMeasurements) ==
  /\ population(q, r)
  /\ r.attempt \notin q.excluded_devices
  /\ ofMeasurements => r.id \notin q.excluded_measurements

matches(r, filters) == \A f \in filters : r[f[1]] \in f[2]

-----------------------------------------------------------------------------
(* Reading a table.  A fragment is skipped if its manifest entry shows no  *)
(* row of the query's run or tests, or the index names it for none of the  *)
(* query's attempts.                                                       *)

Skipped(db, table, tests, q, i) ==
  LET rows == db[table][i]
  IN \/ /\ table = "measurements" /\ q.attempts # {}
        /\ \A a \in q.attempts : a \notin DOMAIN db.lookup \/ i \notin db.lookup[a]
     \/ q.run # None /\ \A j \in DOMAIN rows : rows[j].run # q.run
     \/ tests # {} /\ \A j \in DOMAIN rows : rows[j].test \notin tests

scan_selected(db, table, tests, q) ==
  FlattenSeq([i \in DOMAIN db[table] |->
    IF Skipped(db, table, tests, q, i) THEN <<>>
    ELSE SelectSeq(db[table][i], LAMBDA r : q.run \in {None, r.run}
                                            /\ (tests = {} \/ r.test \in tests))])

\* A record row is shown with its attempt's place, bins and selection.
Joined(db, table, r) ==
  IF table # "records" \/ r.attempt = 0 THEN r
  ELSE LET a == db.attempts[r.attempt]
       IN [r EXCEPT !.site = a.site, !.wafer = a.wafer, !.hard_bin = a.hard_bin,
                    !.latest = a.latest, !.first = a.first]

TableOf(q) == IF q.table \in {"records", "devices"} THEN q.table ELSE "measurements"

\* The rows a query sees: for an analysis those that count, else the evidence, which for
\* devices and records is not reduced to a population.
visit(db, q, analysis) ==
  LET table == TableOf(q)
      ofMeasurements == table = "measurements"
      rows == scan_selected(db, table, IF ofMeasurements THEN q.tests ELSE {}, q)
      seen == [i \in DOMAIN rows |-> Joined(db, table, rows[i])]
      counts(r) == included(q, r, ofMeasurements) /\ (ofMeasurements => r.last_execution)
  IN SelectSeq(seen, LAMBDA r :
       /\ scope(q, r)
       /\ analysis => counts(r)
       /\ ~analysis /\ ofMeasurements => population(q, r))

display(q, r) == matches(r, q.filters)

-----------------------------------------------------------------------------
(* Pages.                                                                  *)

\* Numbers compare as numbers; a null, whose key is a text, is between the negative
\* numbers and the others.
Key(q, r) ==
  CASE q.sort = "" -> r.record
    [] q.sort # "" /\ r[q.sort] = None -> -1
    [] OTHER -> 2 * r[q.sort]

SortedBefore(q, a, b) ==
  IF Key(q, a) = Key(q, b) THEN a.id < b.id
  ELSE IF q.descending THEN Key(q, a) > Key(q, b) ELSE Key(q, a) < Key(q, b)

Mark(q, r) ==
  LET failed == r.passed = FALSE
      excluded == IF q.table = "devices" THEN r.id \in q.excluded_devices
                  ELSE r.id \in q.excluded_measurements
      alert == q.alerts # {} /\ matches(r, q.alerts)
      marked == CASE q.annotation = "failure" -> failed
                  [] q.annotation = "alarm" -> r.alarm
                  [] q.annotation = "exclusion" -> excluded
                  [] q.annotation = "alert" -> alert
                  [] OTHER -> failed \/ r.alarm \/ excluded \/ alert
  IN marked

\* What rows keeps of a query for all its pages; sum and missing are of the timing pane.
Snapshot(db, q) ==
  LET timing == q.plot = "timing"
      seen == SelectSeq(visit(db, q, FALSE), LAMBDA r : timing => included(q, r, FALSE))
      counted == SelectSeq(seen, LAMBDA r : included(q, r, q.table = "measurements"))
      timed == IF timing THEN SelectSeq(seen, LAMBDA r : r.duration # None) ELSE <<>>
      shown == SortSeq(SelectSeq(seen, LAMBDA r : display(q, r)),
                       LAMBDA a, b : SortedBefore(q, a, b))
  IN [rows |-> shown, marks |-> [i \in DOMAIN shown |-> Mark(q, shown[i])],
      total |-> Len(shown), included |-> Len(counted), timed |-> Len(timed),
      missing |-> IF timing THEN Len(counted) - Len(timed) ELSE 0]

\* The page at an offset, and the offsets of the marked rows next to it; offsets count
\* from 0.
page(snapshot, offset, limit) ==
  LET marked == {i - 1 : i \in {j \in DOMAIN snapshot.marks : snapshot.marks[j]}}
      after == {i \in marked : i > offset}
      before == {i \in marked : i < offset}
  IN [rows |-> SubSeq(snapshot.rows, offset + 1, Min({offset + limit, snapshot.total})),
      next |-> IF after = {} THEN None ELSE Min(after),
      previous |-> IF before = {} THEN None ELSE Max(before)]

\* summaries: one row per test, wafer or bin.  The budget is looked at before each row,
\* so it refuses the first row after the group that exceeds it.
GroupKey(q, r) ==
  CASE q.table = "wafers" -> r.wafer [] q.table = "hard_bin" -> r.hard_bin [] OTHER -> r.test

NoGroup == [count |-> 0, pass |-> 0, fail |-> 0, unknown |-> 0, numeric |-> 0, min |-> None,
            max |-> None]

Verdict(passed) == CASE passed = TRUE -> "pass" [] passed = FALSE -> "fail" [] OTHER -> "unknown"

Lower(a, b) == IF a = None \/ b < a THEN b ELSE a
Higher(a, b) == IF a = None \/ b > a THEN b ELSE a

Into(groups, key, r) ==
  LET g == IF key \in DOMAIN groups THEN groups[key] ELSE NoGroup
      judged == [g EXCEPT !.count = @ + 1, ![Verdict(r.passed)] = @ + 1]
      measured == IF r.value = None THEN judged
                  ELSE [judged EXCEPT !.numeric = @ + 1, !.min = Lower(@, r.value),
                                      !.max = Higher(@, r.value)]
  IN [k \in DOMAIN groups \cup {key} |-> IF k = key THEN measured ELSE groups[k]]

summaries(db, q) ==
  LET input == [q EXCEPT !.table = IF q.table = "tests" THEN "measurements" ELSE "devices",
                         !.tests = {}]
      row(acc, r) ==
        CASE ~acc.ok -> acc
          [] acc.ok /\ Cardinality(DOMAIN acc.groups) > db.budget.groups -> Refused
          [] OTHER -> [acc EXCEPT !.groups = Into(@, GroupKey(q, r), r)]
  IN FoldLeft(row, [ok |-> TRUE, groups |-> [k \in {} |-> NoGroup]], visit(db, input, TRUE))

-----------------------------------------------------------------------------
(* Series: one per test, unit and, if so coloured, site.                   *)

SeriesKey(q, r) == <<r.test, IF q.color = "site" THEN r.site ELSE None, r.units>>

\* The rows of each series, in the order they are visited; the limit is looked at
\* before a new series is added.
SeriesRows(db, q) ==
  LET rows == visit(db, [q EXCEPT !.table = "measurements", !.filters = {}], TRUE)
      keys == {SeriesKey(q, rows[i]) : i \in DOMAIN rows}
  IN IF Cardinality(keys) > db.budget.series + 1 THEN Refused
     ELSE [ok |-> TRUE, rows |-> [k \in keys |-> SelectSeq(rows, LAMBDA r : SeriesKey(q, r) = k)]]

Valued(rows) == SelectSeq(rows, LAMBDA r : r.value # None)
ByValue(rows) == SortSeq(Valued(rows), LAMBDA a, b : a.value < b.value)
InOrder(a, b) == a.record < b.record \/ (a.record = b.record /\ a.id < b.id)

\* The bin of a value, the bounds being those of all series of its unit.
BinOf(q, v, low, high) ==
  IF low = high THEN Min({q.bins \div 2, q.bins - 1})
  ELSE Min({((v - low) * q.bins) \div (high - low), q.bins - 1})

histogram(q, sorted, low, high) ==
  [b \in 0..q.bins - 1 |->
     Cardinality({i \in DOMAIN sorted : BinOf(q, sorted[i].value, low, high) = b})]

\* The quantiles, times 100: each sorted value adds its share to those it is next to.
Share(i, count, percent) ==
  LET rank == (count - 1) * percent
      floor == rank \div 100
      fraction == rank % 100
  IN CASE i = floor -> 100 - fraction [] i = floor + 1 /\ fraction # 0 -> fraction [] OTHER -> 0

quantile(sorted, percent) ==
  FoldLeft(LAMBDA sum, i : sum + sorted[i].value * Share(i - 1, Len(sorted), percent),
           0, [i \in DOMAIN sorted |-> i])

CeilDiv(a, b) == (a + b - 1) \div b
PointLimit(db, series) == Max({3, Min({2000, db.budget.points \div Max({1, series})})})

\* The i-th smallest value into the distribution; probabilities are numbers of values.
CdfStep(acc, v, i, count, limit) ==
  CASE acc # <<>> /\ Last(acc).value = v -> [acc EXCEPT ![Len(acc)].probability = i]
    [] (acc = <<>> \/ Last(acc).value # v)
       /\ ((i - 1) % Max({1, CeilDiv(count, limit)}) = 0 \/ i = count) ->
         Append(acc, [value |-> v, probability |-> i])
    [] OTHER -> acc

cdf(sorted, limit) ==
  FoldLeft(LAMBDA acc, i : CdfStep(acc, sorted[i].value, i, Len(sorted), limit),
           <<>>, [i \in DOMAIN sorted |-> i])

\* Every so many valued rows as visited, and the first and the last in file order.
points(rows, limit) ==
  LET valued == Valued(rows)
      stride == Max({1, CeilDiv(Len(valued), limit - 2)})
      taken == {valued[i] : i \in {j \in DOMAIN valued : (j - 1) % stride = 0}}
      ends == {r \in ToSet(valued) : \/ \A s \in ToSet(valued) : ~InOrder(s, r)
                                     \/ \A s \in ToSet(valued) : ~InOrder(r, s)}
  IN SetToSortSeq(taken \cup ends, InOrder)

\* Stats: rows without a value are counted by why they have none.
StateCount(rows, state) ==
  Len(SelectSeq(rows, LAMBDA r : r.value = None /\ r.value_state = state))

VariableLimits(rows) ==
  \E i \in DOMAIN Valued(rows) : Valued(rows)[i].limits # Valued(rows)[1].limits

\* What is shown of one series: its rows, those of a value sorted, the points of them, and
\* the bounds of its unit.
Stats(q, rows, sorted, shown, limit, low, high) ==
  [count |-> Len(sorted), missing |-> StateCount(rows, "missing"),
   nonfinite |-> StateCount(rows, "nonfinite"),
   not_numeric |-> StateCount(rows, "not_numeric"),
   invalid |-> Len(rows) - Len(sorted)
     - StateCount(rows, "missing") - StateCount(rows, "nonfinite")
     - StateCount(rows, "not_numeric"),
   variable_limits |-> VariableLimits(rows),
   histogram |-> IF sorted = <<>> THEN <<>> ELSE histogram(q, sorted, low, high),
   quantiles |-> IF sorted = <<>> THEN <<>>
     ELSE [p \in {q.low_whisker, 25, 50, 75, q.high_whisker} |-> quantile(sorted, p)],
   cdf |-> cdf(sorted, limit), points |-> shown,
   sampled |-> Len(sorted) > Len(shown)]

\* The series of a query, those of one unit having the same bounds.
StatsOf(q, rows, limit) ==
  LET ofUnit(u) == {r.value : r \in UNION {ToSet(Valued(rows[k])) : k \in {l \in DOMAIN rows : l[3] = u}}}
  IN [k \in DOMAIN rows |->
        Stats(q, rows[k], ByValue(rows[k]), points(rows[k], limit), limit,
              Min(ofUnit(k[3])), Max(ofUnit(k[3])))]

Series(db, q) ==
  LET found == SeriesRows(db, q)
      limit == PointLimit(db, Cardinality(DOMAIN found.rows))
  IN IF found.ok THEN [ok |-> TRUE, series |-> StatsOf(q, found.rows, limit), limit |-> limit]
     ELSE Refused

-----------------------------------------------------------------------------
(* Other plots.                                                            *)

\* scatter: of each attempt the last valued record of either test, if it has both.
LastOf(rows, attempt, test) ==
  LET of == {i \in DOMAIN rows : rows[i].attempt = attempt /\ rows[i].test = test}
  IN IF of = {} THEN None
     ELSE rows[CHOOSE i \in of : \A j \in of : rows[j].record < rows[i].record
                                   \/ (rows[j].record = rows[i].record /\ j <= i)]

scatter(db, q, x, y) ==
  LET rows == Valued(visit(db, [q EXCEPT !.table = "measurements", !.tests = {x, y}], TRUE))
      attempts == {rows[i].attempt : i \in DOMAIN rows}
      paired == {a \in attempts : LastOf(rows, a, x) # None /\ LastOf(rows, a, y) # None}
  IN [points |-> [a \in paired |-> <<LastOf(rows, a, x), LastOf(rows, a, y)>>],
      count |-> Cardinality(paired), unpaired |-> Cardinality(attempts \ paired)]

\* pareto: one verdict per label and attempt, failing if any row fails.
ParetoLabel(q, r) ==
  CASE q.level = "hard_bin" -> r.hard_bin [] q.level = "pattern" -> r.pattern [] OTHER -> r.test

WorstOf(a, b) ==
  CASE a = FALSE \/ b = FALSE -> FALSE [] a = TRUE /\ b = TRUE -> TRUE [] OTHER -> None

\* The counts of a label, given the verdict of every label and attempt.
ModeOf(verdicts, label, bins) ==
  LET of == {k \in DOMAIN verdicts : k[1] = label}
      with(v) == Cardinality({k \in of : Verdict(verdicts[k]) = v})
  IN [pass |-> with("pass"), fail |-> with("fail"), unknown |-> with("unknown"),
      count |-> IF bins THEN Cardinality(of) ELSE with("fail")]

KeptMode(q, bins, mode) ==
  IF bins THEN q.show_pass \/ mode.fail + mode.unknown # 0 ELSE mode.count # 0

Modes(q, verdicts, bins) ==
  LET modes == [label \in {k[1] : k \in DOMAIN verdicts} |-> ModeOf(verdicts, label, bins)]
  IN [label \in {l \in DOMAIN modes : KeptMode(q, bins, modes[l])} |-> modes[label]]

VerdictsOf(q, rows) ==
  LET of(k) == SelectSeq(rows, LAMBDA r : <<ParetoLabel(q, r), r.attempt>> = k)
  IN [k \in {<<ParetoLabel(q, rows[i]), rows[i].attempt>> : i \in DOMAIN rows} |->
        FoldLeft(LAMBDA v, r : WorstOf(v, r.passed), of(k)[1].passed, of(k))]

pareto(db, q) ==
  LET bins == q.level = "hard_bin"
      all == visit(db, [q EXCEPT !.table = IF bins THEN "devices" ELSE "measurements"], TRUE)
      rows == SelectSeq(all, LAMBDA r : /\ ~bins => r.channel = None
                                        /\ q.level = "pattern" => r.kind = "FTR")
  IN Modes(q, VerdictsOf(q, rows), bins)

\* map: the rows that have a place on a wafer.
map(db, q) ==
  LET rows == visit(db, [q EXCEPT !.table = IF q.plot = "binmap" THEN "devices"
                                            ELSE "measurements"], TRUE)
      placed(r) == r.x # None /\ r.y # None /\ r.wafer # None
  IN [cells |-> SelectSeq(rows, placed),
      missing_coordinates |-> Len(SelectSeq(rows, LAMBDA r : ~placed(r)))]

\* plot: how many rows the answer counts, and how many of the population it excludes.
PlotTable(q) ==
  IF q.plot = "binmap" \/ (q.plot = "pareto" /\ q.level = "hard_bin") THEN "devices"
  ELSE "measurements"

PlotCounts(db, q) ==
  LET input == [q EXCEPT !.table = PlotTable(q)]
      rows == SelectSeq(visit(db, input, FALSE), LAMBDA r :
                /\ population(input, r)
                /\ input.table = "devices" \/ r.last_execution)
      counts(r) == included(input, r, input.table = "measurements")
  IN [included |-> Len(SelectSeq(rows, counts)),
      excluded |-> Len(SelectSeq(rows, LAMBDA r : ~counts(r)))]

\* all_rows and distinct: the displayed rows for an export, and the values of a column
\* under every filter but its own.
all_rows(db, q) == SelectSeq(visit(db, q, FALSE), LAMBDA r : display(q, r))

distinct(db, q, key) ==
  LET rows == all_rows(db, [q EXCEPT !.filters = {f \in @ : f[1] # key}])
  IN [v \in {rows[i][key] : i \in DOMAIN rows} |->
        Len(SelectSeq(rows, LAMBDA r : r[key] = v))]

-----------------------------------------------------------------------------
(* The file for others: one page that holds what a query selects, for a    *)
(* browser without the server (viewer/web.rs, export_layout).  Every row,  *)
(* device, record and summary row takes one unit of the limit.             *)

Selection(q) == [q EXCEPT !.table = "measurements", !.filters = {}]

\* Added while there is room: the size is looked at after every item.
Attached(found, size, limit) ==
  IF found # <<>> /\ size + Len(found) > limit THEN Refused
  ELSE [ok |-> TRUE, size |-> size + Len(found)]

\* The devices of the population, whatever tests the query names.
Devices(db, q) ==
  LET input == [Selection(q) EXCEPT !.table = "devices", !.tests = {}]
  IN SelectSeq(visit(db, input, FALSE), LAMBDA r : population(q, r))

\* Their records, and those that are of no attempt but of their runs or of the file.
Evidence(db, q, devices) ==
  LET ids == {d.id : d \in ToSet(devices)}
      runs == {d.run : d \in ToSet(devices)}
  IN SelectSeq(scan_selected(db, "records", {}, q), LAMBDA r :
       r.attempt \in ids \/ (r.attempt = 0 /\ r.run \in runs \cup {0}))

\* All three, or nothing.
Document(rows, devices, evidence, limit) ==
  LET withRows == Attached(rows, 0, limit \div 2)
      withDevices == IF withRows.ok THEN Attached(devices, withRows.size, limit) ELSE Refused
      whole == IF withDevices.ok THEN Attached(evidence, withDevices.size, limit) ELSE Refused
  IN IF whole.ok THEN [ok |-> TRUE, rows |-> rows, devices |-> devices, evidence |-> evidence]
     ELSE Refused

export_selection(db, q, limit) ==
  LET devices == Devices(db, q)
  IN Document(all_rows(db, Selection(q)), devices, Evidence(db, q, devices), limit)

\* The summaries are fetched page by page until the total of the page is reached.
SummaryPage(keys, offset, size) ==
  [rows |-> SubSeq(keys, offset + 1, Min({offset + size, Len(keys)})), total |-> Len(keys)]

Fetched(acc, answered, n, limit, size) ==
  LET all == acc.rows \o answered.rows
  IN CASE acc.done \/ ~acc.ok -> acc
       [] ~acc.done /\ acc.ok /\ Len(all) > limit \div 2 -> [acc EXCEPT !.ok = FALSE]
       [] OTHER -> [ok |-> TRUE, rows |-> all, done |-> n * size >= answered.total]

Fetch(groups, limit, size) ==
  LET keys == IF groups.ok THEN SetToSortSeq(DOMAIN groups.groups, <) ELSE <<>>
  IN FoldLeft(LAMBDA acc, n : Fetched(acc, SummaryPage(keys, (n - 1) * size, size), n, limit, size),
              [ok |-> groups.ok, rows |-> <<>>, done |-> FALSE], [n \in 1..limit + 1 |-> n])

export_summary(db, q, limit, size) ==
  Fetch(summaries(db, [q EXCEPT !.table = "tests"]), limit, size)
=============================================================================
