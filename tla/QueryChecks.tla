----------------------------- MODULE QueryChecks ----------------------------
(***************************************************************************)
(* What the viewer shows of one prepared file: every answer is a count, a  *)
(* page or a picture of the same rows, made by its own code.               *)
(***************************************************************************)
EXTENDS ReportChecks

CONSTANTS
  Databases,    \* prepared files (ViewerQuery)
  Queries,      \* what is asked of them
  Curves        \* lists of rows of one series

Viewer == INSTANCE ViewerQuery

AllRows(db, table) == FlattenSeq(db[table])
Total(parts, Of(_)) == Sum(LAMBDA k : Of(parts[k]), DOMAIN parts)

\* No fragment is skipped that holds a row of the query.
ScanComplete(db, q) ==
  LET table == Viewer!TableOf(q)
      wanted(r) == LET shown == Viewer!Joined(db, table, r)
                   IN /\ Viewer!scope(q, shown)
                      /\ table = "measurements" =>
                           Viewer!population(q, r) /\ (q.tests = {} \/ r.test \in q.tests)
  IN [i \in DOMAIN Viewer!visit(db, q, FALSE) |-> Viewer!visit(db, q, FALSE)[i].id] =
       [i \in DOMAIN SelectSeq(AllRows(db, table), wanted) |->
          SelectSeq(AllRows(db, table), wanted)[i].id]

\* The pages of a query are its displayed rows, and the annotations between them can be
\* walked in both directions.
PagesWalk(db, q) ==
  LET s == Viewer!Snapshot(db, q)
      at(offset) == Viewer!page(s, offset, 2)
      pages == (s.total + 1) \div 2
  IN /\ FlattenSeq([p \in 1..pages |-> at(2 * (p - 1)).rows]) = s.rows
     /\ \A i, j \in DOMAIN s.rows : i < j => ~Viewer!SortedBefore(q, s.rows[j], s.rows[i])
     /\ q.plot # "timing" => ToSet(s.rows) = ToSet(Viewer!all_rows(db, q))
     /\ \A o \in 0..s.total : LET next == at(o).next
                              IN next # None => /\ next \in o + 1..s.total - 1
                                                /\ s.marks[next + 1]
                                                /\ at(next).previous \in {None} \cup 0..o
                                                /\ o > 0 /\ s.marks[o + 1] => at(next).previous = o
     /\ q.plot = "timing" /\ q.table # "measurements" =>
          s.missing = Cardinality({r \in ToSet(Viewer!visit(db, q, FALSE)) :
                                     Viewer!included(q, r, FALSE) /\ r.duration = None})

\* A column offers each value as often as a filter on it shows rows.
ColumnsCounted(db, q) ==
  \A key \in {"site", "hard_bin"} :
    LET values == Viewer!distinct(db, q, key)
        others == {f \in q.filters : f[1] # key}
    IN \A v \in DOMAIN values :
         values[v] = Len(Viewer!all_rows(db, [q EXCEPT !.filters = others \cup {<<key, {v}>>}]))

\* Every row an analysis takes is in one series, in one bin of its histogram or in one
\* class of rows without a value; quantiles are ordered and within the values.
SeriesSound(s) ==
  s.count > 0 =>
    /\ Total(s.histogram, LAMBDA n : n) = s.count
    /\ \A p, r \in DOMAIN s.quantiles : p <= r => s.quantiles[p] <= s.quantiles[r]
    /\ \A p \in DOMAIN s.quantiles : /\ 100 * s.cdf[1].value <= s.quantiles[p]
                                     /\ s.quantiles[p] <= 100 * Last(s.cdf).value

AllInSeries(found, included) ==
  found.ok =>
    /\ Total(found.series, LAMBDA s : s.count + s.missing + s.nonfinite + s.not_numeric
                                        + s.invalid) = included
    /\ \A k \in DOMAIN found.series : SeriesSound(found.series[k])

SeriesAddUp(db, q) ==
  AllInSeries(Viewer!Series(db, q),
              Viewer!PlotCounts(db, [q EXCEPT !.plot = "histogram"]).included)

\* A curve is thinned, never bent: what is shown of the distribution is exact, the first
\* and the last row are among the points, and there are no more than allowed.
CurveExact(rows, limit) ==
  LET valued == ToSet(Viewer!Valued(rows))
      curve == Viewer!cdf(Viewer!ByValue(rows), limit)
      shown == Viewer!points(rows, limit)
  IN /\ \A c \in ToSet(curve) :
          c.probability = Cardinality({r \in valued : r.value <= c.value})
     /\ valued # {} => /\ Last(curve).probability = Cardinality(valued)
                       /\ \A r \in valued : Viewer!InOrder(shown[1], r) \/ r = shown[1]
                       /\ \A r \in valued : Viewer!InOrder(r, Last(shown)) \/ r = Last(shown)
     /\ Len(shown) <= limit

\* Bins, maps, pairs and summaries count the rows and attempts the same query includes.
CountsSplit(counts, all) == counts.included + counts.excluded = all.included

BinsAddUp(bins, binmap, binCounts, mapCounts) ==
  /\ Total(bins, LAMBDA m : m.count) = binCounts.included
  /\ \A l \in DOMAIN bins : bins[l].count = bins[l].pass + bins[l].fail + bins[l].unknown
  /\ Len(binmap.cells) + binmap.missing_coordinates = mapCounts.included

FailuresAddUp(modes, analysed) ==
  Total(modes, LAMBDA m : m.fail) =
    Cardinality({<<r.test, r.attempt>> :
                   r \in {s \in ToSet(analysed) : s.passed = FALSE /\ s.channel = None}})

PairsAddUp(pairs, rows) ==
  pairs.count + pairs.unpaired =
    Cardinality({r.attempt : r \in {s \in ToSet(rows) : s.value # None}})

SummaryAddsUp(summary, counts) ==
  summary.ok => Total(summary.groups, LAMBDA g : g.count) = counts.included

PlotsAddUp(db, q) ==
  LET counts(plot, level) == Viewer!PlotCounts(db, [q EXCEPT !.plot = plot, !.level = level])
      all(plot) == Viewer!PlotCounts(db, [q EXCEPT !.plot = plot, !.excluded_devices = {},
                                                   !.excluded_measurements = {}])
      of(asked) == Viewer!visit(db, [q EXCEPT !.table = "measurements", !.tests = asked], TRUE)
  IN /\ \A plot \in {"histogram", "binmap"} : CountsSplit(counts(plot, q.level), all(plot))
     /\ BinsAddUp(Viewer!pareto(db, [q EXCEPT !.level = "hard_bin", !.show_pass = TRUE]),
                  Viewer!map(db, [q EXCEPT !.plot = "binmap"]),
                  counts("pareto", "hard_bin"), counts("binmap", "test"))
     /\ FailuresAddUp(Viewer!pareto(db, [q EXCEPT !.level = "test"]), of(q.tests))
     /\ PairsAddUp(Viewer!scatter(db, q, 1, 2), of({1, 2}))
     /\ \A table \in {"wafers", "hard_bin"} :
          SummaryAddsUp(Viewer!summaries(db, [q EXCEPT !.table = table]), counts("binmap", "test"))
     /\ SummaryAddsUp(Viewer!summaries(db, [q EXCEPT !.table = "tests"]),
                      Viewer!PlotCounts(db, [q EXCEPT !.tests = {}, !.plot = "histogram"]))

ExportComplete(db, q, whole) ==
  LET devices == {d.id : d \in ToSet(whole.devices)}
      described == {e.id : e \in ToSet(whole.evidence)}
  IN /\ whole.ok
     /\ whole.rows = Viewer!all_rows(db, [q EXCEPT !.table = "measurements", !.filters = {}])
     /\ \A r \in ToSet(whole.rows) : r.attempt \in devices /\ r.record \in described
     /\ \A r \in ToSet(AllRows(db, "records")) :
          \/ r.attempt \in devices
          \/ r.attempt = 0 /\ r.run \in {d.run : d \in ToSet(whole.devices)}
          \/ r.run = 0 /\ q.run = None
          => r.id \in described

Unshortened(answer, whole) == answer.ok => answer = whole

SummaryWhole(answer, tested) == answer.ok => ToSet(answer.rows) = DOMAIN tested

\* A page for others shows what the viewer shows: the rows, the devices they are of and
\* what the file says of those devices; a smaller attachment limit refuses it, never
\* shortens it.  Records of no run are there unless the query names a run.
ExportsWhole(db, q) ==
  LET export(limit) == Viewer!export_selection(db, q, limit)
  IN /\ ExportComplete(db, q, export(100))
     /\ \A limit \in {2, 9, 13, 17} :
          /\ Unshortened(export(limit), export(100))
          /\ SummaryWhole(Viewer!export_summary(db, q, limit, 1),
                          Viewer!summaries(db, [q EXCEPT !.table = "tests"]).groups)

\* The totals of all reports are those of the rows they are made of (ReportTotals), and
\* so are the viewer's: its pages, columns, series, distributions, bins, maps, pairs,
\* summaries and exports are of the same rows, whichever fragments hold them, each once.
TotalsAddUp ==
  /\ ReportTotals
  /\ AtStart =>
       /\ \A db \in Databases, q \in Queries :
            /\ ScanComplete(db, q) /\ PagesWalk(db, q) /\ ColumnsCounted(db, q)
            /\ SeriesAddUp(db, q) /\ PlotsAddUp(db, q) /\ ExportsWhole(db, q)
       /\ \A rows \in Curves, limit \in 3..4 : CurveExact(rows, limit)
=============================================================================
