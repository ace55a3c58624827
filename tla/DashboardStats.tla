--------------------------- MODULE DashboardStats ---------------------------
(***************************************************************************)
(* The dashboard of a Parquet file or a managed dataset (dashboard.rs,     *)
(* dashboard/dataset.rs): one pass over the rows, all of them into one     *)
(* accumulator and those of each lot into another, within limits on lots,  *)
(* parts and memory.                                                       *)
(*                                                                         *)
(* A row is [source, part, key, lot, wafer, site, bin, xy, part_pass,      *)
(* test, verdict, result, lo, hi]: key is the coordinate identity of its   *)
(* part or None, verdict "pass", "fail" or None, result and the limits an  *)
(* integer or None, test a number that orders as its label does.           *)
(* Floating-point sums are exact sums here; labels are the values they     *)
(* print, and text, units and times are left out.                          *)
(***************************************************************************)
EXTENDS Integers, Sequences, FiniteSets, FiniteSetsExt, SequencesExt, TLC

CONSTANT None    \* an Option that has no value

Known(v) == v # None

Bump(f, k) == [x \in DOMAIN f \cup {k} |-> (IF x \in DOMAIN f THEN f[x] ELSE 0)
                                           + (IF x = k THEN 1 ELSE 0)]
Lookup(f, k, default) == IF k \in DOMAIN f THEN f[k] ELSE default
Nothing == [x \in {} |-> 0]

OutOfLimits(row) ==
  Known(row.result) /\ \/ Known(row.lo) /\ row.result < row.lo
                       \/ Known(row.hi) /\ row.result > row.hi

is_failure(row) == row.verdict = "fail" \/ OutOfLimits(row)

\* A resolved part is the same in every file; an unresolved one is its source's alone.
scoped_part_key(row) == IF Known(row.key) THEN row.key ELSE <<row.source, row.part>>

-----------------------------------------------------------------------------
(* One test.                                                               *)

NewTest(row) ==
  [total |-> 0, pass |-> 0, fail |-> 0, unknown |-> 0, limit_fail |-> 0, count |-> 0,
   sum |-> 0, sum_sq |-> 0, lo |-> row.lo, hi |-> row.hi]

One(condition) == IF condition THEN 1 ELSE 0

PushTest(t, row) ==
  LET value == IF Known(row.result) THEN row.result ELSE 0
  IN [total |-> t.total + 1,
      pass |-> t.pass + One(row.verdict = "pass"),
      fail |-> t.fail + One(row.verdict = "fail"),
      unknown |-> t.unknown + One(~Known(row.verdict)),
      limit_fail |-> t.limit_fail + One(OutOfLimits(row)),
      count |-> t.count + One(Known(row.result)),
      sum |-> t.sum + value,
      sum_sq |-> t.sum_sq + value * value,
      lo |-> IF Known(t.lo) THEN t.lo ELSE row.lo,
      hi |-> IF Known(t.hi) THEN t.hi ELSE row.hi]

\* count * (count - 1) times the variance, which the code clamps at 0.
Spread(t) == t.count * t.sum_sq - t.sum * t.sum
Varies(t) == t.count > 1 /\ Spread(t) > 0

-----------------------------------------------------------------------------
(* All rows of a scope.                                                    *)

NewAccumulator ==
  [row_count |-> 0, parts |-> Nothing, tests |-> Nothing, lots |-> {}, wafers |-> {},
   commonality |-> Nothing, part_results |-> Nothing, heatmap |-> Nothing,
   quality |-> Nothing]

\* Mutant: the verdict of a part is that of its last row.
PartOfLast(parts, row) ==
  [wafer |-> row.wafer, site |-> row.site, bin |-> row.bin, pass |-> row.part_pass]

\* A part keeps the place and bins of its first row and passes if all rows do.
PartOf(parts, row) ==
  LET key == scoped_part_key(row)
  IN IF key \in DOMAIN parts
     THEN [parts[key] EXCEPT !.pass = @ /\ row.part_pass]
     ELSE [wafer |-> row.wafer, site |-> row.site, bin |-> row.bin, pass |-> row.part_pass]

\* Where a failing row is counted.
Dimensions(row) ==
  {<<"test", row.test>>, <<"wafer", row.wafer>>, <<"site", row.site>>, <<"bin", row.bin>>,
   <<"test_site", row.test, row.site>>, <<"test_bin", row.test, row.bin>>}

\* What a row lacks.
Gaps(row) ==
  {f \in {"key", "wafer", "xy", "verdict", "result"} : ~Known(row[f])}
    \cup (IF Known(row.lo) /\ Known(row.hi) THEN {} ELSE {"limits"})

push_scoped(a, row) ==
  LET key == scoped_part_key(row)
      results == Lookup(a.part_results, key, Nothing)
      point == Lookup(a.heatmap, row.xy, [total |-> 0, fail |-> 0])
  IN [row_count |-> a.row_count + 1,
      parts |-> (key :> PartOf(a.parts, row)) @@ a.parts,
      tests |-> (row.test :> PushTest(Lookup(a.tests, row.test, NewTest(row)), row)) @@ a.tests,
      lots |-> a.lots \cup {row.lot},
      wafers |-> a.wafers \cup ({row.wafer} \ {None}),
      commonality |-> IF is_failure(row)
                      THEN FoldSet(LAMBDA d, f : Bump(f, d), a.commonality, Dimensions(row))
                      ELSE a.commonality,
      part_results |-> IF Known(row.result)
                       THEN (key :> (results @@ (row.test :> row.result))) @@ a.part_results
                       ELSE a.part_results,
      heatmap |-> IF Known(row.xy)
                  THEN (row.xy :> [total |-> point.total + 1,
                                   fail |-> point.fail + One(is_failure(row))]) @@ a.heatmap
                  ELSE a.heatmap,
      quality |-> FoldSet(LAMBDA g, f : Bump(f, g), a.quality, Gaps(row))]

\* Group totals of parts by a field of theirs.
grouped_part_yield(parts, field) ==
  [label \in {parts[k][field] : k \in DOMAIN parts} |->
     LET of == {k \in DOMAIN parts : parts[k][field] = label}
     IN [total |-> Cardinality(of), pass |-> Cardinality({k \in of : parts[k].pass})]]

Kpis(a) ==
  [rows |-> a.row_count, parts |-> Cardinality(DOMAIN a.parts),
   passed |-> Cardinality({k \in DOMAIN a.parts : a.parts[k].pass}),
   tests |-> Cardinality(DOMAIN a.tests), lots |-> Cardinality(a.lots),
   wafers |-> Cardinality(a.wafers),
   sites |-> Cardinality({a.parts[k].site : k \in DOMAIN a.parts}),
   failing_tests |-> Cardinality({t \in DOMAIN a.tests : a.tests[t].fail > 0})]

\* The correlation of two tests over the parts that have both, as numerator and the
\* two factors under the root; Undefined without three parts or a spread in both.
Undefined == [n |-> 0, num |-> 0, x |-> 0, y |-> 0]

pearson(a, left, right) ==
  LET both == {k \in DOMAIN a.part_results : {left, right} \subseteq DOMAIN a.part_results[k]}
      n == Cardinality(both)
      total(f(_)) == MapThenSumSet(f, both)
      x(k) == a.part_results[k][left]
      y(k) == a.part_results[k][right]
      spread(v(_)) == n * total(LAMBDA k : v(k) * v(k)) - total(v) * total(v)
      num == n * total(LAMBDA k : x(k) * y(k)) - total(x) * total(y)
  IN IF n < 3 \/ spread(x) * spread(y) <= 0 THEN Undefined
     ELSE [n |-> n, num |-> num, x |-> spread(x), y |-> spread(y)]

\* The tests with most failures first; the report shows a prefix of them.
Worse(s, t, x, y) ==
  \/ s.fail > t.fail
  \/ s.fail = t.fail /\ s.limit_fail > t.limit_fail
  \/ s.fail = t.fail /\ s.limit_fail = t.limit_fail /\ s.total > t.total
  \/ s.fail = t.fail /\ s.limit_fail = t.limit_fail /\ s.total = t.total /\ x < y

Pareto(a) == SetToSortSeq(DOMAIN a.tests, LAMBDA x, y : Worse(a.tests[x], a.tests[y], x, y))

FirstOf(seq, n) == SubSeq(seq, 1, IF Len(seq) < n THEN Len(seq) ELSE n)

\* The correlation c is further from 0 than d, or as far and of more parts.
Stronger(c, d) ==
  LET left == c.num * c.num * (d.x * d.y)
      right == d.num * d.num * (c.x * c.y)
  IN left > right \/ (left = right /\ c.n > d.n)

MaxPairs == 60    \* what a report has room for

\* Correlations are computed between the worst tests that vary, two at least, and the
\* strongest of them reported; equally strong ones stay in the order of their tests.
Correlations(a, max_tests, max_pairs) ==
  LET varying == SelectSeq(Pareto(a), LAMBDA t : Varies(a.tests[t]))
      selected == FirstOf(varying, IF max_tests < 2 THEN 2 ELSE max_tests)
      pairs == {p \in (DOMAIN selected) \X (DOMAIN selected) :
                  p[1] < p[2] /\ pearson(a, selected[p[1]], selected[p[2]]) # Undefined}
      value(p) == pearson(a, selected[p[1]], selected[p[2]])
      earlier(p, q) == p[1] < q[1] \/ (p[1] = q[1] /\ p[2] < q[2])
      before(p, q) == \/ Stronger(value(p), value(q))
                      \/ ~Stronger(value(q), value(p)) /\ earlier(p, q)
      shown == FirstOf(SetToSortSeq(pairs, before), max_pairs)
  IN [i \in DOMAIN shown |-> [x |-> selected[shown[i][1]], y |-> selected[shown[i][2]],
                              value |-> value(shown[i])]]

-----------------------------------------------------------------------------
(* A dataset: every row is charged before it is counted, and a row that    *)
(* would be one too many ends the command.                                 *)

NewDashboard == [ok |-> TRUE, charged |-> 0, all |-> NewAccumulator, lots |-> Nothing]

\* limits is [lots, parts, rows], rows what the memory limit leaves room for.
Refuses(d, row, limits) ==
  \/ d.charged + 1 > limits.rows
  \/ row.lot \notin DOMAIN d.lots /\ Cardinality(DOMAIN d.lots) >= limits.lots
  \/ scoped_part_key(row) \notin DOMAIN d.all.parts
       /\ Cardinality(DOMAIN d.all.parts) >= limits.parts

DashboardRow(d, row, limits) ==
  IF ~d.ok THEN d
  ELSE IF Refuses(d, row, limits) THEN [d EXCEPT !.ok = FALSE]
  ELSE [ok |-> TRUE, charged |-> d.charged + 1,
        all |-> push_scoped(d.all, row),
        lots |-> (row.lot :> push_scoped(Lookup(d.lots, row.lot, NewAccumulator), row)) @@ d.lots]

generate_dataset_dashboard(rows, limits) ==
  FoldLeft(LAMBDA d, row : DashboardRow(d, row, limits), NewDashboard, rows)
=============================================================================
