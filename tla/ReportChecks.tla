---------------------------- MODULE ReportChecks ----------------------------
(***************************************************************************)
(* The reports made of what the readers of StreamReaders found: what they  *)
(* rest on before they judge anything, which device an attempt is of and   *)
(* what a test's fields are, and rules that several programs apply to the  *)
(* same attempts, each in its own code.  They are functions of bounded     *)
(* inputs, compared with each other and with a definition of what they are *)
(* meant to say; that needs one state, the initial one.                    *)
(***************************************************************************)
EXTENDS StreamReaders, FileChecks

CONSTANTS
  None,           \* an absent value
  PlainWafer, NoLot,
  Identified,     \* attempts as [wafer, lot, x, y, ambiguous, tests] (PartIdentity)
  NotFinite, Cut,
  Definitions,    \* lists of tests of one number (FieldDefaults)
  Histories,      \* lists of the attempts of one device (AttemptOrder)
  Flows, Cells,   \* test flows, and what was seen at their steps (AttemptOrder)
  Tables, Limits, \* lists of rows, and limits on them (DashboardStats)
  Inputs,         \* lists of files of functional test records (PatternCounts)
  BinnedParts     \* lists of parts as [head, site, bin] (Validator, bin totals)

Identity == INSTANCE PartIdentity
Fields == INSTANCE FieldDefaults
Order == INSTANCE AttemptOrder
Dash == INSTANCE DashboardStats
Patterns == INSTANCE PatternCounts

AtStart == Spent = 0 /\ ~ended

-----------------------------------------------------------------------------
(* Identity.                                                               *)

\* The value all tests agree on that name the axis most clearly.
AxisValue(list, axis) ==
  LET rank(t) == CASE t.kind # "PTR" \/ t.name = None -> 0
                   [] t.kind = "PTR" /\ t.name # None /\ t.name.tokens = {axis} -> 2
                   [] t.kind = "PTR" /\ t.name # None /\ t.name.tokens = {} /\ t.name.letters = {axis} -> 1
                   [] OTHER -> 0
      clearest == {t \in ToSet(list) : rank(t) > 0 /\ \A u \in ToSet(list) : rank(u) <= rank(t)}
      values == {Identity!positive_integer(t) : t \in clearest}
  IN IF Cardinality(values) = 1 THEN CHOOSE n \in values : TRUE ELSE None

DeviceOf(part) ==
  LET xy == <<AxisValue(part.tests, "x"), AxisValue(part.tests, "y")>>
      prr == <<part.x, part.y>>
      Whole(p) == p[1] # None /\ p[1] > 0 /\ p[2] # None /\ p[2] > 0
  IN CASE part.wafer \in PlainWafer /\ Whole(prr) -> <<"wafer-prr", part.wafer>> \o prr
       [] ~(part.wafer \in PlainWafer /\ Whole(prr)) /\ part.lot # NoLot /\ Whole(xy) ->
            <<"lot-ptr", part.lot>> \o xy
       [] OTHER -> None

\* An attempt's key is a pair of one kind, on which all its clearest names agree in any
\* order.  The rows, traceability and, unless it left a result out, the sanity report have
\* the same; the devices of the Pareto report and the viewer are at its coordinates, other
\* than where a wafer's odd name alone keeps the PRR's pair out of the key.
IdentitiesAgree ==
  \A part \in Identified :
    LET key == Identity!part_merge_key(part)
        device == Identity!ecid(part)
        odd == part.wafer \notin PlainWafer /\ Identity!Positive(part.x) /\ Identity!Positive(part.y)
    IN /\ key = DeviceOf(part)
       /\ Identity!part_merge_key([part EXCEPT !.tests = Reverse(@)]) = key
       /\ Identity!traced_key(part) = key
       /\ (\A t \in ToSet(part.tests) : t.reliable /\ t.finite) => Identity!sanity_key(part) = key
       /\ key # None /\ device # None /\ ~odd => <<key[3], key[4]>> = <<device[4], device[5]>>
       /\ part.lot # NoLot /\ ~part.ambiguous /\ key # None => device # None

-----------------------------------------------------------------------------
(* Fields.                                                                 *)

\* What a test of a list asks for, itself or by the first.
AskedBy(list, i) ==
  LET own == Fields!Flags(Fields!inspect(list[i]))
      first == Fields!Flags(Fields!inspect(list[1]))
  IN CASE own # None -> own [] own = None /\ first # None -> first [] OTHER -> {}

FieldInherited(list, shown, i, name) ==
  LET f == shown[i][name]
      first == shown[1][name]
      own == Fields!inspect(list[i])[name]
      whole == own.sound /\ own.presence \notin {"truncated", "unread"}
      silent == Fields!MissingOf(name)
  IN /\ f.raw = own.raw
     /\ f.status = "valid" => whole
     /\ f.status = "valid" /\ f.inherited => first.status = "valid" /\ f.effective = first.effective
     /\ f.status = "valid" /\ ~f.inherited => f.effective = own.raw \/ own.raw = "NUL"
     /\ name # "UNITS" /\ whole /\ f.status = "missing" /\ first.sound =>
          (AskedBy(list, i) \cup AskedBy(list, 1)) \cap silent # {}
     /\ whole /\ AskedBy(list, i) \cap silent # {} => f.status = "missing"

\* A test is completed from the first of its number and from nothing between: what is
\* shown of it depends on those two; a value is its own or the first's, never one read
\* from a damaged field; "no limit" is shown where one of the two says so; and all
\* specification limits that are shown as valid are the first's, if that one is.
LimitsInherited ==
  \A list \in Definitions :
    LET shown == Fields!Shown(list)
    IN \A i \in DOMAIN list :
         /\ i > 2 => shown[i] = Fields!Shown(<<list[1], list[i]>>)[2]
         /\ \A name \in {"LO_LIMIT", "UNITS", "LO_SPEC"} : FieldInherited(list, shown, i, name)
         /\ shown[1]["LO_SPEC"].status = "valid" /\ shown[i]["LO_SPEC"].status = "valid" =>
              shown[i]["LO_SPEC"].effective = shown[1]["LO_SPEC"].effective

-----------------------------------------------------------------------------
(* The latest attempt.                                                     *)

InIdOrder(h) == SortSeq(h, LAMBDA a, b : a.id < b.id)

SameRun(a, b) == a.source = b.source /\ a.run = b.run

\* The attempt at one end, where the starts of the runs tell.
EndOf(h, Beyond(_, _)) ==
  LET several == \E i, j \in DOMAIN h : ~SameRun(h[i], h[j])
      missing == \E i \in DOMAIN h : h[i].start = Order!NoTime
      extreme == {i \in DOMAIN h : \A j \in DOMAIN h : ~Beyond(h[j].start, h[i].start)}
      oneRun == \A i, j \in extreme : SameRun(h[i], h[j])
      last == CHOOSE i \in extreme : \A j \in extreme \ {i} : Beyond(h[i].sequence, h[j].sequence)
  IN IF (several /\ missing) \/ ~oneRun THEN Order!NoAttempt ELSE h[last].id

\* One attempt is known to be before another.
Before(a, b) == IF a.source = b.source THEN a.sequence < b.sequence ELSE a.finish < b.start

\* The attempts have one order that respects their sources and their runs' times.
Ordered(h) ==
  /\ \A i, j \in DOMAIN h : i # j => Before(h[i], h[j]) \/ Before(h[j], h[i])
  /\ \A i, j, k \in DOMAIN h :
       Before(h[i], h[j]) /\ Before(h[j], h[k]) => ~Before(h[k], h[i])

StartsFollowSequence(h) ==
  \A i, j \in DOMAIN h :
    h[i].source = h[j].source /\ h[i].sequence < h[j].sequence =>
      h[i].start # Order!NoTime /\ h[i].start <= h[j].start

LatestAgree(h) ==
  LET single == Cardinality(Order!Sources(h)) = 1
      viewer == Order!ViewerSelects(InIdOrder(h))
      pareto == Order!select_latest(h)
      unknown == Order!OrderUnknown(h)
      traced == Order!LatestInCell(h)
      known == single \/ ((\A i \in DOMAIN h : Order!Proper(h[i])) /\ Ordered(h))
  IN /\ single => /\ viewer.latest = EndOf(h, LAMBDA x, y : x > y)
                  /\ viewer.first = EndOf(h, LAMBDA x, y : x < y)
                  /\ pareto = viewer.latest
     /\ pareto = Order!select_latest(Reverse(h))
     /\ unknown <=> ~known
     /\ ~unknown => \A i, j \in DOMAIN h : h[j].id = traced /\ i # j => Before(h[i], h[j])
     /\ ~unknown /\ StartsFollowSequence(h) => pareto \in {traced, Order!NoAttempt}

\* The viewer's streaming choice of the first and latest attempt of a device is the one
\* the runs' starts determine, in whatever order the attempts were opened; the Pareto
\* report chooses the same; traceability knows the order of attempts from several files
\* exactly if their runs do not overlap, and then does not contradict the Pareto report.
SelectionsAgree == \A h \in Histories : LatestAgree(h)

-----------------------------------------------------------------------------
(* The steps of a flow.                                                    *)

\* A tested step before i that stops a device on failure and of which c is true.
StopBefore(flow, cells, i, Is(_)) ==
  \E j \in 1..i - 1 : cells[j].tests > 0 /\ flow[j].stop_on_fail /\ Is(cells[j])

Conclusive(c) == c.latest # "unknown" /\ ~c.incomplete

FlowJudged(flow, cells, unreliable) ==
  LET open == Order!reduce(flow, cells, unreliable, FALSE)
      closed == Order!reduce(flow, cells, unreliable, TRUE)
      steps == DOMAIN flow
      failed(i) == StopBefore(flow, cells, i, LAMBDA c : Conclusive(c) /\ c.latest = "fail")
      inDoubt(i) == StopBefore(flow, cells, i, LAMBDA c : ~Conclusive(c))
  IN /\ \A i \in steps :
          /\ closed[i] = "missing" <=>
               /\ cells[i].tests = 0 /\ flow[i].required /\ ~unreliable
               /\ ~failed(i) /\ ~inDoubt(i)
          /\ open[i] = "missing" <=>
               closed[i] = "missing" /\ \E k \in steps : k > i /\ cells[k].tests > 0
          /\ open[i] # closed[i] => open[i] = "pending" /\ closed[i] = "missing"
          /\ cells[i].tests = 0 /\ flow[i].required /\ closed[i] = "not_applicable" =>
               failed(i) /\ ~unreliable

\* A step is reported missing exactly if it was due: required, not seen, of a device
\* whose identity is sure and which no earlier step may have stopped, with a later step
\* seen or the device closed.  Closing changes what is pending and nothing else.
MissingIsDue ==
  \A flow \in Flows, cells \in Cells, unreliable \in BOOLEAN :
    FlowJudged(flow, cells, unreliable)

\* What the reports say of a device rests on attempts they agree are its own, on limits
\* that one damaged or changed test does not alter for the others, and on its latest
\* attempt, and they agree which one that is; and a device that stopped early is not
\* blamed for the steps it never reached.
DevicesJudged ==
  AtStart => IdentitiesAgree /\ LimitsInherited /\ SelectionsAgree /\ MissingIsDue

-----------------------------------------------------------------------------
(* The totals.                                                             *)

Sum(f(_), S) == MapThenSumSet(f, S)
Keys(rows) == {Dash!scoped_part_key(rows[i]) : i \in DOMAIN rows}
Lots(rows) == {rows[i].lot : i \in DOMAIN rows}

\* The counts of one scope are those of its rows, each counted once.
TestCounted(test) == test.total = test.pass + test.fail + test.unknown /\ Dash!Spread(test) >= 0

YieldsAddUp(yields, kpis) ==
  /\ Sum(LAMBDA g : yields[g].total, DOMAIN yields) = kpis.parts
  /\ Sum(LAMBDA g : yields[g].pass, DOMAIN yields) = kpis.passed

CountsOf(a, kpis, rows) ==
  LET failing == {i \in DOMAIN rows : Dash!is_failure(rows[i])}
      ofPart(k) == {i \in DOMAIN rows : Dash!scoped_part_key(rows[i]) = k}
      in(dimension) == {d \in DOMAIN a.commonality : d[1] = dimension}
  IN /\ kpis.passed = Cardinality({k \in Keys(rows) : \A i \in ofPart(k) : rows[i].part_pass})
     /\ kpis.parts = Cardinality(Keys(rows))
     /\ Sum(LAMBDA t : a.tests[t].total, DOMAIN a.tests) = Len(rows)
     /\ \A t \in DOMAIN a.tests : TestCounted(a.tests[t])
     /\ \A d \in {"test", "wafer", "site", "bin", "test_site", "test_bin"} :
          Sum(LAMBDA c : a.commonality[c], in(d)) = Cardinality(failing)
     /\ Sum(LAMBDA p : a.heatmap[p].fail, DOMAIN a.heatmap) =
          Cardinality({i \in failing : rows[i].xy # None})
     /\ \A gap \in DOMAIN a.quality :
          a.quality[gap] = Cardinality({i \in DOMAIN rows : gap \in Dash!Gaps(rows[i])})
     /\ \A field \in {"wafer", "site", "bin"} :
          YieldsAddUp(Dash!grouped_part_yield(a.parts, field), kpis)

ScopeCounts(a, rows) == CountsOf(a, Dash!Kpis(a), rows)

\* The lots share out the rows; a part in two lots is counted in both.
DashboardSound(d, rows, limits) ==
  LET ofLot(lot) == SelectSeq(rows, LAMBDA r : r.lot = lot)
  IN /\ d.ok <=> /\ Len(rows) <= limits.rows
                 /\ Cardinality(Lots(rows)) <= limits.lots
                 /\ Cardinality(Keys(rows)) <= limits.parts
     /\ d.ok => /\ ScopeCounts(d.all, rows)
                /\ DOMAIN d.lots = Lots(rows)
                /\ \A lot \in Lots(rows) : ScopeCounts(d.lots[lot], ofLot(lot))
                /\ Dash!Kpis(d.all).passed <=
                     Sum(LAMBDA lot : Dash!Kpis(d.lots[lot]).passed, Lots(rows))

DashboardTotals(rows, limits) ==
  DashboardSound(Dash!generate_dataset_dashboard(rows, limits), rows, limits)

\* The correlation of two tests is symmetric, at most 1, and that of a test with
\* itself is 1.  A report of all tests has every pair that has a correlation, each once,
\* the strongest first; where there are more than it has room for, those it leaves out
\* are no stronger than those it has.
Bounded(c) == c.num * c.num <= c.x * c.y
Perfect(c) == c.num * c.num = c.x * c.y

PairReported(reported, pair) == \E i \in DOMAIN reported : {reported[i].x, reported[i].y} = pair

StrongerThanAny(reported, c) == \E i \in DOMAIN reported : Dash!Stronger(c, reported[i].value)

CorrelationsOf(a, reported, max_pairs) ==
  /\ \A s, t \in DOMAIN a.tests :
       \A c \in {Dash!pearson(a, s, t)} :
         /\ c.num = Dash!pearson(a, t, s).num
         /\ Bounded(c)
         /\ s = t => Perfect(c)
         /\ s # t /\ c # Dash!Undefined =>
              \/ PairReported(reported, {s, t})
              \/ Len(reported) = max_pairs /\ ~StrongerThanAny(reported, c)
  /\ Len(reported) <= max_pairs
  /\ \A i \in DOMAIN reported :
       /\ reported[i].value = Dash!pearson(a, reported[i].x, reported[i].y)
       /\ reported[i].value # Dash!Undefined
       /\ ~PairReported(SubSeq(reported, 1, i - 1), {reported[i].x, reported[i].y})
       /\ ~StrongerThanAny(SubSeq(reported, 1, i - 1), reported[i].value)

CorrelationSound(rows) ==
  LET a == Dash!generate_dataset_dashboard(rows, [rows |-> Len(rows), lots |-> Len(rows),
                                                 parts |-> Len(rows)]).all
  IN \A max_pairs \in {1, 2, Dash!MaxPairs} :
       CorrelationsOf(a, Dash!Correlations(a, Len(rows), max_pairs), max_pairs)

\* A scope's counts are those of the distinct files it is in, and add up.
PatternTotals(files, max_groups) ==
  LET a == Patterns!AnalyzePatterns(files, max_groups)
      runOf(file, i) == Cardinality({j \in 1..i : file[j].kind = "MIR"})
      scopes(file) == {<<runOf(file, i), file[i].scope>> :
                         i \in {j \in DOMAIN file : file[j].kind = "FTR"}}
      failed(file, s) == {i \in DOMAIN file :
                            /\ file[i].kind = "FTR" /\ <<runOf(file, i), file[i].scope>> = s
                            /\ file[i].flags \subseteq {"failed", "alarm"}
                            /\ "failed" \in file[i].flags}
  IN /\ a.ok <=> max_groups > 0 /\ Sum(LAMBDA f : Cardinality(scopes(f)), ToSet(files)) <= max_groups
     /\ a.ok => \A f \in ToSet(files) :
          /\ DOMAIN a.sources[f] = scopes(f)
          /\ \A s \in scopes(f) :
               LET c == a.sources[f][s]
               IN /\ c.attempts = c.pass + c.fail + c.unknown + c.not_executed
                  /\ c.fail = Cardinality(failed(f, s))

\* The HBRs a tester writes for these parts: one per site, one for all of them, or both.
Wide == 255
HbrsOf(parts, perSite, overall) ==
  LET count(k) == Cardinality({i \in DOMAIN parts :
                    /\ parts[i].bin = k[3] /\ k[1] \in {parts[i].head, Wide}
                    /\ k[2] \in {parts[i].site, Wide}})
      sums == {<<parts[i].head, parts[i].site, parts[i].bin>> : i \in DOMAIN parts}
      whole == {<<Wide, Wide, parts[i].bin>> : i \in DOMAIN parts}
  IN [k \in (IF perSite THEN sums ELSE {}) \cup (IF overall THEN whole ELSE {}) |-> count(k)]

PrrBins(parts) ==
  [b \in {parts[i].bin : i \in DOMAIN parts} |->
     Cardinality({i \in DOMAIN parts : parts[i].bin = b})]

\* Summaries that agree with the parts raise no warning, at either level or both; when
\* the last part is lost its bin is warned about and no other.
BinTotals(parts) ==
  \A perSite, overall \in BOOLEAN :
    LET hbrs == HbrsOf(parts, perSite, overall)
    IN perSite \/ overall =>
         /\ BinWarnings(PrrBins(parts), hbrs, Wide) = {}
         /\ parts # <<>> =>
              BinWarnings(PrrBins(Front(parts)), hbrs, Wide) = {Last(parts).bin}

\* The totals of the dashboard, of the pattern report and of the bin check are those of
\* the rows, records and parts they are made of: each is counted once and in one class,
\* the lots of a dataset share out its rows, a dataset is refused exactly if it has more
\* distinct lots, parts or rows than the limits allow, whatever their order, equal files
\* count once, the correlations of most tests are the strongest ones, and bin totals are
\* warned about exactly where they differ.
ReportTotals ==
  AtStart => /\ \A rows \in Tables :
                  CorrelationSound(rows) /\ \A limits \in Limits : DashboardTotals(rows, limits)
             /\ \A files \in Inputs, max_groups \in 0..4 : PatternTotals(files, max_groups)
             /\ \A parts \in BinnedParts : BinTotals(parts)

-----------------------------------------------------------------------------
(* Files (FileChecks).                                                     *)

\* However a file is cut and however its bytes arrive, all that read it frame the same
\* records, those that were written and are whole, and refuse the same files.
FramersAgree == AtStart => FilesFramed

\* Rows are stored once and found again under the attempt they are of: those of a
\* conversion in the fragments of their partition, within the memory, the writers and the
\* files it may have, those of the viewer in the fragments its index names for their
\* attempt, and those it takes from a dataset at an address of their own.
RowsStoredOnce ==
  /\ RowsNameTheirAttempt /\ LookupFindsRows
  /\ AtStart => FragmentsHoldRows /\ ReusedRowsAreSame
=============================================================================
