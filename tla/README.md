# A verification project for zstdf

zstdf converts semiconductor test logs (STDF) to Parquet, keeps the results in
managed datasets, and answers questions about them. This directory holds TLA+
models of the parts of it that are hard to test, the configurations that
model-check them with TLC, and theorems about them that TLAPS checks. Paths such
as `catalog.rs` are under `src/stdf-parquet/src/` unless another crate is named.

## 1. The system

### Components

| Component (source) | State it keeps | Operations | Status |
|---|---|---|---|
| Managed datasets (`catalog.rs`, `dataset/fragments.rs`, `dataset.rs`) | `_catalog.json`, `_catalog.json.tmp.*`, `.catalog.guard` (kernel lock), `objects/<generation>/` with fragment directories, `.staging-*`, `.zstdf-convert.lock` | `convert_dataset`, `recover_dataset`, `files_to_partitioned_fragments` | modelled |
| Snapshots (`snapshot.rs`, `stdf-cli/src/snapshot.rs`) | `snapshots/<id>.json`, `_current_snapshot.json`, temp files | create (`--select`), select, current/resolve, verify, list | modelled (list keeps no state) |
| Single-file and directory output (`lib.rs`, `dataset.rs`, `stdf-cli/src/main.rs`) | `<out>.parquet`, its manifest, `.tmp.*`, the directory's lock file | `records_to_parquet_path_atomic`, `files_to_partitioned_parquet_dir`, `convert` | modelled |
| Fragment writer cache (`WriterCache` in `fragments.rs`) | open Arrow writers, their bytes, part numbers | write a batch, evict, close | modelled |
| Record framing (`stdf-io/src/streaming.rs`, `stdf-core/src/iter.rs`), whole-file reader (`stdf-io/src/reader.rs`) | reader offset, byte order, `finished` | `next_event`, whole-buffer iteration, opening | modelled; memory mapping and size limits are not |
| Record to row transformation (`stdf-arrow`) | pending tests and bytes per head/site, wafer and lot context, provenance | `BoundedRecordBatchIter::push`/`next`, identity of a part | partly: row values are not |
| Viewer (`stdf-cli/src/viewer/{ingest,store,query,web}.rs`) | attempts and wafer slots by head/site, one index entry per record, fragments and lookups, cache directories | `scan`, `build_attempts`, `convert`, `prepare`, `reuse_dataset`, queries, export | partly: text search, sorting and HTML are not |
| Retained evidence and analysis receipts (`stdf-cli/src/viewer/{evidence,analysis}.rs`) | `evidence/<id>/`, `.evidence.guard`, `analysis/<id>/`, staging directories | `retain`, verify, `execute`, `publish_receipt` | partly: look-ups of one row and lists are not |
| Spill store and reductions (`stdf-analytics`) | chunk in memory, run files, disk charge, `poisoned` | `push`, `finish`, `next_record`; yield, groups, retest | modelled |
| Structural validation (`stdf-validate`) | open PIR/PRR and WIR/WRR pairs, counters; definitions of a field | `feed`, `finish` | partly: names, limits and BPS/EPS are not |
| Sanity report (`stdf-cli/src/sanity/`) | runs, units, open wafers, definitions, findings; the staged generation | `scan`, `generate`, `Stage::publish` | partly: profiles, text and vendor records are not |
| Traceability (`stdf-cli/src/traceability/`) | open parts, wafers, the open run; steps of a flow | `read`, `cell`, `reduce` | partly: CSV joins and hardware are not |
| Dashboard, FTR Pareto, latest-Pareto (`dashboard/`, `ftr_pareto.rs`, `latest_pareto.rs`) | accumulators filled in one pass, attempts and their evidence budget | `push`, `scan`, `select_latest` | partly: rendering is not |
| Codecs, ASCII configuration, Python bindings, CLI plumbing | none | parsing, rendering | not modelled, see section 7 |

### How they interact

`convert_dataset` holds the kernel lock `.catalog.guard` for a whole run. For
every input it hashes the source, lets the fragment writer publish the fragments
of that (source, hash, options) generation under `objects/`, hashes the source
again, and replaces `_catalog.json` by rename with a new entry and revision + 1.
The fragment writer has a lock of its own per object directory, the marker file
`.zstdf-convert.lock` with its pid, because older writers and direct library
callers do not know the kernel lock. `recover_dataset` takes the kernel lock,
clears markers of dead writers and their staging, removes catalog temp files and
turns a stale `running` into `interrupted`. Snapshot commands freeze the catalog
under the same kernel lock; readers take none. The single-file and directory
converters know neither catalog nor snapshot; they coordinate by temp names, a
lock file and renames. Nothing else is shared: all coordination is through files,
file locks and pids.

Six programs read the records of a file in order: the converter, the viewer (twice: an index
first, then the converter again, joined by attempt number and record number), traceability,
the sanity report, validation and latest-Pareto. Each has its own code for which attempt a
record belongs to, which wafer an attempt was on, and what is wrong with a file; nobody but
the viewer's second pass reads what another one wrote. Which attempt of a device is the
latest is decided in three places, and the identity of a device and the defaults of a test's
fields are shared rules that are fed differently.

The viewer builds its cache in a directory beside it and renames it; evidence is such a
directory, made again from the source under the lock `.evidence.guard` of its workspace
and compared, by two external sorts, with the rows of a snapshot. An analysis opens each
bundle twice under that lock, gives the lock back in between, and renames a directory with
its result and receipt. Killed processes leave directories there that are counted and never removed.

### What is hard, and what makes each component correct

* **Managed datasets.** Kills between any two file operations, sources edited
  while they are read, errors after the effect (a rename whose directory sync
  fails), pids that are reused, writers that ignore the lock. Correct when the
  catalog only names published directories, an entry's rows come from the bytes
  whose hash it records, the status tells what happened to the inputs, recovery
  takes nothing from a live writer, every version follows legally from the one
  before, and every command returns and gives the lock back.
* **Snapshots.** Two-step commands that lock twice, a capture while runs commit,
  a pointer replaced under a reader. Correct when the pointer always names a
  selectable snapshot, an incomplete run is selected only on request, a snapshot is
  the catalog it was taken from, and its objects outlive later runs and recoveries.
* **Single outputs.** Cleanup by name of somebody else's temp file, two files that
  must agree replaced one after the other, a plan that is stale when it is executed.
  Correct when nothing incomplete is ever readable, digest-named files hold what their
  name says, and a retry answers for the file that is there.
* **Readers of a file.** Files of interleaved sites, with records missing, repeated,
  undecodable or out of order, several runs in one file, test results before a PIR, limits
  reached in the middle of a part. Correct when charges equal what is retained, no result is
  lost without an error, and the readers agree on attempts, wafers and on which files are good.
* **Evidence and analyses.** A source replaced while it is indexed, kills under and outside the
  lock, damage between two openings, disk limits met in a merge. Correct when a bundle has the
  rows of the source its snapshot names, the workspace never exceeds its quota, an answer is
  counted over all attempts of the bundles it names, and every command returns.
* **Reports.** A generation of many files made visible by one rename, cancelled or killed
  anywhere. Correct when a report that can be seen has all of its evidence beside it.
* **Sequential parts with a state.** Writer cache, store, framing, latest attempts, queries, totals:
  each has boundaries (limits, cuts, ties, empty inputs) at which two pieces of code must
  agree, and a definition that is much shorter than the code.

`PROJECT.json` lists the hazards one by one, each at its line, with the properties
that watch it or the reason why none does.

## 2. The modules

| Module | What it is |
|---|---|
| `CatalogStore` | abstract: the promise to a reader of `_catalog.json`, two variables |
| `DatasetCatalog` | detailed: conversions, guardless writers, recoveries, kills, edits |
| `CatalogSnapshot` | extends `DatasetCatalog` with snapshot commands on the same dataset |
| `SingleOutput` | single-file and directory output |
| `SanityPublish` | the generation of a sanity report and the file that names it |
| `OutputCommands` | `SingleOutput` or `SanityPublish`: the commands that replace one file |
| `ViewerCache`, `SpillStore`, `RetainedEvidence`, `AnalysisReceipts` | sessions, the external sort, evidence, analyses: each extends the one before, the last has the specification |
| `AnalysisOps` | the reductions of `stdf-analytics`, as operators |
| `EvidenceArchive` | abstract: what evidence and answers promise |
| `StdfStream` | the records of a file and the helpers its readers share |
| `EavParts` | the converter: `StdfContext` and `BoundedRecordBatchIter` |
| `ViewerScan`, `TraceRead`, `SanityScan`, `Validator`, `ParetoScan` | the passes of the viewer, traceability, the sanity report, validation and latest-Pareto |
| `ViewerTables` | how the viewer's second pass stores rows and what it looks up |
| `StreamReaders` | one file read by all six, and what must hold between them |
| `PartIdentity`, `FieldDefaults`, `AttemptOrder` | rules that several programs share or repeat |
| `DashboardStats`, `PatternCounts` | what two reports count; how many correlations a report has room for, 60 in the code (`MaxPairs`), is a parameter, so that small inputs exceed it |
| `Framing`, `WriterCache`, `DatasetReuse`, `ViewerQuery` | from bytes to records, from batches to fragments, rows mapped to a dataset, answers |
| `FileChecks` | extends `Framing`, `WriterCache` and `DatasetReuse`: what frames, fragments and reused rows must be, of the lists of the constants alone |
| `ReportChecks`, `QueryChecks` | extend `StreamReaders` and `FileChecks` with definitions that the other operators are compared with |
| `MCDatasetCatalog`, `MCCatalogSnapshot`, `MCSingleOutput`, `MCStreamReaders`, `MCAnalysisReceipts` | budgets, inputs and symmetry for TLC |
| `DatasetCatalog_proofs`, `CatalogSnapshot_proofs`, `OutputCommands_proofs`, `FileChecks_proofs`, `StreamReaders_proofs`, `ReportChecks_proofs`, `AnalysisReceipts_proofs` | theorems, section 4 |
| `DataFacts` | lemmas about numbers, finite sets, sums, folds and orders that several proofs use |

### DatasetCatalog and the code

A process slot `p` runs one command at a time; `pc[p]` is the next file operation,
`cat[p]` the `DatasetCatalog` value of `convert_dataset`, `job[p]` its arguments and
locals, `pid[p]` its operating-system pid. The dataset is `guard`, `file`, `temps`,
`marker`, `objects` and `staging`; `content` is what the sources hold now.

| Actions | Code |
|---|---|
| `StartConvert`, `StartRecover`, `StartLegacy` | the commands; "legacy" is a direct call of the fragment writer, which takes no kernel lock |
| `AcquireGuard`, `GuardRefused` | `CatalogGuard::acquire` (`try_lock`, never waits) |
| `StageCatalog`, `ReplaceCatalog`, `PublishFails` | `publish` and `atomic_write`; `ReplaceCatalog` may report an error after the rename, as the directory sync does |
| `BeginRun` ... `RecordSource`, `ReloadCatalog`, `FinishRun` | the loop of `convert_dataset` and its error arm |
| `PlanFragments` ... `DropLock`, `AttemptFails` | `files_to_partitioned_fragments_with_limit`, `DatasetLock`, `Stage` |
| `ScanObjects` ... `InterruptRun`, `SweepFails` | `recover_dataset` |
| `Crash`, `EditSource`, `DamageObject` | environment: `Crash` drops the kernel lock and leaves the files |

Digests are the contents they are computed from; an entry's `rows` is the content
its fragments were written from, and `hash` what the recorded fragment hashes vouch
for. The marker names either the pid written in it or, before that, the slot that
created it: an empty file, which recovery cannot attribute. `DatasetLock` writes its
pid through the file it opened, so when that file has been replaced at its path the
write does not show there (`WriteMarker`); its `drop` removes by path, whatever is
there (`DropLock`). When its process is killed between creating and writing it, the empty marker stays, and every later writer and recovery
refuses that object until a person removes the marker. Commands still return, and no property forbids it: `docs/cli.md:301` says that recovery
refuses unverifiable owners.

Actions commented as faulty variants are not part of `Next`: each is a plausible bug
that a property was checked to detect.

### CatalogSnapshot and the code

`spc[k]` and `request[k]` are the step and arguments of a snapshot command. A
snapshot's id is the SHA-256 of the catalog it freezes, so the catalog value stands
for the id. `chosen` is a history variable. `LoadCatalog`, `HashSelection`,
`StageSnapshot`, `LinkSnapshot`, `UnlinkTemp` are `create_snapshot`, with
`ReuseSnapshot` for an id that exists; `CheckSelected`, `StagePointer`,
`ReplacePointer` are `select_snapshot`; `ReadPointer`, `ResolveSnapshot` are the
readers. `create --select` goes back to `lock` between its halves, as the CLI does.

### SingleOutput and the code

A path is a source and, for directory output, the digest in the file name. `temps`
are the files `.tmp.*`, removable by anybody; `job[p].found` is the CLI's probe
whether the output exists, after which it hands the writer an empty iterator.
`RemoveOutput` and `RenameTemp` are `commit_temp_file`, `RemoveManifest` and
`RenameManifest` the same for the manifest. `RemoveStaleLock` is the user
following the documentation.

### The readers of a file and the code

A record keeps its kind, head, site or site group, wafer name and, for an MPR, its declared and
present number of values. `Malformed` is a record of a known type that ends in its first field:
`StreamingRecordReader` hands it over as `Unknown`, and each reader does something else with it.
Each module has one action per kind of record, the end of the file and a cut file, and a step
that does nothing after the reader has stopped. `EavTest` is PTR, MPR and FTR, which differ in the
number of rows; `ScanSide` is the branch of the viewer's `scan` that handles every record with
a head and site. Memory is counted in units of 2048 bytes, and the length of names is not.
`SanityScan` keeps the rules that found an error, and has one test number.

`StreamReaders` delivers each record to all six readers in one step. They share only the file, so
lock step loses no result of separate passes; that the file does not change meanwhile is what
the digests of `DatasetCatalog` are about, and the viewer reads a copy of its own. `delivered`,
`renamed` and `unclosed` are history variables. `Validator` keeps which rules found something;
`ParetoScan` has the same attempts and slots as the viewer's first pass in code of its own, and
a budget of what it keeps. `ViewerTables` stores the converter's batches as the second pass does.

### The viewer, evidence and analyses and the code

A command of a process `p` is `job[p]`, with its step in `job[p].pc`. A file is a container of a
body, so that two files may have one body; hashes are the files. `HashSource` ... `PublishCache` are
`prepare`, which `view` runs for its cache and `retain` under the lock for a directory of its own.
`RetainedEvidence` continues with the two spill stores that compare rows (`SpillPush`, `SpillFinish`,
`SpillMerge`, `SpillNext` are `SpillStore`'s methods, with memory and disk in records) and the rename to the
bundle's name; opening a bundle is `open_attempts`. `AnalysisReceipts` has the two phases of `execute` with
the lock given back in between, and the three steps of `publish_receipt`. `Fail` is any error or
cancellation at any step; `Kill` releases the lock and leaves directories, counted in `abandoned` and
`building`. `Rewrite` and `DamageCache`, `DamageBundle` are the environment.

A reduction is a value computed from a bundle's attempts (`Part`), with the branches of `accumulate_source`,
`accumulate_groups` and `accumulate_retest`; `EvidenceArchive` defines the same numbers by counting a set.

### Sanity reports and the code

`StartReport` ... `WritePart` are `generate` up to publication: a directory named by the process, a copy of
each input, the scan of the copy, the parts. `StageCopy`, `ReplaceOutput`, `SyncDirectory` are
`atomic_write_checked`; `DropStage` is `Stage::drop`, which removes the generation unless it was published.
`CommandStops` is a cancellation or an exhausted budget where the code looks for one.

### Sequential parts and the code

These modules have no variables: a `WriterCache` is a value `[open, ...]` to which `write`, `evict` and `close`
are applied, a framer is a function from bytes (and the sizes of reads) to a list of records and an end, a query is an
operator over a prepared file. The check modules state what each must give, and evaluate it over all inputs of
their constants in the initial states of `stream_readers` (`AtStart`):

* `FramersAgree`: both framers give the records of a reference definition, for every cut and every chunking, and
  differ only as documented there (extension and magic of gzip).
* `RowsStoredOnce`: rows of batches end up in fragments once and in order, within the limits or with an error; the
  viewer's lookup names exactly the fragments of an attempt; a row of the file has the attempt that the
  index gave its record; rows mapped to a dataset are the same multiset.
* `DevicesJudged`: the three rules for the latest attempt agree where they must and follow the
  definition; a flow stops at the first required failure that is known; identities and defaults do not depend on
  the reader except where named.
* `TotalsAddUp`: totals of dashboards, Pareto reports, pages, series, curves, bins and exports are counts of the same rows. Of more correlations than a
  report has room for it has the strongest.

## 3. The runs

| Run | Instance | Shows |
|---|---|---|
| `catalog_convert` | 1 slot, 2 sources with one named twice, 2 contents, 2 conversions, 1 kill, 1 edit or removal | published entries, rows of the recorded bytes, status, coverage of the inputs, `_catalog.json` is a history of `CatalogStore` |
| `catalog_recover` | 2 slots, 2 pids, 1 source, one conversion, one recovery, one guardless writer, 1 kill, 1 damaged object | recovery takes nothing from the living, one writer per object directory, refinement with recovery, every command returns |
| `catalog_race` | 2 slots, 3 pids, one recovery, two guardless writers | **violated**: section 6 |
| `catalog_aba` | 1 source, one conversion, 2 edits | **violated**: section 6 |
| `catalog_recycled` | one conversion, one kill, one recovery | **violated**: section 6 |
| `snapshot_commands` | 2 clients with one create, one select and one read; 2 conversions, 1 damaged object | pointer, selection, capture |
| `snapshot_recovery` | one create, one read, 2 conversions, a kill on each side, one recovery | captured objects outlive all of it; commands return |
| `output_writers` | 2 slots; either 2 single and 2 directory conversions, 1 kill, 1 edit; or 2 sanity reports, 1 kill, 1 failure, 1 cancellation, 2 inputs of bodies of 1 and 2 units, disk limit 8 | completeness, digests, the directory lock, reports with their evidence |
| `output_retry` | 3 single conversions, 1 kill, 1 edit | **violated**: section 6 |
| `stream_readers` | all files of up to 6 records drawn from 19 on one head and two sites, at most 3 run, 3 wafer or site, 3 part, 2 test and 1 undecodable record; 3 pending tests, 72 units of memory; and the bounded inputs below | charges, rows, attempts, wafers, storage, validation, and that a clean file is good for every command; framing, identities, orders, totals and queries |
| `stream_closure` | files of MIR, MRR, WIR, WRR | **violated**: section 6 |
| `viewer_evidence` | 2 processes, 2 commands among view, 2 retentions, verify and 2 analyses; at most 2 troubles of 2 rewrites, 1 kill, 1 damage; 7 rows sorted with 3 in memory and 2 runs per merge, spill limits 5, 13 and 14, disk for 3 directories | caches and bundles hold their source, accounts of the sort, quota, answers are those of `EvidenceArchive`, every command returns |

The bounded inputs of `stream_readers`: attempts with up to 3 coordinate tests on 4 kinds of wafer and part; all pairs and some
triples of tests of one number for the defaults; histories of up to 5 attempts in 3 runs and 2 sources; flows of 3 steps;
up to 3 rows (and 12 for correlations, where a report has room for 1, 2 or 60 pairs of 3) for reports; files of 7 heads with up to 3 records of size 0 to 3 and one of 257 bytes, cut everywhere, in
chunks of 1, 3, 7 and all; up to 5 batches of 3 partitions under 6 sets of limits; up to 4 rows in 2 fragments for reuse; prepared files
of 6 measurements of 3 attempts under 63 queries.

**Bounds.** Every bound is a named constant: `Budget` and `SnapshotBudget` say how many
commands, kills, edits and damages may happen. `MaxRevision`, the largest revision of a catalog, is 6 in `catalog_convert`,
where a second conversion meets it in its middle, and 12 elsewhere, above any revision these budgets reach. Two of each thing that interferes is what the hazards need: a
repeated and a distinct input, the content before and after an edit, the dead process
and the one that gets its pid, the command that is interrupted and the one that follows.
A second kill or edit repeats a state the first one reaches, except where one edit hides
another (`catalog_aba`) or one writer follows another (`catalog_race`), and these have
runs. A file of six records has room for two interleaved sites, a part closed and opened again, an
MPR and a second test at the limit (`MaxPendingTests`, `MaxMemory` are reached by two tests and a
wafer), a group's wafer beside the head's, and a second run; after the viewer gave a
file up, and before a cut, three records are enough to reach what the others still do
(`MaxRefused`). Any file operation may fail in every run, at no cost to a budget. Contents in
`catalog_convert` and clients in `snapshot_commands` are interchangeable (symmetry); runs
with a liveness property use no symmetry. Seven rows are
three flushes and two merge passes of the sort, and the three spill limits are too small for one run, too small for the last
merge by one, and sufficient; two commands are a session beside a retention, a retention beside an analysis, or one kind twice; a
third would meet nothing the second and its troubles do not. The budgets of the sequential checks contain each limit, one below and one
above it, and records on both sides of a cut or page. `CHECK_DEADLOCK FALSE` is set because the system
stops when the budget is spent and every command has returned.

**Fairness.** `FairSpec` and `FairSnapshotSpec` assume weak fairness of the steps of a
started command: the operating system schedules a running process, and no file operation
of the code blocks (`try_lock` and `create_new` return at once). Starting a command,
kills, edits and damage are never obliged to happen. `AnalysisReceipts` assumes the same of each
process, where the user may keep a session open for ever (`EndView`). Nothing is assumed of the choice
between success and failure of an operation.

## 4. What is proved

Every safety invariant of the runs that is about the steps of a component is a theorem, for every value of
the constants: any number of processes, files, sources, records and options, and any budget or limit that the assumptions allow.
`Spec` is that of the module named.

**The dataset** (`DatasetCatalog`, `CatalogSnapshot`)

| Theorem | Statement |
|---|---|
| `InvariantHolds`, `TypeCorrect` | `Spec => []IInv`, `[]TypeOK` |
| `GuardExclusion` | at most one process is past the kernel lock |
| `CatalogFollowsFragments` | `Spec => []CommittedPublished` |
| `RowsMatchSources` | `Budget["edit"] <= 1 => (Spec => []CommittedRowsMatchSource)` |
| `StatusTellsFailures` | `Spec => []StatusAgreesWithFailures` |
| `CatalogRefinesStore` | `Spec => ImplementsStore`: `DatasetCatalog` refines `CatalogStore` |
| `InterruptsOnlyAbandoned`, `CompleteRunsCover` | `Spec => InterruptedRunIsAbandoned`, `CompleteRunCoversInputs` (action properties) |
| `OneWriterPerObject`, `LiveStagesSpared` | `Budget["legacy"] <= 1 => (Spec => []OneObjectWriter)`, and `RecoverySparesLiveStages` (action property) |
| `SnapshotsKeepConverters`, `CatalogStaysAStore` | `SnapshotSpec => Cat!Spec`, `Cat!ImplementsStore`: the composition refines the dataset, and so the store |
| `CatalogStaysPublished`, `SnapshotTypesHold` | `SnapshotSpec => []CommittedPublished`, `[]SnapshotTypeOK` |
| `PointerHasDescriptor`, `CurrentWasSelected` | `SnapshotSpec => []PointerSelectsSnapshot`, `[]CurrentNeverFallsBack` |
| `SnapshotsOutliveConversions` | `SnapshotSpec => []SnapshotsStayVerifiable` |
| `SnapshotsAreCurrent`, `IncompleteIsAskedFor` | `SnapshotSpec => SnapshotCapturesCurrent`, `IncompleteNeedsOwnFlag` (action properties) |

**Outputs and reports** (`SingleOutput`, `SanityPublish`, `OutputCommands`)

| Theorem | Statement |
|---|---|
| `OutputsComplete`, `DigestsName` | `Spec => []OutputIsComplete`, `[]DigestNamesContent` |
| `DirectoriesKeepCommitted`, `LockKeepsTemps` | `Spec => DirectoryKeepsCommitted`, `LockedTempsSurvive` (action properties) |
| `ReportsStayKept` | `ReportSpec => []ReportsKept` |
| `CommandsKeepAll` | `CommandSpec` implies all five |

**The readers of a file and its rows** (`EavParts`, `StreamReaders`, `FileChecks`, `ReportChecks`)

| Theorem | Statement |
|---|---|
| `EavInvariant`, `ChargesFollowParts` | `EavSpec => []EInv`, `[]PartsCharged` |
| `LimitsHold` | a running conversion never retains more than `BatchLimits` allows |
| `ChargesFollowPartsInFiles`, `TotalsBalance`, `EveryRowWritten` | `Spec => []PartsCharged`, `[]ChargesBalance`, `[]NoRowLost` |
| `ReadersAgree` | `Spec => []AttemptsAgree` |
| `WafersStayTraced` | `Spec => []WafersAgree` |
| `JudgesAgree` | `Spec => []ValidatorAgrees` |
| `CleanFilesReadable` | `Spec => []CleanFileIsReadable` |
| `RowsFoundInIndex`, `LookupsFindRows` | `Spec => []RowsNameTheirAttempt`, `[]LookupFindsRows` |
| `FragmentsHold`, `ReusedRowsAre` | `FragmentsHoldRows`, `ReusedRowsAreSame`: for every list of batches, digests and fragments and all limits |
| `RowsAreStoredOnce` | `Spec => []RowsStoredOnce`, the four of them |
| `FilesAlwaysFramed` | `FilesFramed`: for every head, every list of records of any size, every cut and every way in which the bytes arrive |
| `FramersAlwaysAgree` | `Spec => []FramersAgree` |

**Evidence and analyses** (`SpillStore`, `AnalysisReceipts`)

| Theorem | Statement |
|---|---|
| `SortIsSound` | `SpillSpec => [](SpillAccounts /\ SortLosesNothing)` |
| `StagesStayGuarded`, `CachesMatchSources` | `Spec => []StageUnderGuard`, `[]CacheHoldsItsSource` |
| `SpillStaysSound`, `EvidenceKeepsRows` | `Spec => []SpillSound`, `[]RowsRetained` |
| `AnalysesImplementArchive` | `Spec => ImplementsArchive`: evidence and analyses refine `EvidenceArchive` |
| `ReductionsCount` | for every request about one piece, the reduction of its attempts gives the numbers of `EvidenceArchive` |

**Assumptions.** Those about the constants are `ASSUME`s of the module that declares them, and TLC evaluates each in a run. Most say
that a special value is none of the data (`NoneAssumption`, `DeviceAssumption`, `NoReportAssumption`, parts of `ConstantsAssumption`
and `OutputAssumption`). The others: the number of sites is finite (`SiteAssumption`, a site is one byte); limits are numbers, and leave
room for what the code checks before it starts (`LimitAssumption`, the fixed reservation; `ReportAssumption`, a disk limit of 0 is
refused); a spill store merges between 2 and 64 runs and has memory for more records than that
(`SpillAssumption`); a retention names a source of its snapshot (`RetentionAssumption`); a request names some evidence of some snapshot, by id, as
`parse_request` and `verify_snapshot` make sure of (`RequestAssumption`); and the evidence that is there before the
first command is what an earlier one may have left, within the disk limit (`BundlesAssumption`).

Three theorems have a bound on the environment as a hypothesis, and each is needed: two edits undo each
other in `catalog_aba`, two guardless writers meet in `catalog_race`. `CacheHoldsItsSource` says in itself that
it is about at most one rewrite of the source, for the same reason.

**The inductive invariant.** `TypeOK` is not inductive: `RecordSource` builds an entry from
`job[p].gen` and `job[p].rows`, `WriteMarker` writes `pid[p]`, and all three are `None`
before the steps that set them. `Local(p)` therefore says for each step which locals are
set and to what; it also needs that a command stays in its own steps, that a publication
in flight belongs to the kind of command that started it, and that the object directories
recovery has listed never vanish. `IInv` adds that the guard is held by exactly the
process whose step needs it; both directions are needed, since `AcquireGuard` looks at the
variable and `Exit` at the step. The proof has a lemma per action and gathers them by
group as `Next` does.

**Published entries.** `CommittedPublished` speaks of the file, but the file comes from
`cat[p]`, and what goes into `cat[p]` from `job[p]`. `PInv` says it of the file, of every
catalog value in memory, and of the directory a converter holds between publishing it and
recording it (`Held`). Objects never disappear (`ObjectsKept`), so the steps of others,
recoveries included, cannot undo what one process knows.

**Rows of the hashed bytes.** A source is hashed, read and hashed again. `RowsInv` says that from the first hash to the last step of the
attempt either the source still is what was hashed or the one edit has happened; and that the rows
planned are those of the hashed bytes or, after the edit, those of what the source holds from then on (`ReadOK`). The second hash tells the two apart. With a
second edit to come the source may go back to what was hashed, and the case distinction is lost.

**Markers.** Who is between lock and unlock of an object directory is named in its marker (`OwnsMarker`), by slot before the
pid is written and by pid after it, and pids of running processes differ. Recovery reads the marker, probes the pid and removes the marker, in three
steps; between them the owner may leave and another writer may come. `Clears` says what recovery knows at each: either no guardless
writer is left, and the guard keeps everybody else away, or the marker still is the one that was read, with nobody behind it.
A second guardless writer could come after the first has left, and this is `catalog_race`.

**Status.** `SInv` asks the same agreement of every catalog value in memory: each publication
either decides status and failures together or leaves both alone, and after an error the
failures are those of the file, which agrees by induction.

**The store.** A version of the catalog is made when it is staged and seen when it is renamed, and in between the abstract store
must not have moved. `RInv` says so: who is at `next` or in an attempt has the file in `cat[p]`, and who is publishing has there
the file with one change of the kind it publishes, over objects that exist (`Leads`). The guard keeps the file still for its
holder (`OnlyReplaceWrites`), objects only appear, and the pending change that an error leaves behind is never published, since
`reload` starts from the file. That a run's record is new needs run ids to be counted and not shared (`Ids`).

**Complete runs.** While its run has no failure, a converter has entered, with its options and counted once, every input that it
has been through except the one at hand, and all the rest of its arguments are still waiting (`Covers`). A failure ends the claim
for good, so that nothing needs to be known of the file that the pending catalog is rebuilt from.

**Snapshots.** A snapshot command holds the lock in the place of a converter, so `CatalogSnapshot` does not
satisfy the specification of `DatasetCatalog` as it stands. `ConverterGuard` is the lock as converters see it,
held by a converter or by nobody; a converter that a snapshot command refuses fails as on any error. Under that mapping
every snapshot step is a stutter, and what is proved of `DatasetCatalog` holds here. `SnapInv` says what each step of a
snapshot command knows: from `lock` on it holds the lock, which freezes the catalog, so that what it captures is the file and
selectable; from `target` on the captured objects are on disk, as they were or damaged since, and objects only decay; a
pointer is replaced by a snapshot that exists and that the command may select.

**Outputs.** What is at an output path says nothing of the temp files that may still be renamed to it. `OutputInv` adds for
each command that only a writer between create and rename owns temp files, that they are for its own path, and that from
commit on they hold what the writer counted, which for a directory command is what the name of the path says. A step of one
command only takes temp files away from the others (`OnlyMoves`), so that nothing has to be said of two of them.

**The directory lock.** A path with a digest is written by directory commands only, and these hold the lock file from their first
file on (`LockOK`). So no other command removes, renames or cleans up there: the one that would is a directory
command too, and holds the lock.

**Reports.** `ReportsKept` speaks of what was announced. `ReportInv` says of each command that still runs that its name is used by no
other, that what it has scanned is what its generation holds, that its charge is the size of the generation and
of the copy of its page, and that until it replaces the page no page names it. A generation is therefore removed only
when nothing points at it, but for the rename whose directory sync failed.

**Charges.** `PartsCharged` needs to know that origins exist only for pending parts (a PIR starts a part
without looking at them), and `LimitsHold` that the charge of a part is never negative (a PRR subtracts it
without looking at the totals). `EInv` adds both, and for a test record that the rows reserved from its declared
count are the rows it expands to, which is what `validate_expansion` is for. That totals are the sums of
the charges, and that rows are all pending or written, is about sums over the open parts. They change where one part does:
`SumPut` and `SumWithout` say by how much, and every action of the converter adds or releases the charge of one part.

**Readers of one file.** Each reader that goes on after a record does the same to the numbers of attempts and to the attempt that is open at a site,
whatever else it keeps (`NextNumbers`, `NextCount`); so they agree by induction on the file, as long as they go on. The Pareto pass keeps what the viewer's
first pass keeps (`SamePass`), in code of its own. For wafers, traceability refuses most: while it goes on the sanity report has found
none of the wafer rules broken (`ScanFollows`), the two have the same wafers open (`SameMaps`), and the wafers that a part may have been
tested on only grow (`TracedGrows`), so that a wafer assigned at the PIR is still one of them at the PRR. A slot of the viewer is
an open wafer, or nameless (`SlotsMatch`), as long as no wafer was renamed and no pairing of wafers is broken.

**Judges of one file.** A file starts with an MIR, so that in a file with one run validation and the sanity report remember the same parts and wafers up to
the MRR, and what one finds wrong with a record the other does (`SameJudgement`). `CleanFileIsReadable` is
proved from the same correspondence read the other way: as long as the sanity report found nothing wrong, no other reader has stopped, but
for the exceptions that the property names (`ReadSoFar`).

**Rows in the index.** A batch is checked against the index when its part closes, so the invariant has to speak of parts that are
open: while both passes read, the number of the record being read is its place in the index, and the index says of the records that a part's
rows come from what the number of the part is (`Located`). That the two passes give a part the same number is `AttemptsAgree`.

**Rows in the table.** The table is built row by row. Its index is complete for every attempt but the one whose rows are being written, and
for that one the fragments noted so far are (`Filled`). Writing them replaces what the index had for the attempt, so that this
is right only if an attempt never comes back. It does not: a batch is given when the first pass closes the attempt, and no later
attempt gets the number of a closed one (`OneBatchEach`).

**Rows in fragments.** `Kept` is what every operation of the writer cache keeps: counts are those of the rows held, no more writers, files or
bytes than allowed, and a finished fragment of a partition has a lower part than those of the same partition that come after it. The rows of a
partition (`StoredRows`) are those of its finished fragments, in the order in which they were finished, and of its open writer. An eviction moves rows from the second to the
first and changes nothing (`SameRows`), whichever writer is the least recently used; a chunk adds its rows at the end for its own partition alone (`Wrote`). A
cache between two batches (`Settled`) has no full writer and is within its budget, and `AfterBatches` says of each prefix of the batches that what is stored of a
partition are the rows of its batches. The sort of the fragments by path then must not exchange two of one partition, and it does not, since parts
ascend. A batch whose rows weigh what is reserved for them at most always finds room after enough evictions, which is why only the number of files can stop it
(`WithinBudget`).

**Reused rows.** The two sorted lists are compared place by place. That equal lists mean equal digests as often is immediate; the
converse needs that a place tells the digest: exactly those places hold digests below `v` that come before as many rows as are below `v`
in the list (`Lower`), and both lists have as many. A row's address is the place from which it was pushed; sorting permutes them, so that none is given twice.

**Framing.** The buffer walk, the reads that fill a header or a body, and the stream are recursions along a way that ends: positions grow, and a reader has
less left after each event (`WalkExists`). A repeated read gets what is wanted or what is there, however little each call returns
(`FilledIs`), so that an event is a function of what is left of the data (`NextEventIs`), and from any record on the stream gives what the walk gives from
there (`StreamFollowsBuffer`). What the walk gives is then compared with the recording: a header that was written is read back in either byte order
(`PieceIs`), it lies where the sizes of the records before it end (`EncodeIs`, `FullIs`), and a cut leaves the headers that it reaches as they were
(`CutIs`). The first records that end before the cut are those that the sums of sizes name (`Whole`), the items are their frames and one error
if anything is left, and summaries count items.

**The sort.** `SpillInv` says which run files exist in each phase (those made and not merged yet), that each is ordered, that no record is in two of
them or in memory as well, that the sequence numbers are those given out, and that the disk charged is the sum of the run files. A merge replaces the runs
`pass.at` and on by one; that it is ordered and complete is shown from the merge being the ordered
sequence of the union. `Before` is an order in which no two records are equal, since ties of keys are broken by sequence number.

**Evidence.** The program counter of a command tells whether it has the lock and whether it has a stage (`Sound`). What it has read is
tied to the hash it took by the number of rewrites so far (`SourceRead`): none, and everything is of one body; one, and the second
hash differs unless the body is that of the first. `RowsFed` ties the store to the list that is being digested: the records in
the store are the first rows of it, under their keys, so that when the list is used up the sorted sequence has each key as often as the list.
Two sequences are compared one after the other through the same store, and the digest of the first is kept. `Budgeted` counts bundles, directories left by killed
processes and the one stage that the lock allows.

**Numbers.** `EvidenceArchive` counts sets of attempts, and the reductions go through sequences. What a set counts for is the sum of what
disjoint parts of it count for (`CountsAdd`, `GroupsAdd`, `RetestAdd`), so that a prefix of the attempts counts for what the reduction has
come to after it (`YieldOfPiece`, `GroupsOfPiece`, `RetestOfPiece`); for retests the histories of devices are compared first
(`HistoriesGathered`), as they are gathered, and then their number and their ends. `AnalysisSound` says the same of the pieces of a request
while processes take turns: in the first phase the pieces noted so far are published, of the request's snapshot and each of another
source (`Noted`), which is why the request is answerable; in the second the result is that of the pieces scanned so far (`Scanning`), and
since no source came twice none is counted twice. Published pieces stay, so that no step of another command disturbs this
(`MorePublished`), although the lock is given up between any two pieces.

## 5. What is only model-checked

* Liveness (`CommandsReturn`, `SnapshotCommandsReturn`, `CommandsEnd`): fairness and `ENABLED` are outside
  what TLAPS proves.
* `SummariesAgree`: it tries samples on an instance of its own, which is there for TLC and its mutant. What it says of the samples
  `ReductionsCount` says of all attempts.
* `DevicesJudged`, `TotalsAddUp`: sequential, over the bounded inputs of section 3. They compare rules and totals that are written
  as `SortSeq` and nested folds of the library, and are about many operators and inputs of several files each.
* What happens beyond the hypotheses of section 4: two edits and two guardless writers violate the properties, and runs show it.

The library's induction theorems take an operator as a parameter, which the installed provers cannot instantiate.
Where a proof needs induction (that a sum changes by what one element changes, that a finite set has an ordered sequence), `DataFacts` does it over
a set of counterexamples, which has a least element. Sums are written with `SumFunctionOnSet`, whose definition
as a fold is reached by such an induction. Reductions are written as functions that are recursive in the length of the prefix, and `RecursionExists`
gives the function that such a definition means (`Recurs`); no module contains a `RECURSIVE` operator. A sort is written as the element that has so many before
it, which the order determines (`Ranks`). The folds of the library
are defined by choosing a function on sets of indices: `FoldingExists` shows that there is one, and `FlattenAppend`, `PushesStep` and
`StoresStep` what one more element adds to it.

## 6. Disagreements between code and documentation

* **`catalog_aba`.** `docs/architecture/failure-model.md:31` wants results rejected when the bytes
  differ from the receipt's hashes. The source is hashed before and after, but read twice in between;
  an edit that is undone in time commits rows of bytes nobody hashed.
* **`catalog_recycled`.** Recovery says that the writer "is still active" (`catalog.rs:476`) when any
  process has its pid, also when that is recovery itself.
* **`catalog_race`.** `docs/cli.md:301` says that recovery removes only abandoned staging. It reads the
  marker, probes the pid, and removes the marker by name: when the owner has left in between and another
  guardless writer has locked the directory, that one loses its marker and its staging.
* **`output_retry`.** `docs/cli.md:42` says that a `--no-overwrite` retry returns the committed row summary. Output and
  manifest are replaced one after the other, and the retry answers from the manifest.
* **`stream_closure`.** `docs/sanity.md:219` lists wafer closure among the full-file diagnostics. A MIR forgets the wafers
  the run before left open (`sanity/scan.rs:444`), and only those of the last run are reported.

One more has no run of its own. `sanity/storage.rs:138` calls `report.html` "the single commit point; it pins this
immutable generation". When the rename has happened and only the directory sync after it fails (`catalog.rs:397-402`), `publish`
returns an error, `Stage::drop` removes the generation, and `report.html` names what is gone. `ReportsKept` excepts exactly that
outcome ("unsynced").

The readers also differ from each other where no document says who is right. These are not findings, and
the properties name them as exceptions:

* a definition-only PTR is evidence for the sanity report and a part for the converter (`CleanFileIsReadable`);
* a second run's parts may take a wafer that the first run left open in the converter alone, an undecodable WRR leaves its
  wafer open there, and the viewer's WRR closes the whole head's wafer when its group has none (`WafersAgree`);
* the validator knows no runs: a part or wafer open across a MIR is one pair to it and two errors to the sanity report
  (`ValidatorAgrees` speaks of files of one run);
* the whole-file reader sees the first member of a gzip file of several, the streaming reader all of them, and a file that is
  named `.gz` and is not compressed is read by the viewer and the reports only (`FramersAgree`);
* an export of one run leaves out the records before the first MIR (`TotalsAddUp`).

## 7. What is not modelled, and why

* Field codecs (`stdf-core`), the ASCII configuration (`stdf-ascii`), HTML (`render.rs`, `web`), the CSV joins of
  traceability, the Python wrapper: pure or read-only data shaping, sequential, with the repository's own property and fuzz
  tests.
* Memory mapping, the size limit of decompressed data and an I/O error in the middle of a record header: I/O without a state
  that another part depends on.
* `src/crates/`: superseded copies outside the workspace.
* Of validation and the sanity report: program sections (BPS/EPS), test names and lot identifiers, the limits a PTR is checked
  against, profiles, text and vendor records, the evidence tables.
* Of the viewer: text search and sorting, the cache of two page snapshots, request parsing, the fallback of a
  scatter plot to a range and its panes, the group budgets of Pareto; the means of values, which are sums of floating-point numbers.
* Of evidence: looking up one record or attempt and listing (they change nothing), damage of a bundle by whoever ignores its
  lock while it is being read, `.staging-*` directories of analyses, which no quota counts.
* Of reports: floating-point rounding, labels, units and times; how a run selector of a flow is matched with a file's fields.
* Within modelled parts: path and symlink validation, JSON encoding, error texts, memory and disk
  arithmetic outside `EavParts`, `SpillStore`, `WriterCache`, `ParetoScan` and `SanityPublish` (an exhausted budget is an operation that
  may fail), and a power failure that loses an unsynced rename. A removed file is gone and a renamed one is there as soon as the call
  returns.

## 8. What is left

1. **`SpillStore` on its own** with records of several sizes, for its arithmetic at the limits.
2. **Several heads**: all readers key by head and site; one head and two sites are checked by TLC, any number is proved.
