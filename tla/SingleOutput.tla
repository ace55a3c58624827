---------------------------- MODULE SingleOutput ----------------------------
(***************************************************************************)
(* Conversion to one Parquet file per source: records_to_parquet_path_atomic *)
(* of stdf-parquet/src/lib.rs, used directly by `convert in out` (convert in *)
(* stdf-cli/src/main.rs) and under a lock file by                           *)
(* files_to_partitioned_parquet_dir of stdf-parquet/src/dataset.rs.          *)
(*                                                                          *)
(* Output, manifest (out.json) and temp files are separate files, and each  *)
(* removal, rename and existence check of them is a step of its own.        *)
(***************************************************************************)
EXTENDS Naturals, Sequences

CONSTANTS
  Proc,     \* slots in which a command may run
  Source,   \* STDF inputs
  Version,  \* contents of a source, told apart by their row count
  Batches,  \* argument lists of the directory command
  Budget,   \* how many commands, kills and edits may happen
  Empty,    \* a Parquet file without rows
  Partial,  \* a file whose writing has not finished
  Orphan,   \* owner of files left by a killed or failed command
  None

BudgetKeys == {"single", "directory", "crash", "edit"}

ASSUME OutputAssumption ==
  /\ Budget \in [BudgetKeys -> Nat]
  /\ Batches \subseteq Seq(Source)
  /\ {Empty, Partial, None} \cap Version = {}
  /\ Empty # Partial /\ Empty # None /\ Partial # None
  /\ Orphan \notin Proc /\ None \notin Proc \cup {Orphan}

\* The user names the output of one source; the directory command names it by
\* the digest of the planned bytes.
Path == [source : Source, digest : Version \cup {None}]
Temp == [owner : Proc \cup {Orphan}, path : Path, holds : Version \cup {Empty, Partial}]

Job == [kind : {"none", "single", "directory"}, overwrite : BOOLEAN,
        path : Path \cup {None}, todo : Seq(Source), plan : [Source -> Version \cup {None}],
        found : BOOLEAN, holds : Version \cup {Empty, None}]
NoJob == [kind |-> "none", overwrite |-> FALSE, path |-> None, todo |-> <<>>,
          plan |-> [s \in Source |-> None], found |-> FALSE, holds |-> None]

VARIABLES
  content,   \* what each source holds now
  output,    \* per path: the Parquet file, or None
  manifest,  \* per path: the version the manifest counts, or None
  temps,     \* <output>.tmp.<pid>.<nanos> files
  dirLock,   \* owner of .zstdf-convert.lock in the output directory, or None
  pc, job, budget

vars == <<content, output, manifest, temps, dirLock, pc, job, budget>>

WritePcs == {"exists", "clean", "create", "write", "commit", "rename", "remanifest", "manifest"}
Pcs == {"idle", "probe", "plan", "lock", "file"} \cup WritePcs

Init ==
  /\ content \in [Source -> Version]
  /\ output = [f \in Path |-> None] /\ manifest = [f \in Path |-> None]
  /\ temps = {} /\ dirLock = None
  /\ pc = [p \in Proc |-> "idle"] /\ job = [p \in Proc |-> NoJob]
  /\ budget = Budget

Spend(k) == budget[k] > 0 /\ budget' = [budget EXCEPT ![k] = @ - 1]
Goto(p, to) == pc' = [pc EXCEPT ![p] = to]
Mine(p) == {t \in temps : t.owner = p}
\* A command that ends leaves its temp file, if it has one, to nobody.
Abandoned(p) == (temps \ Mine(p)) \cup {[t EXCEPT !.owner = Orphan] : t \in Mine(p)}

\* Returning drops DatasetLock, which removes the lock file.
Exit(p) ==
  /\ Goto(p, "idle") /\ job' = [job EXCEPT ![p] = NoJob]
  /\ dirLock' = IF dirLock = p THEN None ELSE dirLock

-----------------------------------------------------------------------------
(* convert in out [--no-overwrite] *)

StartSingle(p) ==
  /\ pc[p] = "idle" /\ Spend("single")
  /\ \E s \in Source, overwrite \in BOOLEAN :
       job' = [job EXCEPT ![p] = [NoJob EXCEPT !.kind = "single", !.overwrite = overwrite,
                                    !.path = [source |-> s, digest |-> None]]]
  /\ Goto(p, "probe")
  /\ UNCHANGED <<content, output, manifest, temps, dirLock>>

\* With --no-overwrite and an output in place the source is not opened: the
\* writer is handed no records, since it is expected to return the summary.
ProbeOutput(p) ==
  /\ pc[p] = "probe"
  /\ job' = [job EXCEPT ![p].found = ~job[p].overwrite /\ output[job[p].path] # None]
  /\ Goto(p, "exists")
  /\ UNCHANGED <<content, output, manifest, temps, dirLock, budget>>

-----------------------------------------------------------------------------
(* convert in... --output-dir dir: files_to_partitioned_parquet_dir *)

StartDirectory(p) ==
  /\ pc[p] = "idle" /\ Spend("directory")
  /\ \E b \in Batches, overwrite \in BOOLEAN :
       job' = [job EXCEPT ![p] = [NoJob EXCEPT !.kind = "directory",
                                    !.overwrite = overwrite, !.todo = b]]
  /\ Goto(p, "plan")
  /\ UNCHANGED <<content, output, manifest, temps, dirLock>>

\* Every source is read once for its digest and row count, before the lock.
PlanSources(p) ==
  /\ pc[p] = "plan"
  /\ job' = [job EXCEPT ![p].plan = content]
  /\ Goto(p, "lock")
  /\ UNCHANGED <<content, output, manifest, temps, dirLock, budget>>

\* Faulty variant for mutation runs: an existing lock file is opened, not refused.
LockDirectoryShared(p) ==
  /\ pc[p] = "lock"
  /\ dirLock' = p
  /\ Goto(p, "file")
  /\ UNCHANGED <<content, output, manifest, temps, job, budget>>

LockDirectory(p) ==
  /\ pc[p] = "lock" /\ dirLock = None
  /\ dirLock' = p
  /\ Goto(p, "file")
  /\ UNCHANGED <<content, output, manifest, temps, job, budget>>

PlannedPath(p, s) == [source |-> s, digest |-> job[p].plan[s]]

\* verify_existing_output: manifest and Parquet footer count the planned rows.
ExistingMatches(f, v) == manifest[f] = v /\ output[f] = v

NextFile(p) ==
  /\ pc[p] = "file" /\ job[p].todo # <<>>
  /\ LET s == Head(job[p].todo)  f == PlannedPath(p, s) IN
       /\ output[f] # None /\ ~job[p].overwrite => ExistingMatches(f, job[p].plan[s])
       /\ job' = [job EXCEPT ![p].path = f, ![p].todo = Tail(@)]
  /\ Goto(p, "exists")
  /\ UNCHANGED <<content, output, manifest, temps, dirLock, budget>>

FilesDone(p) ==
  /\ pc[p] = "file" /\ job[p].todo = <<>>
  /\ Exit(p) /\ UNCHANGED <<content, output, manifest, temps, budget>>

\* The lock is not created and nothing has been written.
DirectoryFails(p) ==
  /\ pc[p] \in {"plan", "lock", "file"}
  /\ Exit(p) /\ UNCHANGED <<content, output, manifest, temps, budget>>

-----------------------------------------------------------------------------
(* records_to_parquet_path_atomic *)

FileDone(p) ==
  IF job[p].kind = "directory"
  THEN Goto(p, "file") /\ UNCHANGED <<job, dirLock>>
  ELSE Exit(p)

\* Faulty variant for mutation runs: --no-overwrite is forgotten.
KeepsNothing(p) == FALSE

Keeps(p) == output[job[p].path] # None /\ ~job[p].overwrite

\* An existing output with a readable manifest: its counts are the answer.
ReturnSummary(p) ==
  /\ pc[p] = "exists" /\ Keeps(p) /\ manifest[job[p].path] # None
  /\ FileDone(p)
  /\ UNCHANGED <<content, output, manifest, temps, budget>>

BeginWrite(p) ==
  /\ pc[p] = "exists" /\ ~Keeps(p)
  /\ Goto(p, "clean")
  /\ UNCHANGED <<content, output, manifest, temps, dirLock, job, budget>>

\* cleanup_orphaned_temp_files removes by name, whoever owns them; the open
\* file of a running writer lives on without a name.
CleanTemps(p) ==
  /\ pc[p] = "clean"
  /\ temps' = {t \in temps : t.path # job[p].path}
  /\ Goto(p, "create")
  /\ UNCHANGED <<content, output, manifest, dirLock, job, budget>>

CreateTemp(p) ==
  /\ pc[p] = "create"
  /\ temps' = temps \cup {[owner |-> p, path |-> job[p].path, holds |-> Partial]}
  /\ Goto(p, "write")
  /\ UNCHANGED <<content, output, manifest, dirLock, job, budget>>

\* Faulty variant for mutation runs: the digest of the second read is not compared.
WriteTempUnchecked(p) ==
  LET v == IF job[p].found THEN Empty ELSE content[job[p].path.source] IN
  /\ pc[p] = "write"
  /\ temps' = (temps \ Mine(p)) \cup {[t EXCEPT !.holds = v] : t \in Mine(p)}
  /\ job' = [job EXCEPT ![p].holds = v]
  /\ Goto(p, "commit")
  /\ UNCHANGED <<content, output, manifest, dirLock, budget>>

\* checked_records fails a directory conversion whose source has changed.
WriteTemp(p) ==
  LET v == IF job[p].found THEN Empty ELSE content[job[p].path.source] IN
  /\ pc[p] = "write"
  /\ job[p].kind = "directory" => v = job[p].plan[job[p].path.source]
  /\ temps' = (temps \ Mine(p)) \cup {[t EXCEPT !.holds = v] : t \in Mine(p)}
  /\ job' = [job EXCEPT ![p].holds = v]
  /\ Goto(p, "commit")
  /\ UNCHANGED <<content, output, manifest, dirLock, budget>>

\* Faulty variant for mutation runs: a write error does not stop the commit.
WriteErrorIgnored(p) ==
  /\ pc[p] = "write"
  /\ Goto(p, "commit")
  /\ UNCHANGED <<content, output, manifest, temps, dirLock, job, budget>>

WriteFails(p) ==
  /\ pc[p] = "write"
  /\ temps' = temps \ Mine(p)
  /\ Exit(p)
  /\ UNCHANGED <<content, output, manifest, budget>>

\* commit_temp_file: the old output goes before the new one is renamed.
RemoveOutput(p) ==
  /\ pc[p] = "commit" /\ ~Keeps(p)
  /\ output' = [output EXCEPT ![job[p].path] = None]
  /\ Goto(p, "rename")
  /\ UNCHANGED <<content, manifest, temps, dirLock, job, budget>>

RenameTemp(p) ==
  /\ pc[p] = "rename"
  /\ \E t \in Mine(p) : output' = [output EXCEPT ![t.path] = t.holds]
  /\ temps' = temps \ Mine(p)
  /\ Goto(p, "remanifest")
  /\ UNCHANGED <<content, manifest, dirLock, job, budget>>

\* write_manifest_atomic stages a file of its own and commits it the same way.
RemoveManifest(p) ==
  /\ pc[p] = "remanifest"
  /\ manifest' = [manifest EXCEPT ![job[p].path] = None]
  /\ Goto(p, "manifest")
  /\ UNCHANGED <<content, output, temps, dirLock, job, budget>>

RenameManifest(p) ==
  /\ pc[p] = "manifest"
  /\ manifest' = [manifest EXCEPT ![job[p].path] = job[p].holds]
  /\ FileDone(p)
  /\ UNCHANGED <<content, output, temps, budget>>

\* Every other error returns at once and leaves the temp file behind.
WriterFails(p) ==
  /\ pc[p] \in ({"probe"} \cup WritePcs) \ {"write"}
  /\ temps' = Abandoned(p)
  /\ Exit(p)
  /\ UNCHANGED <<content, output, manifest, budget>>

-----------------------------------------------------------------------------
(* Environment *)

\* A killed process leaves its files, among them the lock file.
Crash(p) ==
  /\ pc[p] # "idle" /\ Spend("crash")
  /\ temps' = Abandoned(p)
  /\ dirLock' = IF dirLock = p THEN Orphan ELSE dirLock
  /\ Goto(p, "idle") /\ job' = [job EXCEPT ![p] = NoJob]
  /\ UNCHANGED <<content, output, manifest>>

\* What the documentation tells the user to do after a crash.
RemoveStaleLock ==
  /\ dirLock = Orphan
  /\ dirLock' = None
  /\ UNCHANGED <<content, output, manifest, temps, pc, job, budget>>

EditSource(s) ==
  /\ Spend("edit")
  /\ \E v \in Version \ {content[s]} : content' = [content EXCEPT ![s] = v]
  /\ UNCHANGED <<output, manifest, temps, dirLock, pc, job>>

-----------------------------------------------------------------------------
WriteStep(p) ==
  \/ ReturnSummary(p) \/ BeginWrite(p) \/ CleanTemps(p) \/ CreateTemp(p)
  \/ WriteTemp(p) \/ WriteFails(p) \/ RemoveOutput(p) \/ RenameTemp(p)
  \/ RemoveManifest(p) \/ RenameManifest(p) \/ WriterFails(p)
DirectoryStep(p) ==
  \/ PlanSources(p) \/ LockDirectory(p) \/ NextFile(p) \/ FilesDone(p)
  \/ DirectoryFails(p)

Next ==
  \/ \E p \in Proc : \/ StartSingle(p) \/ StartDirectory(p) \/ ProbeOutput(p)
                     \/ DirectoryStep(p) \/ WriteStep(p) \/ Crash(p)
  \/ RemoveStaleLock
  \/ \E s \in Source : EditSource(s)

Spec == Init /\ [][Next]_vars

-----------------------------------------------------------------------------
TypeOK ==
  /\ content \in [Source -> Version]
  /\ output \in [Path -> Version \cup {Empty, Partial, None}]
  /\ manifest \in [Path -> Version \cup {Empty, None}]
  /\ temps \subseteq Temp
  /\ dirLock \in Proc \cup {Orphan, None}
  /\ pc \in [Proc -> Pcs]
  /\ job \in [Proc -> Job]
  /\ budget \in [BudgetKeys -> Nat]

\* Nothing incomplete is ever readable at an output path: not after a kill, not
\* after a failed write, not when one writer's cleanup removes another's temp.
OutputIsComplete == \A f \in Path : output[f] # Partial

\* A file named by the digest of its source holds that source's rows, and its
\* manifest counts them, although the sources are edited between plan and write.
DigestNamesContent ==
  \A f \in Path : f.digest # None =>
    output[f] \in {f.digest, None} /\ manifest[f] \in {f.digest, None}

\* Under the lock, only a writer that was told to overwrite takes a committed
\* file away, even for the moment between removal and rename.
DirectoryKeepsCommitted ==
  [][\A f \in Path : f.digest # None /\ output[f] # None /\ output'[f] # output[f] =>
       \E p \in Proc : dirLock = p /\ job[p].path = f /\ job[p].overwrite]_vars

\* No process loses its temp file to the cleanup of another one while the lock
\* file says that the directory is its own.
LockedTempsSurvive ==
  [][\A p \in Proc :
       job[p].kind = "directory" /\ pc[p] \in {"write", "commit", "rename"} /\ Mine(p) # {}
         => Mine(p)' # {} \/ pc'[p] # pc[p]]_vars

\* A --no-overwrite command that found an output in place reports the rows that
\* are there, and leaves the file alone.
RetryReturnsCommitted ==
  [][\A p \in Proc : job[p].found =>
       /\ ReturnSummary(p) => manifest[job[p].path] = output[job[p].path]
       /\ ~RenameTemp(p)]_vars
=============================================================================
