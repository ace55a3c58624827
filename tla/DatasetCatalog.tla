--------------------------- MODULE DatasetCatalog ---------------------------
(***************************************************************************)
(* Managed dataset conversion: stdf-parquet/src/catalog.rs (convert_dataset, *)
(* recover_dataset, publish, atomic_write, CatalogGuard) together with the  *)
(* per-generation publication it calls in dataset/fragments.rs and the      *)
(* DatasetLock marker of dataset.rs.                                        *)
(*                                                                          *)
(* Several commands run at once, in processes that can be killed between    *)
(* any two file operations, while the STDF sources they read are edited by  *)
(* somebody else.  One action is one durable or observable file operation.  *)
(* A SHA-256 or FNV digest of a file is the content it was computed from;   *)
(* fragments are named by the content their rows came from.                 *)
(***************************************************************************)
EXTENDS Naturals, Sequences, FiniteSets

CONSTANTS
  Proc,          \* slots in which a command may run
  Pid,           \* operating-system process ids; a dead process' id is reused
  Source,        \* canonical paths of STDF inputs
  Content,       \* the byte contents a source may have
  Malformed,     \* contents that do not decode
  Options,       \* fingerprints of writer options and partition keys
  Batches,       \* argument lists: sequences of inputs, duplicates allowed
  MaxRevision,   \* the largest catalog revision (u64::MAX in the code)
  Budget,        \* how many commands, kills and environment events may happen
  Missing,       \* the "content" of a source that does not exist
  Orphan,        \* owner of a file left behind by a killed process
  None,          \* no process, no entry, no catalog file
  \* State of objects/<generation>/.zstdf-convert.lock, beside the pid it names
  \* and the slot that created it and has not written its pid yet:
  NoDir,         \* its directory does not exist
  Unlocked       \* the directory exists, the marker does not

BudgetKeys == {"convert", "recover", "legacy", "crash", "edit", "damage"}

ASSUME ConstantsAssumption ==
  /\ Proc # {} /\ Pid # {} /\ Source # {} /\ Options # {}
  /\ Malformed \subseteq Content
  /\ Batches \subseteq Seq(Source)
  /\ MaxRevision \in Nat
  /\ Budget \in [BudgetKeys -> Nat]
  /\ Missing \notin Content
  /\ Orphan \notin Proc
  /\ None \notin Proc \cup Pid \cup Source
  /\ Pid \cap Proc = {} /\ {NoDir, Unlocked} \cap (Pid \cup Proc) = {}
  /\ NoDir # Unlocked

Generation == [source : Source, sha : Content, opts : Options]

ObjectState == {"absent", "intact", "damaged"}
\* SourceVersion: the hash of the source, the options, the content the
\* fragments were written from, and the state the fragment hashes vouch for.
Entry == [sha : Content, opts : Options, rows : Content, hash : ObjectState]
NoEntry == [s \in Source |-> None]
Status == {"running", "complete", "partial", "failed", "interrupted"}
Run == [id : Nat, status : Status, completed : Nat, failures : SUBSET Source]
Catalog == [revision : Nat, sources : [Source -> Entry \cup {None}], run : Run]

\* A dataset without a catalog, and a source without an entry, are told from those with one.
ASSUME NoneAssumption == None \notin Catalog \cup Entry

\* impl Default for DatasetCatalog
DefaultCatalog ==
  [revision |-> 0, sources |-> NoEntry,
   run |-> [id |-> 0, status |-> "complete", completed |-> 0, failures |-> {}]]

Kind == {"none", "convert", "recover", "legacy"}
Publishing == {"none", "begin", "commit", "failure", "finish", "interrupt"}
Job == [kind : Kind, id : Nat, batch : Seq(Source), todo : Seq(Source),
        seen : SUBSET Source, opts : Options \cup {None}, failFast : BOOLEAN,
        input : Source \cup {None}, gen : Generation \cup {None},
        rows : Content \cup {None}, publishing : Publishing,
        dirs : SUBSET Generation, owner : Pid \cup {None}]
IdleJob == [kind |-> "none", id |-> 0, batch |-> <<>>, todo |-> <<>>,
            seen |-> {}, opts |-> None, failFast |-> FALSE, input |-> None,
            gen |-> None, rows |-> None, publishing |-> "none", dirs |-> {},
            owner |-> None]

VARIABLES
  guard,     \* holder of the kernel lock on .catalog.guard, or None
  file,      \* _catalog.json, or None when it was never published
  temps,     \* owners of _catalog.json.tmp.* files
  marker,    \* per generation: the DatasetLock marker
  objects,   \* per generation and content: the published source directory
  staging,   \* per generation: owners of .staging-* directories
  content,   \* what each source file holds now
  pc, pid,   \* per process: next step and process id
  cat,       \* per process: the catalog value convert_dataset works on
  job,       \* per process: arguments and locals of the command
  budget

diskVars == <<file, temps, marker, objects, staging>>
vars == <<guard, diskVars, content, pc, pid, cat, job, budget>>

-----------------------------------------------------------------------------
\* Steps of convert_dataset, of the fragment writer (the only steps a guardless
\* writer takes) and of recover_dataset.
PublishPcs == {"stage", "replace"}
FragmentPcs == {"plan", "lock", "mark", "open", "write", "rename", "unlock"}
AttemptPcs == FragmentPcs \cup {"record"}
ConvertPcs == {"load", "next", "reload"} \cup AttemptPcs
RecoverPcs == {"scan", "dirs", "owner", "clear", "relock", "remark", "sweep"}
Pcs == {"idle", "guard"} \cup PublishPcs \cup ConvertPcs \cup RecoverPcs

\* Where the process owns the marker file of job.gen
LockedPcs == {"mark", "open", "write", "rename", "unlock", "remark", "sweep"}

Alive(i) == \E p \in Proc : pid[p] = i
Init ==
  /\ guard = None /\ file = None /\ temps = {}
  /\ marker = [g \in Generation |-> NoDir]
  /\ objects = [g \in Generation |-> [c \in Content |-> "absent"]]
  /\ staging = [g \in Generation |-> {}]
  /\ content \in [Source -> Content]
  /\ pc = [p \in Proc |-> "idle"]
  /\ pid = [p \in Proc |-> None]
  /\ cat = [p \in Proc |-> DefaultCatalog]
  /\ job = [p \in Proc |-> IdleJob]
  /\ budget = Budget

Spend(k) == budget[k] > 0 /\ budget' = [budget EXCEPT ![k] = @ - 1]

\* Returning drops CatalogGuard (and the kernel drops it for a killed process).
Exit(p) ==
  /\ pc' = [pc EXCEPT ![p] = "idle"]
  /\ pid' = [pid EXCEPT ![p] = None]
  /\ cat' = [cat EXCEPT ![p] = DefaultCatalog]
  /\ job' = [job EXCEPT ![p] = IdleJob]
  /\ guard' = IF guard = p THEN None ELSE guard

Goto(p, to) == pc' = [pc EXCEPT ![p] = to] /\ UNCHANGED <<guard, pid>>

-----------------------------------------------------------------------------
(* Starting a command *)

Start(p, k, at, params) ==
  /\ pc[p] = "idle" /\ Spend(k)
  /\ \E i \in Pid : ~Alive(i) /\ pid' = [pid EXCEPT ![p] = i]
  /\ pc' = [pc EXCEPT ![p] = at]
  /\ job' = [job EXCEPT ![p] = params]
  /\ UNCHANGED <<guard, diskVars, content, cat>>

StartConvert(p) ==
  \E b \in Batches, o \in Options, ff \in BOOLEAN :
    /\ b # <<>>
    /\ Start(p, "convert", "guard",
          [IdleJob EXCEPT !.kind = "convert", !.batch = b, !.todo = b, !.opts = o,
           !.id = Budget["convert"] - budget["convert"] + 1, !.failFast = ff])

StartRecover(p) == Start(p, "recover", "guard", [IdleJob EXCEPT !.kind = "recover"])

\* files_to_partitioned_fragments called on an object directory by a writer
\* that does not know the kernel lock ("legacy writer").
StartLegacy(p) ==
  \E g \in Generation :
    Start(p, "legacy", "plan",
          [IdleJob EXCEPT !.kind = "legacy", !.input = g.source, !.gen = g])

\* Faulty variant for mutation runs: the lock is taken without asking who has it.
AcquireGuardAlways(p) ==
  /\ pc[p] = "guard"
  /\ guard' = p
  /\ pc' = [pc EXCEPT ![p] = IF job[p].kind = "convert" THEN "load" ELSE "scan"]
  /\ UNCHANGED <<diskVars, content, pid, cat, job, budget>>

\* CatalogGuard::acquire: try_lock never waits.
AcquireGuard(p) ==
  /\ pc[p] = "guard" /\ guard = None
  /\ guard' = p
  /\ pc' = [pc EXCEPT ![p] = IF job[p].kind = "convert" THEN "load" ELSE "scan"]
  /\ UNCHANGED <<diskVars, content, pid, cat, job, budget>>

GuardRefused(p) ==
  /\ pc[p] = "guard" /\ guard # None
  /\ Exit(p) /\ UNCHANGED <<diskVars, content, budget>>

-----------------------------------------------------------------------------
(* publish and atomic_write: revision + 1, temp file, rename, directory sync *)

Publish(p, what, c) ==
  /\ cat' = [cat EXCEPT ![p] = c]
  /\ job' = [job EXCEPT ![p] = [@ EXCEPT !.publishing = what]]
  /\ Goto(p, "stage")

StageCatalog(p) ==
  /\ pc[p] = "stage" /\ cat[p].revision < MaxRevision
  /\ cat' = [cat EXCEPT ![p] = [@ EXCEPT !.revision = cat[p].revision + 1]]
  /\ temps' = temps \cup {p}
  /\ Goto(p, "replace")
  /\ UNCHANGED <<file, marker, objects, staging, content, job, budget>>

\* What the caller of publish does with Ok and with Err.
PublishReturnsOk(p) ==
  IF job[p].publishing \in
       {"begin", "commit"} \cup (IF job[p].failFast THEN {} ELSE {"failure"})
  THEN Goto(p, "next") /\ UNCHANGED <<cat, job>>
  ELSE Exit(p)
PublishReturnsErr(p) ==
  IF job[p].publishing = "commit"
  THEN Goto(p, "reload") /\ UNCHANGED <<cat, job>>
  ELSE Exit(p)

\* The rename; its directory sync may fail after the new catalog is in place.
ReplaceCatalog(p) ==
  /\ pc[p] = "replace" /\ p \in temps
  /\ file' = cat[p] /\ temps' = temps \ {p}
  /\ PublishReturnsOk(p) \/ PublishReturnsErr(p)
  /\ UNCHANGED <<marker, objects, staging, content, budget>>

\* Budget or revision exhausted, temp not writable, rename refused: atomic_write
\* removes its own temp file and leaves the old catalog.
PublishFails(p) ==
  /\ pc[p] \in PublishPcs
  /\ temps' = temps \ {p}
  /\ PublishReturnsErr(p)
  /\ UNCHANGED <<file, marker, objects, staging, content, budget>>

-----------------------------------------------------------------------------
(* convert_dataset *)

BeginRun(p) ==
  /\ pc[p] = "load"
  /\ LET base == IF file = None THEN DefaultCatalog ELSE file
     IN Publish(p, "begin",
          [base EXCEPT !.run = [id |-> job[p].id, status |-> "running",
                                completed |-> 0, failures |-> {}]])
  /\ UNCHANGED <<diskVars, content, budget>>

Previous(p, s) == cat[p].sources[s]
SameVersion(e, sha, o) == e # None /\ e.sha = sha /\ e.opts = o
Object(s, e) == objects[[source |-> s, sha |-> e.sha, opts |-> e.opts]][e.rows]
\* verify_source: the fragments are still what their hashes vouch for.
Verifies(s, e) == Object(s, e) = e.hash

HasInput(p) == pc[p] = "next" /\ job[p].todo # <<>>

\* A source already seen in this run is skipped; one that does not exist fails
\* before it is remembered, so a second mention of it fails again.
SkipDuplicate(p) ==
  /\ HasInput(p) /\ Head(job[p].todo) \in job[p].seen
  /\ content[Head(job[p].todo)] # Missing
  /\ job' = [job EXCEPT ![p] = [@ EXCEPT !.todo = Tail(job[p].todo)]]
  /\ Goto(p, "next")
  /\ UNCHANGED <<diskVars, content, cat, budget>>

\* Faulty variant for mutation runs: an unreadable input is passed over in silence.
MissingInputIgnored(p) ==
  /\ HasInput(p) /\ content[Head(job[p].todo)] = Missing
  /\ job' = [job EXCEPT ![p] = [@ EXCEPT !.todo = Tail(job[p].todo)]]
  /\ Goto(p, "next")
  /\ UNCHANGED <<diskVars, content, cat, budget>>

MissingInput(p) ==
  /\ HasInput(p) /\ content[Head(job[p].todo)] = Missing
  /\ job' = [job EXCEPT ![p] =
       [@ EXCEPT !.todo = Tail(job[p].todo), !.input = Head(job[p].todo)]]
  /\ Goto(p, "reload")
  /\ UNCHANGED <<diskVars, content, cat, budget>>

\* Faulty variant for mutation runs: the existence check is dropped.
HashSourceUnchecked(p) ==
  LET s == Head(job[p].todo) IN
  /\ HasInput(p) /\ s \notin job[p].seen
  /\ job' = [job EXCEPT ![p] =
       [@ EXCEPT !.todo = Tail(job[p].todo), !.input = s,
          !.seen = job[p].seen \cup {s},
          !.gen = [source |-> s, sha |-> content[s], opts |-> job[p].opts]]]
  /\ Goto(p, "plan")
  /\ UNCHANGED <<diskVars, content, cat, budget>>

HashSource(p) ==
  LET s == Head(job[p].todo) IN
  /\ HasInput(p) /\ s \notin job[p].seen /\ content[s] # Missing
  /\ job' = [job EXCEPT ![p] =
       [@ EXCEPT !.todo = Tail(job[p].todo), !.input = s,
          !.seen = job[p].seen \cup {s},
          !.gen = [source |-> s, sha |-> content[s], opts |-> job[p].opts]]]
  /\ Goto(p, IF SameVersion(Previous(p, s), content[s], job[p].opts)
                  /\ ~Verifies(s, Previous(p, s))
             THEN "reload" ELSE "plan")
  /\ UNCHANGED <<diskVars, content, cat, budget>>

\* Faulty variant for mutation runs: failures are forgotten at the end.
FinishRunComplete(p) ==
  /\ pc[p] = "next" /\ job[p].todo = <<>>
  /\ Publish(p, "finish", [cat[p] EXCEPT !.run.status = "complete"])
  /\ UNCHANGED <<diskVars, content, budget>>

\* inputs exhausted: the final status is published
FinishRun(p) ==
  /\ pc[p] = "next" /\ job[p].todo = <<>>
  /\ Publish(p, "finish", [cat[p] EXCEPT !.run.status =
        IF cat[p].run.failures = {} THEN "complete" ELSE "partial"])
  /\ UNCHANGED <<diskVars, content, budget>>

\* Faulty variant for mutation runs: the second hash of the source is not compared.
RecordSourceUnchecked(p) ==
  LET s == job[p].input  g == job[p].gen IN
  /\ pc[p] = "record"
  /\ Publish(p, "commit",
       [cat[p] EXCEPT
          !.sources = [@ EXCEPT ![s] = [sha |-> g.sha, opts |-> g.opts,
                                        rows |-> job[p].rows,
                                        hash |-> objects[g][job[p].rows]]],
          !.run.completed = cat[p].run.completed + 1])
  /\ UNCHANGED <<diskVars, content, budget>>

\* After the fragments are published, the source is hashed again.
RecordSource(p) ==
  LET s == job[p].input  g == job[p].gen IN
  /\ pc[p] = "record" /\ content[s] = g.sha
  /\ Publish(p, "commit",
       [cat[p] EXCEPT
          !.sources = [@ EXCEPT ![s] = [sha |-> g.sha, opts |-> g.opts,
                                        rows |-> job[p].rows,
                                        hash |-> objects[g][job[p].rows]]],
          !.run.completed = cat[p].run.completed + 1])
  /\ UNCHANGED <<diskVars, content, budget>>

\* Faulty variant for mutation runs: the failure is added to the pending catalog.
ReloadCatalogPending(p) ==
  /\ pc[p] = "reload" /\ file # None
  /\ Publish(p, "failure",
       [cat[p] EXCEPT !.revision = file.revision,
          !.run.failures = @ \cup {job[p].input},
          !.run.status = IF job[p].failFast THEN "failed" ELSE "running"])
  /\ UNCHANGED <<diskVars, content, budget>>

\* A failed attempt: the pending change is dropped by reloading the file.
ReloadCatalog(p) ==
  /\ pc[p] = "reload" /\ file # None
  /\ Publish(p, "failure",
       [file EXCEPT !.run.failures = @ \cup {job[p].input},
          !.run.status = IF job[p].failFast THEN "failed" ELSE "running"])
  /\ UNCHANGED <<diskVars, content, budget>>

\* An unreadable guard, catalog, objects directory or root ends the command.
CommandFails(p) ==
  /\ pc[p] \in {"guard", "load", "reload", "scan", "dirs", "clear", "relock"}
  /\ Exit(p) /\ UNCHANGED <<diskVars, content, budget>>

-----------------------------------------------------------------------------
(* files_to_partitioned_fragments_with_limit on job.gen *)

PlanFragments(p) ==
  /\ pc[p] = "plan"
  /\ content[job[p].input] \in Content \ Malformed
  /\ job' = [job EXCEPT ![p] = [@ EXCEPT !.rows = content[job[p].input]]]
  /\ Goto(p, "lock")
  /\ UNCHANGED <<diskVars, content, cat, budget>>

\* Faulty variant for mutation runs: create instead of create_new.
LockObjectShared(p) ==
  /\ pc[p] = "lock"
  /\ marker' = [marker EXCEPT ![job[p].gen] = p]
  /\ Goto(p, "mark")
  /\ UNCHANGED <<file, temps, objects, staging, content, cat, job, budget>>

\* DatasetLock::acquire creates the marker, then writes the pid into it.
LockObject(p) ==
  /\ pc[p] = "lock" /\ marker[job[p].gen] \in {NoDir, Unlocked}
  /\ marker' = [marker EXCEPT ![job[p].gen] = p]
  /\ Goto(p, "mark")
  /\ UNCHANGED <<file, temps, objects, staging, content, cat, job, budget>>

\* The pid goes into the file that was created, which may have been removed
\* and replaced at its path by now.
WriteMarker(p) ==
  /\ pc[p] \in {"mark", "remark"}
  /\ marker' = [marker EXCEPT ![job[p].gen] = IF @ = p THEN pid[p] ELSE @]
  /\ Goto(p, IF pc[p] = "mark" THEN "open" ELSE "sweep")
  /\ UNCHANGED <<file, temps, objects, staging, content, cat, job, budget>>

\* An existing destination is reused after read_receipt checks it.
ReuseObject(p) ==
  /\ pc[p] = "open" /\ objects[job[p].gen][job[p].rows] = "intact"
  /\ Goto(p, "unlock")
  /\ UNCHANGED <<diskVars, content, cat, job, budget>>

OpenStage(p) ==
  /\ pc[p] = "open" /\ objects[job[p].gen][job[p].rows] = "absent"
  /\ staging' = [staging EXCEPT ![job[p].gen] = @ \cup {p}]
  /\ Goto(p, "write")
  /\ UNCHANGED <<file, temps, marker, objects, content, cat, job, budget>>

\* checked_records compares the second read with the planned digest.
WriteFragments(p) ==
  /\ pc[p] = "write" /\ content[job[p].input] = job[p].rows
  /\ Goto(p, "rename")
  /\ UNCHANGED <<diskVars, content, cat, job, budget>>

\* Faulty variant for mutation runs: the stage is dropped without being renamed.
StageDropped(p) ==
  /\ pc[p] = "rename" /\ p \in staging[job[p].gen]
  /\ staging' = [staging EXCEPT ![job[p].gen] = @ \ {p}]
  /\ Goto(p, "unlock")
  /\ UNCHANGED <<file, temps, marker, objects, content, cat, job, budget>>

RenameStage(p) ==
  /\ pc[p] = "rename" /\ p \in staging[job[p].gen]
  /\ objects[job[p].gen][job[p].rows] = "absent"
  /\ objects' = [objects EXCEPT ![job[p].gen][job[p].rows] = "intact"]
  /\ staging' = [staging EXCEPT ![job[p].gen] = @ \ {p}]
  /\ Goto(p, "unlock")
  /\ UNCHANGED <<file, temps, marker, content, cat, job, budget>>

\* DatasetLock::drop removes whatever is at the marker's path.
DropLock(p) ==
  /\ pc[p] = "unlock"
  /\ marker' = [marker EXCEPT ![job[p].gen] = Unlocked]
  /\ IF job[p].kind = "legacy" THEN Exit(p)
     ELSE Goto(p, "record") /\ UNCHANGED <<cat, job>>
  /\ UNCHANGED <<file, temps, objects, staging, content, budget>>

\* Faulty variant for mutation runs: a failed attempt is repeated until it succeeds.
AttemptRetries(p) ==
  /\ pc[p] \in AttemptPcs \ {"unlock"}
  /\ IF pc[p] \in LockedPcs
     THEN /\ marker' = [marker EXCEPT ![job[p].gen] = Unlocked]
          /\ staging' = [staging EXCEPT ![job[p].gen] = @ \ {p}]
     ELSE UNCHANGED <<marker, staging>>
  /\ Goto(p, "plan")
  /\ UNCHANGED <<file, temps, objects, content, cat, job, budget>>

\* Any error of an attempt unwinds Stage and DatasetLock.
AttemptFails(p) ==
  /\ pc[p] \in AttemptPcs \ {"unlock"}
  /\ IF pc[p] \in LockedPcs
     THEN /\ marker' = [marker EXCEPT ![job[p].gen] = Unlocked]
          /\ staging' = [staging EXCEPT ![job[p].gen] = @ \ {p}]
     ELSE UNCHANGED <<marker, staging>>
  /\ IF job[p].kind = "legacy" THEN Exit(p)
     ELSE Goto(p, "reload") /\ UNCHANGED <<cat, job>>
  /\ UNCHANGED <<file, temps, objects, content, budget>>

-----------------------------------------------------------------------------
(* recover_dataset *)

ScanObjects(p) ==
  /\ pc[p] = "scan"
  /\ job' = [job EXCEPT ![p] =
       [@ EXCEPT !.dirs = {g \in Generation : marker[g] # NoDir}]]
  /\ Goto(p, "dirs")
  /\ UNCHANGED <<diskVars, content, cat, budget>>

InspectMarker(p) ==
  /\ pc[p] = "dirs"
  /\ \E g \in job[p].dirs :
       /\ marker[g] \notin Proc
       /\ IF marker[g] = Unlocked
          THEN job' = [job EXCEPT ![p] = [@ EXCEPT !.gen = g]] /\ Goto(p, "relock")
          ELSE /\ job' = [job EXCEPT ![p] = [@ EXCEPT !.gen = g, !.owner = marker[g]]]
               /\ Goto(p, "owner")
  /\ UNCHANGED <<diskVars, content, cat, budget>>

\* An empty marker names no owner: recovery refuses it, whoever left it.
OwnerUnverifiable(p) ==
  /\ pc[p] = "dirs"
  /\ \E g \in job[p].dirs : marker[g] \in Proc
  /\ Exit(p) /\ UNCHANGED <<diskVars, content, budget>>

\* Faulty variant for mutation runs: the marker's owner is presumed dead.
OwnerPresumedDead(p) ==
  /\ pc[p] = "owner"
  /\ Goto(p, "clear")
  /\ UNCHANGED <<diskVars, content, cat, job, budget>>

OwnerDead(p) ==
  /\ pc[p] = "owner" /\ ~Alive(job[p].owner)
  /\ Goto(p, "clear")
  /\ UNCHANGED <<diskVars, content, cat, job, budget>>

\* process_alive says yes, or may not probe the process, which then exists.
OwnerActive(p) ==
  /\ pc[p] = "owner" /\ Alive(job[p].owner)
  /\ Exit(p) /\ UNCHANGED <<diskVars, content, budget>>

ClearMarker(p) ==
  /\ pc[p] = "clear" /\ marker[job[p].gen] # Unlocked
  /\ marker' = [marker EXCEPT ![job[p].gen] = Unlocked]
  /\ Goto(p, "relock")
  /\ UNCHANGED <<file, temps, objects, staging, content, cat, job, budget>>

RelockObject(p) ==
  /\ pc[p] = "relock" /\ marker[job[p].gen] = Unlocked
  /\ marker' = [marker EXCEPT ![job[p].gen] = p]
  /\ Goto(p, "remark")
  /\ UNCHANGED <<file, temps, objects, staging, content, cat, job, budget>>

\* Faulty variant for mutation runs: the sweep takes published directories as well.
SweepEverything(p) ==
  /\ pc[p] = "sweep"
  /\ staging' = [staging EXCEPT ![job[p].gen] = {}]
  /\ objects' = [objects EXCEPT ![job[p].gen] = [c \in Content |-> "absent"]]
  /\ marker' = [marker EXCEPT ![job[p].gen] = Unlocked]
  /\ job' = [job EXCEPT ![p] = [@ EXCEPT !.dirs = job[p].dirs \ {job[p].gen}]]
  /\ Goto(p, "dirs")
  /\ UNCHANGED <<file, temps, content, cat, budget>>

SweepStaging(p) ==
  /\ pc[p] = "sweep"
  /\ staging' = [staging EXCEPT ![job[p].gen] = {}]
  /\ marker' = [marker EXCEPT ![job[p].gen] = Unlocked]
  /\ job' = [job EXCEPT ![p] = [@ EXCEPT !.dirs = job[p].dirs \ {job[p].gen}]]
  /\ Goto(p, "dirs")
  /\ UNCHANGED <<file, temps, objects, content, cat, budget>>

SweepFails(p) ==
  /\ pc[p] \in {"remark", "sweep"}
  /\ marker' = [marker EXCEPT ![job[p].gen] = Unlocked]
  /\ Exit(p) /\ UNCHANGED <<file, temps, objects, staging, content, budget>>

\* Faulty variant for mutation runs: recovery marks every run as interrupted.
InterruptAnyRun(p) ==
  /\ pc[p] = "dirs" /\ job[p].dirs = {}
  /\ temps' = {}
  /\ IF file # None
     THEN Publish(p, "interrupt", [file EXCEPT !.run.status = "interrupted"])
     ELSE Exit(p)
  /\ UNCHANGED <<file, marker, objects, staging, content, budget>>

\* Orphaned catalog temp files go, and an interrupted run is marked.
InterruptRun(p) ==
  /\ pc[p] = "dirs" /\ job[p].dirs = {}
  /\ temps' = {}
  /\ IF file # None /\ file.run.status = "running"
     THEN Publish(p, "interrupt", [file EXCEPT !.run.status = "interrupted"])
     ELSE Exit(p)
  /\ UNCHANGED <<file, marker, objects, staging, content, budget>>

-----------------------------------------------------------------------------
(* Environment *)

Orphaned(S, p) == IF p \in S THEN (S \ {p}) \cup {Orphan} ELSE S

\* Killed between two file operations: the kernel releases the guard, files stay.
Crash(p) ==
  /\ pc[p] # "idle" /\ Spend("crash")
  /\ staging' = [g \in Generation |-> Orphaned(staging[g], p)]
  /\ temps' = Orphaned(temps, p)
  /\ Exit(p) /\ UNCHANGED <<file, marker, objects, content>>

EditSource(s) ==
  /\ Spend("edit")
  /\ \E c \in (Content \cup {Missing}) \ {content[s]} : content' = [content EXCEPT ![s] = c]
  /\ UNCHANGED <<guard, diskVars, pc, pid, cat, job>>

DamageObject(g, c) ==
  /\ Spend("damage") /\ objects[g][c] = "intact"
  /\ objects' = [objects EXCEPT ![g][c] = "damaged"]
  /\ UNCHANGED <<guard, file, temps, marker, staging, content, pc, pid, cat, job>>

-----------------------------------------------------------------------------
PublishStep(p) == StageCatalog(p) \/ ReplaceCatalog(p) \/ PublishFails(p)
ConvertStep(p) ==
  \/ BeginRun(p) \/ SkipDuplicate(p) \/ MissingInput(p) \/ HashSource(p)
  \/ FinishRun(p) \/ RecordSource(p) \/ ReloadCatalog(p)
FragmentStep(p) ==
  \/ PlanFragments(p) \/ LockObject(p) \/ WriteMarker(p) \/ ReuseObject(p)
  \/ OpenStage(p) \/ WriteFragments(p) \/ RenameStage(p) \/ DropLock(p)
  \/ AttemptFails(p)
RecoverStep(p) ==
  \/ ScanObjects(p) \/ InspectMarker(p) \/ OwnerUnverifiable(p)
  \/ OwnerDead(p) \/ OwnerActive(p) \/ ClearMarker(p) \/ RelockObject(p)
  \/ SweepStaging(p) \/ SweepFails(p) \/ InterruptRun(p)
Step(p) ==
  \/ AcquireGuard(p) \/ GuardRefused(p) \/ CommandFails(p)
  \/ PublishStep(p) \/ ConvertStep(p) \/ FragmentStep(p) \/ RecoverStep(p)
StartCommand(p) == StartConvert(p) \/ StartRecover(p) \/ StartLegacy(p)

Next ==
  \/ \E p \in Proc : StartCommand(p) \/ Step(p) \/ Crash(p)
  \/ \E s \in Source : EditSource(s)
  \/ \E g \in Generation, c \in Content : DamageObject(g, c)

Spec == Init /\ [][Next]_vars
\* A started process is scheduled; nobody is obliged to start one or to kill it.
FairSpec == Spec /\ \A p \in Proc : WF_vars(Step(p))

-----------------------------------------------------------------------------
(* Type invariant *)

TypeOK ==
  /\ guard \in Proc \cup {None}
  /\ file \in Catalog \cup {None}
  /\ temps \in SUBSET (Proc \cup {Orphan})
  /\ marker \in [Generation -> {NoDir, Unlocked} \cup Proc \cup Pid]
  /\ objects \in [Generation -> [Content -> ObjectState]]
  /\ staging \in [Generation -> SUBSET (Proc \cup {Orphan})]
  /\ content \in [Source -> Content \cup {Missing}]
  /\ pc \in [Proc -> Pcs]
  /\ pid \in [Proc -> Pid \cup {None}]
  /\ cat \in [Proc -> Catalog]
  /\ job \in [Proc -> Job]
  /\ budget \in [BudgetKeys -> Nat]

-----------------------------------------------------------------------------
(* Safety *)

\* Every entry of the committed catalog selects a published source directory,
\* whatever was killed or failed on the way to the commit.
CommittedPublished ==
  file # None =>
    \A s \in Source : file.sources[s] # None => Object(s, file.sources[s]) # "absent"

\* The fragments a committed entry selects were written from the very bytes
\* whose SHA-256 the entry records (checked by hashing before and after).
CommittedRowsMatchSource ==
  file # None =>
    \A s \in Source : file.sources[s] # None => file.sources[s].rows = file.sources[s].sha

\* A final status agrees with the failures recorded beside it, although the
\* failure list is rebuilt from the file after every error.
StatusAgreesWithFailures ==
  file # None =>
    /\ file.run.status = "complete" => file.run.failures = {}
    /\ file.run.status \in {"partial", "failed"} => file.run.failures # {}

\* At most one live process works behind the marker of an object directory,
\* although the marker is an ordinary file that recovery may remove.
OneObjectWriter ==
  \A p, q \in Proc :
    /\ p # q /\ pc[p] \in LockedPcs /\ pc[q] \in LockedPcs
    => job[p].gen # job[q].gen

\* A staging directory disappears under a process only by that process' own
\* step: recovery removes abandoned staging, never that of a live writer.  (It
\* may when one guardless writer follows another between recover_dataset's read
\* of the marker and its removal of it.)
RecoverySparesLiveStages ==
  [][\A p \in Proc, g \in Generation :
       p \in staging[g] /\ p \notin staging'[g] => pc'[p] # pc[p]]_vars

\* "interrupted" is only ever written over a run whose process is gone.
InterruptedRunIsAbandoned ==
  [][file' # file /\ file' # None /\ file'.run.status = "interrupted" =>
       \A p \in Proc : job[p].kind = "convert" /\ pc[p] # "guard"
                         => job[p].id # file'.run.id]_vars

\* When a run publishes "complete", every input of its argument list is
\* selected with this run's options, and "completed" counts each of them once.
CompleteRunCoversInputs ==
  [][\A p \in Proc :
       /\ file' # file /\ file' # None /\ file'.run.status = "complete"
       /\ pc[p] = "replace" /\ pc'[p] # "replace"
       => LET named == {job[p].batch[i] : i \in DOMAIN job[p].batch} IN
          /\ file'.run.completed = Cardinality(named)
          /\ \A s \in named : /\ file'.sources[s] # None
                              /\ file'.sources[s].opts = job[p].opts]_vars

\* Recovery says "writer process is still active" only of a process that is
\* really working in that object directory.
RefusesOnlyActiveWriters ==
  [][\A p \in Proc : OwnerActive(p) =>
       \E q \in Proc : /\ pid[q] = job[p].owner
                       /\ pc[q] \in LockedPcs /\ job[q].gen = job[p].gen]_vars

\* A reader of _catalog.json sees the abstract store.
PublishedDirectories ==
  {d \in [source : Source, sha : Content, opts : Options, rows : Content] :
     Object(d.source, d) # "absent"}
Store == INSTANCE CatalogStore WITH
  Hash <- ObjectState, RunId <- 1 .. Budget["convert"],
  published <- PublishedDirectories
ImplementsStore == Store!StoreSpec

-----------------------------------------------------------------------------
(* Liveness *)

\* Every started command returns, and so never keeps the dataset locked.
CommandsReturn == \A p \in Proc : pc[p] # "idle" ~> pc[p] = "idle"
=============================================================================
