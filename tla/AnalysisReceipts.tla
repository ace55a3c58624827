-------------------------- MODULE AnalysisReceipts --------------------------
(***************************************************************************)
(* viewer/analysis.rs: a request is run over retained evidence.  Every     *)
(* piece is opened twice, once for what it holds and once for its rows,    *)
(* and the lock is given up in between; the result and its receipt are     *)
(* written to a directory of their own and renamed to the name of both.    *)
(*                                                                         *)
(* With the viewer and with retention these are the commands that share a  *)
(* dataset's evidence: Spec runs a few of them, by several processes, with *)
(* kills, errors at every step, a source that is rewritten and damage.     *)
(***************************************************************************)
EXTENDS RetainedEvidence, AnalysisOps

CONSTANTS
  AttemptRows,   \* body -> attempts
  Request,
  InitialBundles,
  Views,         \* whether viewer sessions start as well
  Retentions,    \* <<snapshot, source>> that are asked for
  Budget         \* how many commands, rewrites, kills and damages; of the last three together

ASSUME RowsAssumption == AttemptRows \in [Body -> Seq(AttemptRecord)]
ASSUME RetentionAssumption ==
  \A r \in Retentions : r[1] \in DOMAIN Catalog /\ r[2] \in SourcesIn(r[1])

\* What parse_request and verify_snapshot let through.
ASSUME RequestAssumption ==
  \A r \in Request :
    r \in [op : {"yield", "groups", "retest"}, snapshot : DOMAIN Catalog,
           ids : Seq(EvidenceId) \ {<<>>}, population : {"all_attempts", "latest_device"},
           scope : {r.scope}, exclude : {r.exclude}, allow_partial : BOOLEAN]

Occurrences(rows, key) == Cardinality({i \in DOMAIN rows : rows[i] = key})

\* What retained evidence keeps of the source that its snapshot names.
SameMeasurements(id) ==
  \A key \in Key :
    Occurrences(MeasuredRows[id.body], key) = Occurrences(CatalogSource(id).rows, key)

\* What earlier retentions left: as many as fit, each made as RetainStep makes them.
ASSUME BundlesAssumption ==
  \A ids \in InitialBundles :
    /\ IsFiniteSet(ids) /\ ids \subseteq EvidenceId /\ Cardinality(ids) <= DiskLimit
    /\ \A id \in ids : id.body = BodyOf[id.file] /\ SameMeasurements(id)

VARIABLES
  receipts,   \* published analyses: [request, result] -> files
  spent       \* what happened so far of Budget

vars == <<cacheVars, job, spillVars, evidenceVars, receipts, spent>>

AttemptsOf(id) == AttemptRows[id.body]
Wanted(p) == job[p].cmd.request
Analyzes(p) == Running(p) /\ job[p].cmd.op = "analyze"
SourcesLeftOut(p) == SourcesIn(Wanted(p).snapshot) \ job[p].seen
EvidenceFor(p, source) ==
  CHOOSE id \in {Wanted(p).ids[i] : i \in DOMAIN Wanted(p).ids} : id.source = source

StartAnalyze(p, request) ==
  /\ ~Running(p)
  /\ Catalog[request.snapshot].complete \/ request.allow_partial
  /\ job' = [job EXCEPT ![p] = [NoJob EXCEPT !.cmd = [op |-> "analyze", request |-> request],
                                             !.left = request.ids, !.pc = "lock"]]
  /\ UNCHANGED <<cacheVars, spillVars, evidenceVars, receipts>>

\* The next piece is opened when its turn comes; after the last one comes pc.
Proceed(p, pc) == IF Len(job[p].left) = 1 THEN pc ELSE "lock"

\* Phase 1, while there is no result: the piece is noted and its lock given up.
NoteEvidence(p) ==
  /\ At(p, "opened") /\ Analyzes(p) /\ job[p].result = None
  /\ Opening(p).snapshot = Wanted(p).snapshot /\ Opening(p).source \notin job[p].seen
  /\ job' = [job EXCEPT ![p].seen = @ \cup {Opening(p).source}, ![p].left = Tail(@),
                        ![p].pc = Proceed(p, "compile")]
  /\ guard' = None
  /\ UNCHANGED <<cacheVars, spillVars, bundles, abandoned, receipts>>

Compiles(p) ==
  LET rows(source) == AttemptsOf(EvidenceFor(p, source))
  IN CompileRequest(Wanted(p),
       [source \in job[p].seen |-> {rows(source)[i].run : i \in DOMAIN rows(source)}],
       [source \in job[p].seen |-> Len(rows(source))])

Compile(p) ==
  /\ At(p, "compile") /\ Compiles(p)
  /\ SourcesLeftOut(p) # {} => Wanted(p).allow_partial
  /\ job' = [job EXCEPT ![p].result = ZeroResult(Wanted(p).op), ![p].left = Wanted(p).ids,
                        ![p].pc = "lock"]
  /\ UNCHANGED <<cacheVars, spillVars, evidenceVars, receipts>>

\* What a request makes of one piece.
Part == [request \in Request |->
           [id \in EvidenceId |-> Reduce(AttemptsOf(id), id.source, request)]]

\* Phase 2: all rows of the piece are read under its lock and added to the result.
ScanAttempts(p) ==
  /\ At(p, "opened") /\ Analyzes(p) /\ job[p].result # None
  /\ job' = [job EXCEPT ![p].result = AddResults(Wanted(p).op, @, Part[Wanted(p)][Opening(p)]),
                        ![p].left = Tail(@), ![p].pc = Proceed(p, "receipt")]
  /\ guard' = None
  /\ UNCHANGED <<cacheVars, spillVars, bundles, abandoned, receipts>>

Execution(p) ==
  [request |-> Wanted(p),
   result |-> [numbers |-> job[p].result, missing |-> SourcesLeftOut(p)]]

WriteResult(p) ==
  /\ At(p, "receipt") /\ Execution(p) \notin DOMAIN receipts
  /\ job' = [job EXCEPT ![p].files = {"result"}, ![p].pc = "write"]
  /\ UNCHANGED <<cacheVars, spillVars, evidenceVars, receipts>>

WriteReceipt(p) ==
  /\ At(p, "write")
  /\ job' = [job EXCEPT ![p].files = @ \cup {"receipt"}, ![p].pc = "expose"]
  /\ UNCHANGED <<cacheVars, spillVars, evidenceVars, receipts>>

RenameReceipt(p) ==
  /\ At(p, "expose") /\ Execution(p) \notin DOMAIN receipts
  /\ receipts' = [e \in DOMAIN receipts \cup {Execution(p)} |->
                    IF e = Execution(p) THEN job[p].files ELSE receipts[e]]
  /\ Leave(p) /\ UNCHANGED <<cacheVars, spillVars, evidenceVars>>

AnalyzeStep(p) ==
  \/ NoteEvidence(p) \/ Compile(p) \/ ScanAttempts(p)
  \/ WriteResult(p) \/ WriteReceipt(p) \/ RenameReceipt(p)

\* An execution that exists is compared with this one, and is the answer or an error.
AnalysisRefused(p) ==
  \/ /\ At(p, "opened") /\ Analyzes(p) /\ job[p].result = None
     /\ Opening(p).snapshot # Wanted(p).snapshot \/ Opening(p).source \in job[p].seen
  \/ At(p, "compile") /\ (~Compiles(p) \/ (SourcesLeftOut(p) # {} /\ ~Wanted(p).allow_partial))
  \/ At(p, "receipt") /\ Execution(p) \in DOMAIN receipts
  \/ At(p, "expose") /\ Execution(p) \in DOMAIN receipts

(***************************************************************************)
(* All commands.                                                           *)
(***************************************************************************)
Init ==
  /\ file \in File /\ caches = [h \in {} |-> None] /\ building = 0
  /\ job = [p \in Proc |-> NoJob] /\ SpillInit
  /\ guard = None /\ abandoned = 0
  /\ \E ids \in InitialBundles : bundles = [id \in ids |-> TRUE]
  /\ receipts = [e \in {} |-> {}]
  /\ spent = [b \in {"start", "rewrite", "kill", "damage"} |-> 0]

Trouble == spent["rewrite"] + spent["kill"] + spent["damage"]
Spend(b) ==
  /\ spent[b] < Budget[b] /\ (b # "start" => Trouble < Budget["trouble"])
  /\ spent' = [spent EXCEPT ![b] = @ + 1]

Start(p) ==
  /\ Spend("start")
  /\ \/ Views /\ StartView(p) /\ UNCHANGED <<spillVars, evidenceVars, receipts>>
     \/ \E r \in Retentions : StartRetain(p, r[1], r[2]) /\ UNCHANGED receipts
     \/ \E id \in DOMAIN bundles : StartVerify(p, id) /\ UNCHANGED receipts
     \/ \E request \in Request : StartAnalyze(p, request)

Refuse(p) ==
  /\ Running(p) /\ (RetentionRefused(p) \/ OpenRefused(p) \/ AnalysisRefused(p))
  /\ Return(p) /\ UNCHANGED receipts

CommandStep(p) ==
  /\ \/ PrepareStep(p) /\ UNCHANGED <<spillVars, evidenceVars, receipts>>
     \/ RetainStep(p) /\ UNCHANGED receipts
     \/ OpenStep(p) /\ UNCHANGED receipts
     \/ AnalyzeStep(p)
     \/ Refuse(p)
  /\ UNCHANGED spent

EndSession(p) == EndView(p) /\ UNCHANGED <<spillVars, evidenceVars, receipts, spent>>

\* Cancelled, out of a budget, or an error of the file system, at any step.
Fail(p) == Running(p) /\ Return(p) /\ UNCHANGED <<receipts, spent>>

\* The system releases the lock; nothing else is cleaned up, now or later.
Kill(p) ==
  /\ Running(p) /\ Spend("kill") /\ Leave(p)
  /\ building' = IF Builds(p) THEN building + 1 ELSE building
  /\ abandoned' = IF job[p].staged THEN abandoned + 1 ELSE abandoned
  /\ guard' = IF guard = p THEN None ELSE guard
  /\ IF guard = p THEN SpillDrop ELSE UNCHANGED spillVars
  /\ UNCHANGED <<file, caches, bundles, receipts>>

Disturb ==
  \/ /\ Spend("rewrite") /\ \E f \in File : Rewrite(f)
     /\ UNCHANGED <<spillVars, evidenceVars, receipts>>
  \/ /\ Spend("damage")
     /\ \/ \E h \in DOMAIN caches : DamageCache(h) /\ UNCHANGED <<spillVars, evidenceVars>>
        \/ \E id \in DOMAIN bundles : DamageBundle(id)
     /\ UNCHANGED receipts

Next == Disturb \/ \E p \in Proc : Start(p) \/ CommandStep(p) \/ EndSession(p) \/ Fail(p) \/ Kill(p)

\* Every command is run on by the system; users need not end a session.
Spec == Init /\ [][Next]_vars /\ \A p \in Proc : WF_vars(CommandStep(p))
-----------------------------------------------------------------------------
\* Directories are staged in the workspace by the holder of the lock alone, and so the
\* workspace, with what killed processes left, never outgrows its budget: no two commands
\* take the same room.
StageUnderGuard ==
  /\ \A p \in Proc : job[p].staged => guard = p
  /\ Managed <= DiskLimit

\* A cache, and retained evidence, holds the body of the file it is named by, unless the
\* source was replaced and put back while it was read: hashes before and after do not see
\* that, and nothing compares the hash of the file with that of the content.
CacheHoldsItsSource ==
  \/ spent["rewrite"] >= 2
  \/ /\ \A h \in DOMAIN caches : caches[h].body = BodyOf[h]
     /\ \A id \in DOMAIN bundles : id.body = BodyOf[id.file]

SpillSound == SpillAccounts /\ SortLosesNothing

\* Evidence that is retained has the rows of its snapshot's source, each as often: also
\* when the source was replaced and put back, and when comparing ran out of disk.  And an
\* analysis that can be seen has its result beside the receipt that vouches for it,
\* whoever was killed while writing them.
RowsRetained ==
  /\ \A id \in DOMAIN bundles : SameMeasurements(id)
  /\ \A e \in DOMAIN receipts : receipts[e] = {"result", "receipt"}

BoundIds == {id \in EvidenceId : id.file = CatalogSource(id).file}
RowsById == [id \in EvidenceId |-> AttemptsOf(id)]
CatalogSources == [s \in DOMAIN Catalog |-> SourcesIn(s)]
Archive ==
  INSTANCE EvidenceArchive
    WITH Evidence <- EvidenceId, Bound <- BoundIds, RowsIn <- RowsById, SourcesOf <- CatalogSources,
         published <- DOMAIN bundles, answers <- DOMAIN receipts

\* Bundles are bound and stay; a published analysis is the answer to its request.
ImplementsArchive == Archive!ArchiveSpec

\* A command ends by itself, but for a session that the user keeps open: no lock is waited
\* for, and a process that was killed under the lock holds nobody up.
CommandsEnd == \A p \in Proc : Running(p) ~> (~Running(p) \/ At(p, "serve"))
=============================================================================
