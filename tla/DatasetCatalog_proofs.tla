----------------------- MODULE DatasetCatalog_proofs -----------------------
(***************************************************************************)
(* Theorems about DatasetCatalog, for every value of its constants: first  *)
(* type correctness and what one directory and one guard promise, then     *)
(* that it implements CatalogStore.                                        *)
(***************************************************************************)
EXTENDS DatasetCatalog, FiniteSetTheorems, TLAPS

USE DEF diskVars, vars

-----------------------------------------------------------------------------
(* Type correctness *)

LEMMA DefaultCatalogType == DefaultCatalog \in Catalog
BY ConstantsAssumption DEF DefaultCatalog, Catalog, NoEntry, Run, Status

LEMMA IdleJobType == IdleJob \in Job
BY DEF IdleJob, Job, Kind, Publishing

LEMMA InitType == Init => TypeOK
BY DefaultCatalogType, IdleJobType, ConstantsAssumption
DEF Init, TypeOK, Pcs, ObjectState

LEMMA ExitType ==
  ASSUME TypeOK, NEW p \in Proc, Exit(p)
  PROVE  /\ guard' \in Proc \cup {None} /\ pc' \in [Proc -> Pcs]
         /\ pid' \in [Proc -> Pid \cup {None}] /\ cat' \in [Proc -> Catalog]
         /\ job' \in [Proc -> Job]
BY DefaultCatalogType, IdleJobType DEF Exit, TypeOK, Pcs

LEMMA GotoType ==
  ASSUME TypeOK, NEW p \in Proc, NEW to \in Pcs, Goto(p, to)
  PROVE  /\ guard' \in Proc \cup {None} /\ pc' \in [Proc -> Pcs]
         /\ pid' \in [Proc -> Pid \cup {None}]
BY DEF Goto, TypeOK

LEMMA CatalogParts ==
  ASSUME NEW c \in Catalog
  PROVE  /\ c.revision \in Nat /\ c.sources \in [Source -> Entry \cup {None}]
         /\ c.run \in Run /\ c.run.completed \in Nat
         /\ c.run.failures \in SUBSET Source
         /\ [c EXCEPT !.revision = @ + 1] \in Catalog
         /\ \A r \in Run : [c EXCEPT !.run = r] \in Catalog
         /\ \A st \in Status : [c EXCEPT !.run.status = st] \in Catalog
BY DEF Catalog, Run

LEMMA JobParts ==
  ASSUME NEW r \in Job
  PROVE  /\ r.kind \in Kind /\ r.todo \in Seq(Source) /\ r.seen \in SUBSET Source
         /\ r.opts \in Options \cup {None} /\ r.failFast \in BOOLEAN
         /\ r.input \in Source \cup {None} /\ r.gen \in Generation \cup {None}
         /\ r.rows \in Content \cup {None} /\ r.publishing \in Publishing
         /\ r.dirs \in SUBSET Generation /\ r.owner \in Pid \cup {None}
         /\ r.id \in Nat /\ r.batch \in Seq(Source)
BY DEF Job

LEMMA JobUpdates ==
  ASSUME NEW r \in Job
  PROVE  /\ \A w \in Publishing : [r EXCEPT !.publishing = w] \in Job
         /\ \A t \in Seq(Source) : [r EXCEPT !.todo = t] \in Job
         /\ \A t \in Seq(Source), s \in Source : [r EXCEPT !.todo = t, !.input = s] \in Job
         /\ \A t \in Seq(Source), s \in Source, S \in SUBSET Source, g \in Generation :
              [r EXCEPT !.todo = t, !.input = s, !.seen = S, !.gen = g] \in Job
         /\ \A c \in Content : [r EXCEPT !.rows = c] \in Job
         /\ \A D \in SUBSET Generation : [r EXCEPT !.dirs = D] \in Job
         /\ \A g \in Generation : [r EXCEPT !.gen = g] \in Job
         /\ \A g \in Generation, o \in Pid : [r EXCEPT !.gen = g, !.owner = o] \in Job
<1>1. /\ \A w \in Publishing : [r EXCEPT !.publishing = w] \in Job
      /\ \A t \in Seq(Source) : [r EXCEPT !.todo = t] \in Job
      /\ \A c \in Content : [r EXCEPT !.rows = c] \in Job
      /\ \A D \in SUBSET Generation : [r EXCEPT !.dirs = D] \in Job
  BY DEF Job
<1>2. \A g \in Generation : [r EXCEPT !.gen = g] \in Job
  BY DEF Job
<1>3. \A t \in Seq(Source), s \in Source : [r EXCEPT !.todo = t, !.input = s] \in Job
  BY DEF Job
<1>4. \A t \in Seq(Source), s \in Source, S \in SUBSET Source, g \in Generation :
        [r EXCEPT !.todo = t, !.input = s, !.seen = S, !.gen = g] \in Job
  BY DEF Job
<1>5. \A g \in Generation, o \in Pid : [r EXCEPT !.gen = g, !.owner = o] \in Job
  BY DEF Job
<1> QED
  BY <1>1, <1>2, <1>3, <1>4, <1>5

-----------------------------------------------------------------------------
(* What a process' locals hold at each step.  TypeOK alone is not inductive: *)
(* a marker is written from pid[p], an entry from job[p].gen and job[p].rows, *)
(* which are None until the steps that set them.                              *)

GuardedPcs == Pcs \ {"idle", "guard"}
HoldsGuard(p) == pc[p] \in GuardedPcs /\ job[p].kind # "legacy"

Local(p) ==
  /\ pc[p] # "idle" => pid[p] \in Pid
  /\ pc[p] = "guard" => job[p].kind \in {"convert", "recover"}
  /\ job[p].kind = "convert" => job[p].opts \in Options
  /\ pc[p] \in {"load", "next", "record", "reload"} => job[p].kind = "convert"
  /\ pc[p] \in FragmentPcs => job[p].kind \in {"convert", "legacy"}
  /\ pc[p] \in RecoverPcs => job[p].kind = "recover"
  /\ pc[p] \in PublishPcs =>
       /\ job[p].publishing \in {"begin", "commit", "failure", "finish"}
            => job[p].kind = "convert"
       /\ job[p].publishing = "interrupt" => job[p].kind = "recover"
       /\ job[p].publishing = "commit" => job[p].input \in Source
       /\ job[p].publishing # "none"
  /\ pc[p] \in AttemptPcs => job[p].gen \in Generation /\ job[p].input = job[p].gen.source
  /\ pc[p] \in AttemptPcs \ {"plan"} => job[p].rows \in Content
  /\ pc[p] = "reload" => job[p].input \in Source
  /\ pc[p] \in RecoverPcs \ {"scan", "dirs"} => job[p].gen \in Generation
  /\ \A g \in job[p].dirs : marker[g] # NoDir

IInv ==
  /\ TypeOK
  /\ \A k \in BudgetKeys : budget[k] <= Budget[k]
  /\ \A p \in Proc : Local(p)
  /\ \A p \in Proc : HoldsGuard(p) <=> guard = p

USE DEF PublishPcs, FragmentPcs, AttemptPcs, ConvertPcs, RecoverPcs, Pcs, GuardedPcs

LEMMA SpendKeepsBound ==
  ASSUME IInv, NEW k \in BudgetKeys, Spend(k)
  PROVE  /\ budget' \in [BudgetKeys -> Nat]
         /\ (\A j \in BudgetKeys : budget[j] <= Budget[j])'
<1>1. budget \in [BudgetKeys -> Nat] /\ Budget \in [BudgetKeys -> Nat]
  BY ConstantsAssumption DEF IInv, TypeOK
<1>2. budget[k] > 0 /\ budget' = [budget EXCEPT ![k] = @ - 1]
  BY DEF Spend
<1>3. \A j \in BudgetKeys : budget[j] <= Budget[j]
  BY DEF IInv
<1>4. budget' \in [BudgetKeys -> Nat]
  BY <1>1, <1>2
<1>5. \A j \in BudgetKeys : budget'[j] <= Budget[j]
  BY <1>1, <1>2, <1>3
<1> QED
  BY <1>4, <1>5

LEMMA PublishType ==
  ASSUME TypeOK, NEW p \in Proc, NEW w \in Publishing, NEW c \in Catalog,
         Publish(p, w, c)
  PROVE  /\ guard' \in Proc \cup {None} /\ pc' \in [Proc -> Pcs]
         /\ pid' \in [Proc -> Pid \cup {None}] /\ cat' \in [Proc -> Catalog]
         /\ job' \in [Proc -> Job]
<1>1. [job[p] EXCEPT !.publishing = w] \in Job
  BY JobUpdates DEF TypeOK
<1> QED
  BY <1>1, GotoType DEF Publish, TypeOK

LEMMA AcquireGuardType ==
  ASSUME IInv, NEW p \in Proc, AcquireGuard(p)
  PROVE  IInv'
<1>1. TypeOK'
  BY ConstantsAssumption DEF IInv, AcquireGuard, TypeOK
<1>2. (\A k \in BudgetKeys : budget[k] <= Budget[k])'
  BY DEF IInv, AcquireGuard
<1>3. (\A q \in Proc : Local(q))'
  BY ConstantsAssumption, JobParts DEF IInv, AcquireGuard, Local, TypeOK
<1>4. (\A q \in Proc : HoldsGuard(q) <=> guard = q)'
  BY ConstantsAssumption DEF IInv, Local, AcquireGuard, HoldsGuard, TypeOK
<1> QED
  BY <1>1, <1>2, <1>3, <1>4 DEF IInv

LEMMA GuardRefusedType ==
  ASSUME IInv, NEW p \in Proc, GuardRefused(p)
  PROVE  IInv'
<1>1. TypeOK'
  BY ExitType, ConstantsAssumption DEF IInv, GuardRefused, Exit, TypeOK
<1>2. (\A k \in BudgetKeys : budget[k] <= Budget[k])'
  BY DEF IInv, GuardRefused, Exit
<1>3. (\A q \in Proc : Local(q))'
  BY ConstantsAssumption, JobParts DEF IInv, GuardRefused, Exit, Local, TypeOK, IdleJob
<1>4. (\A q \in Proc : HoldsGuard(q) <=> guard = q)'
  BY ConstantsAssumption DEF IInv, Local, GuardRefused, Exit, HoldsGuard, TypeOK, IdleJob
<1> QED
  BY <1>1, <1>2, <1>3, <1>4 DEF IInv

LEMMA CommandFailsType ==
  ASSUME IInv, NEW p \in Proc, CommandFails(p)
  PROVE  IInv'
<1>1. TypeOK'
  BY ExitType, ConstantsAssumption DEF IInv, CommandFails, Exit, TypeOK
<1>2. (\A k \in BudgetKeys : budget[k] <= Budget[k])'
  BY DEF IInv, CommandFails, Exit
<1>3. (\A q \in Proc : Local(q))'
  BY ConstantsAssumption, JobParts DEF IInv, CommandFails, Exit, Local, TypeOK, IdleJob
<1>4. (\A q \in Proc : HoldsGuard(q) <=> guard = q)'
  BY ConstantsAssumption DEF IInv, Local, CommandFails, Exit, HoldsGuard, TypeOK, IdleJob
<1> QED
  BY <1>1, <1>2, <1>3, <1>4 DEF IInv

LEMMA StageCatalogType ==
  ASSUME IInv, NEW p \in Proc, StageCatalog(p)
  PROVE  IInv'
<1>a. cat[p] \in Catalog
  BY DEF IInv, TypeOK
<1>b. [cat[p] EXCEPT !.revision = cat[p].revision + 1] \in Catalog
  BY <1>a, CatalogParts
<1>1. TypeOK'
  BY <1>b DEF IInv, StageCatalog, Goto, TypeOK
<1>2. (\A k \in BudgetKeys : budget[k] <= Budget[k])'
  BY DEF IInv, StageCatalog, Goto
<1>3. (\A q \in Proc : Local(q))'
  BY ConstantsAssumption, JobParts DEF IInv, StageCatalog, Goto, Local, TypeOK
<1>4. (\A q \in Proc : HoldsGuard(q) <=> guard = q)'
  BY ConstantsAssumption DEF IInv, Local, StageCatalog, Goto, HoldsGuard, TypeOK
<1> QED
  BY <1>1, <1>2, <1>3, <1>4 DEF IInv

LEMMA ReplaceCatalogType ==
  ASSUME IInv, NEW p \in Proc, ReplaceCatalog(p)
  PROVE  IInv'
<1>1. TypeOK'
  <2>1. /\ file' = cat[p] /\ temps' = temps \ {p}
        /\ UNCHANGED <<marker, objects, staging, content, budget>>
    BY DEF ReplaceCatalog
  <2>2. CASE Exit(p)
    BY <2>1, <2>2, ExitType DEF IInv, TypeOK
  <2>3. CASE Goto(p, "next") /\ UNCHANGED <<cat, job>>
    BY <2>1, <2>3, GotoType DEF IInv, TypeOK
  <2>4. CASE Goto(p, "reload") /\ UNCHANGED <<cat, job>>
    BY <2>1, <2>4, GotoType DEF IInv, TypeOK
  <2> QED
    BY <2>2, <2>3, <2>4 DEF ReplaceCatalog, PublishReturnsOk, PublishReturnsErr
<1>2. (\A k \in BudgetKeys : budget[k] <= Budget[k])'
  BY DEF IInv, ReplaceCatalog, Goto, Exit, PublishReturnsOk, PublishReturnsErr
<1>3. (\A q \in Proc : Local(q))'
  BY ConstantsAssumption, JobParts DEF IInv, ReplaceCatalog, Goto, Exit, PublishReturnsOk, PublishReturnsErr, Local, TypeOK, IdleJob
<1>4. (\A q \in Proc : HoldsGuard(q) <=> guard = q)'
  BY ConstantsAssumption DEF IInv, Local, ReplaceCatalog, Goto, Exit, PublishReturnsOk, PublishReturnsErr, HoldsGuard, TypeOK, IdleJob
<1> QED
  BY <1>1, <1>2, <1>3, <1>4 DEF IInv

LEMMA PublishFailsType ==
  ASSUME IInv, NEW p \in Proc, PublishFails(p)
  PROVE  IInv'
<1>1. TypeOK'
  <2>1. /\ temps' = temps \ {p}
        /\ UNCHANGED <<file, marker, objects, staging, content, budget>>
    BY DEF PublishFails
  <2>2. CASE Exit(p)
    BY <2>1, <2>2, ExitType DEF IInv, TypeOK
  <2>3. CASE Goto(p, "reload") /\ UNCHANGED <<cat, job>>
    BY <2>1, <2>3, GotoType DEF IInv, TypeOK
  <2> QED
    BY <2>2, <2>3 DEF PublishFails, PublishReturnsErr
<1>2. (\A k \in BudgetKeys : budget[k] <= Budget[k])'
  BY DEF IInv, PublishFails, Goto, Exit, PublishReturnsErr
<1>3. (\A q \in Proc : Local(q))'
  <2>1. CASE job[p].publishing = "commit"
    <3>1. Goto(p, "reload") /\ UNCHANGED <<cat, job, marker>>
      BY <2>1 DEF PublishFails, PublishReturnsErr
    <3>2. job[p].kind = "convert" /\ job[p].input \in Source
      BY <2>1 DEF IInv, Local, PublishFails
    <3> QED
      BY <3>1, <3>2, JobParts DEF IInv, PublishFails, Goto, Local, TypeOK
  <2>2. CASE job[p].publishing # "commit"
    <3>1. Exit(p) /\ UNCHANGED marker
      BY <2>2 DEF PublishFails, PublishReturnsErr
    <3> QED
      BY <3>1, JobParts DEF IInv, Exit, Local, TypeOK, IdleJob
  <2> QED
    BY <2>1, <2>2
<1>4. (\A q \in Proc : HoldsGuard(q) <=> guard = q)'
  BY ConstantsAssumption DEF IInv, Local, PublishFails, Goto, Exit, PublishReturnsErr, HoldsGuard, TypeOK, IdleJob
<1> QED
  BY <1>1, <1>2, <1>3, <1>4 DEF IInv

LEMMA BeginRunType ==
  ASSUME IInv, NEW p \in Proc, BeginRun(p)
  PROVE  IInv'
<1>a. PICK c \in Catalog : Publish(p, "begin", c)
  <2>1. (IF file = None THEN DefaultCatalog ELSE file) \in Catalog
    BY DefaultCatalogType DEF IInv, TypeOK
  <2>2. [id |-> job[p].id, status |-> "running", completed |-> 0, failures |-> {}] \in Run
    BY JobParts DEF IInv, TypeOK, Run, Status
  <2> QED
    BY <2>1, <2>2, CatalogParts DEF BeginRun
<1>1. TypeOK'
  BY <1>a, PublishType DEF IInv, BeginRun, TypeOK, Publishing
<1>2. (\A k \in BudgetKeys : budget[k] <= Budget[k])'
  BY DEF IInv, BeginRun, Goto, Publish
<1>3. (\A q \in Proc : Local(q))'
  BY ConstantsAssumption, JobParts DEF IInv, BeginRun, Goto, Publish, Local, TypeOK
<1>4. (\A q \in Proc : HoldsGuard(q) <=> guard = q)'
  BY ConstantsAssumption DEF IInv, Local, BeginRun, Goto, Publish, HoldsGuard, TypeOK
<1> QED
  BY <1>1, <1>2, <1>3, <1>4 DEF IInv

LEMMA SkipDuplicateType ==
  ASSUME IInv, NEW p \in Proc, SkipDuplicate(p)
  PROVE  IInv'
<1>a. /\ Tail(job[p].todo) \in Seq(Source) /\ Head(job[p].todo) \in Source
      /\ job[p] \in Job
  BY JobParts DEF IInv, TypeOK, SkipDuplicate, HasInput
<1>b. [job[p] EXCEPT !.todo = Tail(job[p].todo)] \in Job
  BY <1>a, JobUpdates
<1>c. job' = [job EXCEPT ![p] = [job[p] EXCEPT !.todo = Tail(job[p].todo)]]
  BY DEF SkipDuplicate
<1>1. TypeOK'
  BY <1>b, <1>c DEF IInv, SkipDuplicate, Goto, TypeOK
<1>2. (\A k \in BudgetKeys : budget[k] <= Budget[k])'
  BY DEF IInv, SkipDuplicate, Goto, HasInput
<1>3. (\A q \in Proc : Local(q))'
  BY <1>a, ConstantsAssumption, JobParts DEF IInv, SkipDuplicate, Goto, HasInput, Local, TypeOK
<1>4. (\A q \in Proc : HoldsGuard(q) <=> guard = q)'
  BY ConstantsAssumption DEF IInv, Local, SkipDuplicate, Goto, HasInput, HoldsGuard, TypeOK
<1> QED
  BY <1>1, <1>2, <1>3, <1>4 DEF IInv

LEMMA MissingInputType ==
  ASSUME IInv, NEW p \in Proc, MissingInput(p)
  PROVE  IInv'
<1>a. /\ Tail(job[p].todo) \in Seq(Source) /\ Head(job[p].todo) \in Source
      /\ job[p] \in Job
  BY JobParts DEF IInv, TypeOK, MissingInput, HasInput
<1>b. [job[p] EXCEPT !.todo = Tail(job[p].todo), !.input = Head(job[p].todo)] \in Job
  BY <1>a, JobUpdates
<1>c. job' = [job EXCEPT ![p] = [job[p] EXCEPT !.todo = Tail(job[p].todo), !.input = Head(job[p].todo)]]
  BY DEF MissingInput
<1>1. TypeOK'
  BY <1>b, <1>c DEF IInv, MissingInput, Goto, TypeOK
<1>2. (\A k \in BudgetKeys : budget[k] <= Budget[k])'
  BY DEF IInv, MissingInput, Goto, HasInput
<1>3. (\A q \in Proc : Local(q))'
  BY <1>a, ConstantsAssumption, JobParts DEF IInv, MissingInput, Goto, HasInput, Local, TypeOK
<1>4. (\A q \in Proc : HoldsGuard(q) <=> guard = q)'
  BY ConstantsAssumption DEF IInv, Local, MissingInput, Goto, HasInput, HoldsGuard, TypeOK
<1> QED
  BY <1>1, <1>2, <1>3, <1>4 DEF IInv

LEMMA HashSourceType ==
  ASSUME IInv, NEW p \in Proc, HashSource(p)
  PROVE  IInv'
<1> DEFINE s == Head(job[p].todo)
<1> DEFINE g == [source |-> s, sha |-> content[s], opts |-> job[p].opts]
<1> DEFINE r == [job[p] EXCEPT !.todo = Tail(job[p].todo), !.input = s,
                             !.seen = job[p].seen \cup {s}, !.gen = g]
<1>a. /\ Tail(job[p].todo) \in Seq(Source) /\ s \in Source /\ job[p] \in Job
      /\ job[p].seen \cup {s} \in SUBSET Source
  BY JobParts DEF IInv, TypeOK, HashSource, HasInput
<1>b. g \in Generation
  BY <1>a DEF IInv, TypeOK, HashSource, HasInput, Generation, Local
<1>c. r \in Job
  BY <1>a, <1>b, JobUpdates
<1>d. /\ job' = [job EXCEPT ![p] = r] /\ pc[p] = "next"
      /\ pc' = [pc EXCEPT ![p] = "reload"] \/ pc' = [pc EXCEPT ![p] = "plan"]
      /\ UNCHANGED <<guard, pid, diskVars, content, cat, budget>>
  <2>1. job' = [job EXCEPT ![p] = r]
    BY DEF HashSource
  <2>2. \E to \in {"reload", "plan"} : Goto(p, to)
    BY DEF HashSource
  <2> QED
    BY <2>1, <2>2 DEF HashSource, Goto, HasInput
<1> HIDE DEF r
<1>e. /\ r.kind = job[p].kind /\ r.opts = job[p].opts /\ r.gen = g /\ r.input = s
      /\ r.dirs = job[p].dirs /\ g.source = s
  BY <1>a DEF r, Job
<1> HIDE DEF g, s
<1>1. TypeOK'
  BY <1>c, <1>d DEF IInv, TypeOK
<1>2. (\A k \in BudgetKeys : budget[k] <= Budget[k])'
  BY DEF IInv, HashSource, Goto, HasInput
<1>3. (\A q \in Proc : Local(q))'
  BY <1>a, <1>b, <1>d, <1>e DEF IInv, Local, TypeOK
<1>4. (\A q \in Proc : HoldsGuard(q) <=> guard = q)'
  BY <1>d, <1>e DEF IInv, HoldsGuard, Local, TypeOK
<1> QED
  BY <1>1, <1>2, <1>3, <1>4 DEF IInv

LEMMA FinishRunType ==
  ASSUME IInv, NEW p \in Proc, FinishRun(p)
  PROVE  IInv'
<1>a. PICK c \in Catalog : Publish(p, "finish", c)
  BY CatalogParts DEF IInv, TypeOK, FinishRun, Status
<1>1. TypeOK'
  BY <1>a, PublishType DEF IInv, FinishRun, TypeOK, Publishing
<1>2. (\A k \in BudgetKeys : budget[k] <= Budget[k])'
  BY DEF IInv, FinishRun, Goto, Publish
<1>3. (\A q \in Proc : Local(q))'
  BY ConstantsAssumption, JobParts DEF IInv, FinishRun, Goto, Publish, Local, TypeOK
<1>4. (\A q \in Proc : HoldsGuard(q) <=> guard = q)'
  BY ConstantsAssumption DEF IInv, Local, FinishRun, Goto, Publish, HoldsGuard, TypeOK
<1> QED
  BY <1>1, <1>2, <1>3, <1>4 DEF IInv

LEMMA RecordSourceType ==
  ASSUME IInv, NEW p \in Proc, RecordSource(p)
  PROVE  IInv'
<1> DEFINE s == job[p].input
<1> DEFINE g == job[p].gen
<1> DEFINE e == [sha |-> g.sha, opts |-> g.opts, rows |-> job[p].rows,
                 hash |-> objects[g][job[p].rows]]
<1>a. g \in Generation /\ s \in Source /\ job[p].rows \in Content /\ e \in Entry
  <2>1. g \in Generation /\ s = g.source /\ job[p].rows \in Content
    BY DEF IInv, RecordSource, Local
  <2>2. objects[g][job[p].rows] \in ObjectState
    BY <2>1 DEF IInv, TypeOK
  <2> QED
    BY <2>1, <2>2 DEF Generation, Entry
<1>b. PICK c \in Catalog : Publish(p, "commit", c)
  <2> HIDE DEF e
  <2>1. cat[p] \in Catalog
    BY DEF IInv, TypeOK
  <2> DEFINE rows == [cat[p].sources EXCEPT ![s] = e]
  <2>2. rows \in [Source -> Entry \cup {None}] /\ cat[p].run.completed + 1 \in Nat
    <3>1. cat[p].sources \in [Source -> Entry \cup {None}] /\ cat[p].run.completed \in Nat
      BY <2>1, CatalogParts
    <3>2. cat[p].run.completed + 1 \in Nat
      BY <3>1
    <3>3. e \in Entry \cup {None}
      BY <1>a
    <3> QED
      BY <1>a, <3>1, <3>2, <3>3
  <2> HIDE DEF rows
  <2>3. [cat[p] EXCEPT !.sources = rows,
                        !.run.completed = cat[p].run.completed + 1] \in Catalog
    BY <2>1, <2>2 DEF Catalog, Run
  <2> QED
    BY <2>3 DEF RecordSource, rows, e
<1>1. TypeOK'
  BY <1>b, PublishType DEF IInv, RecordSource, TypeOK, Publishing
<1>2. (\A k \in BudgetKeys : budget[k] <= Budget[k])'
  BY DEF IInv, RecordSource, Goto, Publish
<1>3. (\A q \in Proc : Local(q))'
  BY <1>a, <1>b, JobParts DEF IInv, RecordSource, Goto, Publish, Local, TypeOK
<1>4. (\A q \in Proc : HoldsGuard(q) <=> guard = q)'
  BY ConstantsAssumption DEF IInv, Local, RecordSource, Goto, Publish, HoldsGuard, TypeOK
<1> QED
  BY <1>1, <1>2, <1>3, <1>4 DEF IInv

LEMMA ReloadCatalogType ==
  ASSUME IInv, NEW p \in Proc, ReloadCatalog(p)
  PROVE  IInv'
<1>a. PICK c \in Catalog : Publish(p, "failure", c)
  <2> DEFINE c == [file EXCEPT !.run.failures = @ \cup {job[p].input},
                     !.run.status = IF job[p].failFast THEN "failed" ELSE "running"]
  <2>1. file \in Catalog /\ job[p].input \in Source
    BY DEF IInv, TypeOK, ReloadCatalog, Local
  <2>2. c \in Catalog
    BY <2>1 DEF Catalog, Run, Status
  <2> QED
    BY <2>2 DEF ReloadCatalog
<1>1. TypeOK'
  BY <1>a, PublishType DEF IInv, ReloadCatalog, TypeOK, Publishing
<1>2. (\A k \in BudgetKeys : budget[k] <= Budget[k])'
  BY DEF IInv, ReloadCatalog, Goto, Publish
<1>3. (\A q \in Proc : Local(q))'
  BY ConstantsAssumption, JobParts DEF IInv, ReloadCatalog, Goto, Publish, Local, TypeOK
<1>4. (\A q \in Proc : HoldsGuard(q) <=> guard = q)'
  BY ConstantsAssumption DEF IInv, Local, ReloadCatalog, Goto, Publish, HoldsGuard, TypeOK
<1> QED
  BY <1>1, <1>2, <1>3, <1>4 DEF IInv

LEMMA PlanFragmentsType ==
  ASSUME IInv, NEW p \in Proc, PlanFragments(p)
  PROVE  IInv'
<1>a. content[job[p].input] \in Content /\ job[p] \in Job
  BY DEF IInv, TypeOK, PlanFragments
<1>b. [job[p] EXCEPT !.rows = content[job[p].input]] \in Job
  BY <1>a, JobUpdates
<1>1. TypeOK'
  BY <1>b DEF IInv, PlanFragments, Goto, TypeOK
<1>2. (\A k \in BudgetKeys : budget[k] <= Budget[k])'
  BY DEF IInv, PlanFragments, Goto
<1>3. (\A q \in Proc : Local(q))'
  BY ConstantsAssumption, JobParts DEF IInv, PlanFragments, Goto, Local, TypeOK
<1>4. (\A q \in Proc : HoldsGuard(q) <=> guard = q)'
  BY ConstantsAssumption DEF IInv, Local, PlanFragments, Goto, HoldsGuard, TypeOK
<1> QED
  BY <1>1, <1>2, <1>3, <1>4 DEF IInv

LEMMA LockObjectType ==
  ASSUME IInv, NEW p \in Proc, LockObject(p)
  PROVE  IInv'
<1>1. TypeOK'
  BY ConstantsAssumption DEF IInv, LockObject, Goto, TypeOK
<1>2. (\A k \in BudgetKeys : budget[k] <= Budget[k])'
  BY DEF IInv, LockObject, Goto
<1>3. (\A q \in Proc : Local(q))'
  BY ConstantsAssumption, JobParts DEF IInv, LockObject, Goto, Local, TypeOK
<1>4. (\A q \in Proc : HoldsGuard(q) <=> guard = q)'
  BY ConstantsAssumption DEF IInv, Local, LockObject, Goto, HoldsGuard, TypeOK
<1> QED
  BY <1>1, <1>2, <1>3, <1>4 DEF IInv

LEMMA WriteMarkerType ==
  ASSUME IInv, NEW p \in Proc, WriteMarker(p)
  PROVE  IInv'
<1>1. TypeOK'
  BY DEF IInv, WriteMarker, Goto, TypeOK, Local
<1>2. (\A k \in BudgetKeys : budget[k] <= Budget[k])'
  BY DEF IInv, WriteMarker, Goto
<1>3. (\A q \in Proc : Local(q))'
  <2>1. \A g \in Generation : marker[g] # NoDir => marker'[g] # NoDir
    <3>1. pid[p] # NoDir
      BY ConstantsAssumption DEF IInv, Local, WriteMarker
    <3> QED
      BY <3>1 DEF IInv, TypeOK, WriteMarker
  <2>2. UNCHANGED <<pid, job>> /\ pc' \in [Proc -> Pcs]
    BY GotoType DEF IInv, WriteMarker, Goto
  <2>3. \A q \in Proc : job[q].dirs \in SUBSET Generation
    BY JobParts DEF IInv, TypeOK
  <2>4. \A q \in Proc \ {p} : pc'[q] = pc[q]
    BY DEF WriteMarker, Goto, IInv, TypeOK
  <2>5. Local(p)'
    <3>1. \/ pc[p] = "mark" /\ pc'[p] = "open"
          \/ pc[p] = "remark" /\ pc'[p] = "sweep"
      <4>1. pc \in [Proc -> Pcs]
        BY DEF IInv, TypeOK
      <4>2. /\ pc[p] \in {"mark", "remark"}
            /\ pc' = [pc EXCEPT ![p] = IF pc[p] = "mark" THEN "open" ELSE "sweep"]
        BY DEF WriteMarker, Goto
      <4> QED
        BY <4>1, <4>2
    <3> QED
      BY <2>1, <2>2, <2>3, <3>1 DEF IInv, Local
  <2> QED
    BY <2>1, <2>2, <2>3, <2>4, <2>5 DEF IInv, Local
<1>4. (\A q \in Proc : HoldsGuard(q) <=> guard = q)'
  BY ConstantsAssumption DEF IInv, Local, WriteMarker, Goto, HoldsGuard, TypeOK
<1> QED
  BY <1>1, <1>2, <1>3, <1>4 DEF IInv

LEMMA ReuseObjectType ==
  ASSUME IInv, NEW p \in Proc, ReuseObject(p)
  PROVE  IInv'
<1>1. TypeOK'
  BY ConstantsAssumption DEF IInv, ReuseObject, Goto, TypeOK
<1>2. (\A k \in BudgetKeys : budget[k] <= Budget[k])'
  BY DEF IInv, ReuseObject, Goto
<1>3. (\A q \in Proc : Local(q))'
  BY ConstantsAssumption, JobParts DEF IInv, ReuseObject, Goto, Local, TypeOK
<1>4. (\A q \in Proc : HoldsGuard(q) <=> guard = q)'
  BY ConstantsAssumption DEF IInv, Local, ReuseObject, Goto, HoldsGuard, TypeOK
<1> QED
  BY <1>1, <1>2, <1>3, <1>4 DEF IInv

LEMMA OpenStageType ==
  ASSUME IInv, NEW p \in Proc, OpenStage(p)
  PROVE  IInv'
<1>1. TypeOK'
  <2>1. staging' \in [Generation -> SUBSET (Proc \cup {Orphan})]
    BY DEF IInv, OpenStage, TypeOK
  <2> QED
    BY <2>1, GotoType DEF IInv, OpenStage, TypeOK
<1>2. (\A k \in BudgetKeys : budget[k] <= Budget[k])'
  BY DEF IInv, OpenStage, Goto
<1>3. (\A q \in Proc : Local(q))'
  BY ConstantsAssumption, JobParts DEF IInv, OpenStage, Goto, Local, TypeOK
<1>4. (\A q \in Proc : HoldsGuard(q) <=> guard = q)'
  BY ConstantsAssumption DEF IInv, Local, OpenStage, Goto, HoldsGuard, TypeOK
<1> QED
  BY <1>1, <1>2, <1>3, <1>4 DEF IInv

LEMMA WriteFragmentsType ==
  ASSUME IInv, NEW p \in Proc, WriteFragments(p)
  PROVE  IInv'
<1>1. TypeOK'
  BY ConstantsAssumption DEF IInv, WriteFragments, Goto, TypeOK
<1>2. (\A k \in BudgetKeys : budget[k] <= Budget[k])'
  BY DEF IInv, WriteFragments, Goto
<1>3. (\A q \in Proc : Local(q))'
  BY ConstantsAssumption, JobParts DEF IInv, WriteFragments, Goto, Local, TypeOK
<1>4. (\A q \in Proc : HoldsGuard(q) <=> guard = q)'
  BY ConstantsAssumption DEF IInv, Local, WriteFragments, Goto, HoldsGuard, TypeOK
<1> QED
  BY <1>1, <1>2, <1>3, <1>4 DEF IInv

LEMMA RenameStageType ==
  ASSUME IInv, NEW p \in Proc, RenameStage(p)
  PROVE  IInv'
<1>1. TypeOK'
  BY DEF IInv, RenameStage, Goto, TypeOK, ObjectState
<1>2. (\A k \in BudgetKeys : budget[k] <= Budget[k])'
  BY DEF IInv, RenameStage, Goto
<1>3. (\A q \in Proc : Local(q))'
  BY ConstantsAssumption, JobParts DEF IInv, RenameStage, Goto, Local, TypeOK
<1>4. (\A q \in Proc : HoldsGuard(q) <=> guard = q)'
  BY ConstantsAssumption DEF IInv, Local, RenameStage, Goto, HoldsGuard, TypeOK
<1> QED
  BY <1>1, <1>2, <1>3, <1>4 DEF IInv

LEMMA DropLockType ==
  ASSUME IInv, NEW p \in Proc, DropLock(p)
  PROVE  IInv'
<1>a. job[p].kind = "legacy" => Exit(p)
  BY DEF DropLock
<1>b. job[p].kind # "legacy" => Goto(p, "record") /\ UNCHANGED <<cat, job>>
  BY DEF DropLock
<1>c. job[p].gen \in Generation /\ job[p].input \in Source
  BY DEF IInv, Local, DropLock, Generation
<1>1. TypeOK'
  BY <1>a, <1>b, ExitType, GotoType, ConstantsAssumption DEF IInv, DropLock, TypeOK
<1>2. (\A k \in BudgetKeys : budget[k] <= Budget[k])'
  BY DEF IInv, DropLock, Goto, Exit
<1>3. (\A q \in Proc : Local(q))'
  BY <1>c, ConstantsAssumption, JobParts DEF IInv, DropLock, Goto, Exit, Local, TypeOK, IdleJob
<1>4. (\A q \in Proc : HoldsGuard(q) <=> guard = q)'
  BY ConstantsAssumption DEF IInv, Local, DropLock, Goto, Exit, HoldsGuard, TypeOK, IdleJob
<1> QED
  BY <1>1, <1>2, <1>3, <1>4 DEF IInv

LEMMA AttemptFailsType ==
  ASSUME IInv, NEW p \in Proc, AttemptFails(p)
  PROVE  IInv'
<1>a. \/ job[p].kind = "legacy" /\ Exit(p)
      \/ job[p].kind # "legacy" /\ Goto(p, "reload") /\ UNCHANGED <<cat, job>>
  BY DEF AttemptFails
<1>b. /\ pc[p] \in AttemptPcs \ {"unlock"}
      /\ UNCHANGED <<file, temps, objects, content, budget>>
  BY DEF AttemptFails
<1>c. job[p].gen \in Generation /\ job[p].input \in Source /\ job[p].input = job[p].gen.source
  BY <1>b DEF IInv, Local, Generation
<1>d. \/ UNCHANGED <<marker, staging>>
      \/ /\ marker' = [marker EXCEPT ![job[p].gen] = Unlocked]
         /\ staging' = [staging EXCEPT ![job[p].gen] = @ \ {p}]
  BY DEF AttemptFails
<1>e. /\ marker' \in [Generation -> {NoDir, Unlocked} \cup Proc \cup Pid]
      /\ staging' \in [Generation -> SUBSET (Proc \cup {Orphan})]
      /\ \A g \in Generation : marker[g] # NoDir => marker'[g] # NoDir
  <2>1. CASE UNCHANGED <<marker, staging>>
    BY <2>1 DEF IInv, TypeOK
  <2>2. CASE /\ marker' = [marker EXCEPT ![job[p].gen] = Unlocked]
             /\ staging' = [staging EXCEPT ![job[p].gen] = @ \ {p}]
    <3>1. marker' \in [Generation -> {NoDir, Unlocked} \cup Proc \cup Pid]
      BY <2>2 DEF IInv, TypeOK
    <3>2. staging' \in [Generation -> SUBSET (Proc \cup {Orphan})]
      BY <1>c, <2>2 DEF IInv, TypeOK
    <3>3. \A g \in Generation : marker[g] # NoDir => marker'[g] # NoDir
      BY <2>2, ConstantsAssumption DEF IInv, TypeOK
    <3> QED
      BY <3>1, <3>2, <3>3
  <2> QED
    BY <1>d, <2>1, <2>2
<1>1. TypeOK'
  <2>1. CASE Exit(p)
    BY <1>b, <1>e, <2>1, ExitType DEF IInv, TypeOK
  <2>2. CASE Goto(p, "reload") /\ UNCHANGED <<cat, job>>
    BY <1>b, <1>e, <2>2, GotoType DEF IInv, TypeOK
  <2> QED
    BY <1>a, <2>1, <2>2
<1>2. (\A k \in BudgetKeys : budget[k] <= Budget[k])'
  BY DEF IInv, AttemptFails, Goto, Exit
<1>3. (\A q \in Proc : Local(q))'
  <2>1. CASE Exit(p)
    BY <1>b, <1>e, <2>1, JobParts, ConstantsAssumption DEF IInv, Exit, Local, TypeOK, IdleJob
  <2>2. CASE job[p].kind # "legacy" /\ Goto(p, "reload") /\ UNCHANGED <<cat, job>>
    BY <1>b, <1>c, <1>e, <2>2, JobParts DEF IInv, Goto, Local, TypeOK
  <2> QED
    BY <1>a, <2>1, <2>2
<1>4. (\A q \in Proc : HoldsGuard(q) <=> guard = q)'
  <2>1. CASE Exit(p)
    BY <2>1, ConstantsAssumption DEF IInv, Exit, HoldsGuard, TypeOK
  <2>2. CASE job[p].kind # "legacy" /\ Goto(p, "reload") /\ UNCHANGED <<cat, job>>
    BY <1>b, <2>2 DEF IInv, Goto, HoldsGuard, TypeOK
  <2> QED
    BY <1>a, <2>1, <2>2
<1> QED
  BY <1>1, <1>2, <1>3, <1>4 DEF IInv

LEMMA ScanObjectsType ==
  ASSUME IInv, NEW p \in Proc, ScanObjects(p)
  PROVE  IInv'
<1>a. {g \in Generation : marker[g] # NoDir} \in SUBSET Generation /\ job[p] \in Job
  BY JobParts DEF IInv, TypeOK
<1>b. [job[p] EXCEPT !.dirs = {g \in Generation : marker[g] # NoDir}] \in Job
  BY <1>a, JobUpdates
<1>c. job' = [job EXCEPT ![p] = [job[p] EXCEPT !.dirs = {g \in Generation : marker[g] # NoDir}]]
  BY DEF ScanObjects
<1>d. [job[p] EXCEPT !.dirs = {g \in Generation : marker[g] # NoDir}].kind = job[p].kind
      /\ [job[p] EXCEPT !.dirs = {g \in Generation : marker[g] # NoDir}].opts = job[p].opts
      /\ [job[p] EXCEPT !.dirs = {g \in Generation : marker[g] # NoDir}].dirs = {g \in Generation : marker[g] # NoDir}
  BY <1>a DEF Job
<1>1. TypeOK'
  BY <1>b, <1>c DEF IInv, ScanObjects, Goto, TypeOK
<1>2. (\A k \in BudgetKeys : budget[k] <= Budget[k])'
  BY DEF IInv, ScanObjects, Goto
<1>3. (\A q \in Proc : Local(q))'
  BY <1>a, <1>b, <1>c, <1>d, ConstantsAssumption DEF IInv, ScanObjects, Goto, Local, TypeOK
<1>4. (\A q \in Proc : HoldsGuard(q) <=> guard = q)'
  BY ConstantsAssumption DEF IInv, Local, ScanObjects, Goto, HoldsGuard, TypeOK
<1> QED
  BY <1>1, <1>2, <1>3, <1>4 DEF IInv

LEMMA InspectMarkerType ==
  ASSUME IInv, NEW p \in Proc, InspectMarker(p)
  PROVE  IInv'
<1>a. job[p] \in Job /\ job[p].kind = "recover" /\ pc[p] = "dirs"
  BY DEF IInv, TypeOK, InspectMarker, Local
<1>b. PICK g \in job[p].dirs :
        /\ marker[g] \notin Proc
        /\ \/ /\ marker[g] = Unlocked
              /\ job' = [job EXCEPT ![p] = [job[p] EXCEPT !.gen = g]]
              /\ Goto(p, "relock")
           \/ /\ marker[g] # Unlocked
              /\ job' = [job EXCEPT ![p] = [job[p] EXCEPT !.gen = g, !.owner = marker[g]]]
              /\ Goto(p, "owner")
  BY DEF InspectMarker
<1>c. g \in Generation /\ marker[g] # NoDir
  BY <1>a, JobParts DEF IInv, Local
<1>d. PICK r \in Job :
        /\ job' = [job EXCEPT ![p] = r]
        /\ r.gen = g /\ r.kind = "recover" /\ r.dirs = job[p].dirs
        /\ r.opts = job[p].opts
  <2>1. CASE marker[g] = Unlocked
    <3>1. [job[p] EXCEPT !.gen = g] \in Job
      BY <1>a, <1>c, JobUpdates
    <3> QED
      BY <1>a, <1>b, <2>1, <3>1 DEF Job
  <2>2. CASE marker[g] # Unlocked
    <3>1. marker[g] \in Pid
      BY <1>b, <1>c, <2>2 DEF IInv, TypeOK
    <3>2. [job[p] EXCEPT !.gen = g, !.owner = marker[g]] \in Job
      BY <1>a, <1>c, <3>1, JobUpdates
    <3> QED
      BY <1>a, <1>b, <2>2, <3>2 DEF Job
  <2> QED
    BY <2>1, <2>2
<1>e. /\ pc' = [pc EXCEPT ![p] = "relock"] \/ pc' = [pc EXCEPT ![p] = "owner"]
      /\ UNCHANGED <<guard, pid, diskVars, content, cat, budget>>
  BY <1>b DEF Goto, InspectMarker
<1>1. TypeOK'
  BY <1>d, <1>e DEF IInv, TypeOK
<1>2. (\A k \in BudgetKeys : budget[k] <= Budget[k])'
  BY DEF IInv, InspectMarker, Goto
<1>3. (\A q \in Proc : Local(q))'
  BY <1>a, <1>c, <1>d, <1>e DEF IInv, Local, TypeOK
<1>4. (\A q \in Proc : HoldsGuard(q) <=> guard = q)'
  BY <1>a, <1>d, <1>e DEF IInv, HoldsGuard, TypeOK
<1> QED
  BY <1>1, <1>2, <1>3, <1>4 DEF IInv

LEMMA OwnerUnverifiableType ==
  ASSUME IInv, NEW p \in Proc, OwnerUnverifiable(p)
  PROVE  IInv'
<1>1. TypeOK'
  BY ExitType, ConstantsAssumption DEF IInv, OwnerUnverifiable, Exit, TypeOK
<1>2. (\A k \in BudgetKeys : budget[k] <= Budget[k])'
  BY DEF IInv, OwnerUnverifiable, Exit
<1>3. (\A q \in Proc : Local(q))'
  BY ConstantsAssumption, JobParts DEF IInv, OwnerUnverifiable, Exit, Local, TypeOK, IdleJob
<1>4. (\A q \in Proc : HoldsGuard(q) <=> guard = q)'
  BY ConstantsAssumption DEF IInv, Local, OwnerUnverifiable, Exit, HoldsGuard, TypeOK, IdleJob
<1> QED
  BY <1>1, <1>2, <1>3, <1>4 DEF IInv

LEMMA OwnerDeadType ==
  ASSUME IInv, NEW p \in Proc, OwnerDead(p)
  PROVE  IInv'
<1>1. TypeOK'
  BY ConstantsAssumption DEF IInv, OwnerDead, Goto, TypeOK
<1>2. (\A k \in BudgetKeys : budget[k] <= Budget[k])'
  BY DEF IInv, OwnerDead, Goto
<1>3. (\A q \in Proc : Local(q))'
  BY ConstantsAssumption, JobParts DEF IInv, OwnerDead, Goto, Local, TypeOK
<1>4. (\A q \in Proc : HoldsGuard(q) <=> guard = q)'
  BY ConstantsAssumption DEF IInv, Local, OwnerDead, Goto, HoldsGuard, TypeOK
<1> QED
  BY <1>1, <1>2, <1>3, <1>4 DEF IInv

LEMMA OwnerActiveType ==
  ASSUME IInv, NEW p \in Proc, OwnerActive(p)
  PROVE  IInv'
<1>1. TypeOK'
  BY ExitType, ConstantsAssumption DEF IInv, OwnerActive, Exit, TypeOK
<1>2. (\A k \in BudgetKeys : budget[k] <= Budget[k])'
  BY DEF IInv, OwnerActive, Exit
<1>3. (\A q \in Proc : Local(q))'
  BY ConstantsAssumption, JobParts DEF IInv, OwnerActive, Exit, Local, TypeOK, IdleJob
<1>4. (\A q \in Proc : HoldsGuard(q) <=> guard = q)'
  BY ConstantsAssumption DEF IInv, Local, OwnerActive, Exit, HoldsGuard, TypeOK, IdleJob
<1> QED
  BY <1>1, <1>2, <1>3, <1>4 DEF IInv

LEMMA ClearMarkerType ==
  ASSUME IInv, NEW p \in Proc, ClearMarker(p)
  PROVE  IInv'
<1>1. TypeOK'
  BY ConstantsAssumption DEF IInv, ClearMarker, Goto, TypeOK
<1>2. (\A k \in BudgetKeys : budget[k] <= Budget[k])'
  BY DEF IInv, ClearMarker, Goto
<1>3. (\A q \in Proc : Local(q))'
  BY ConstantsAssumption, JobParts DEF IInv, ClearMarker, Goto, Local, TypeOK
<1>4. (\A q \in Proc : HoldsGuard(q) <=> guard = q)'
  BY ConstantsAssumption DEF IInv, Local, ClearMarker, Goto, HoldsGuard, TypeOK
<1> QED
  BY <1>1, <1>2, <1>3, <1>4 DEF IInv

LEMMA RelockObjectType ==
  ASSUME IInv, NEW p \in Proc, RelockObject(p)
  PROVE  IInv'
<1>1. TypeOK'
  BY ConstantsAssumption DEF IInv, RelockObject, Goto, TypeOK
<1>2. (\A k \in BudgetKeys : budget[k] <= Budget[k])'
  BY DEF IInv, RelockObject, Goto
<1>3. (\A q \in Proc : Local(q))'
  BY ConstantsAssumption, JobParts DEF IInv, RelockObject, Goto, Local, TypeOK
<1>4. (\A q \in Proc : HoldsGuard(q) <=> guard = q)'
  BY ConstantsAssumption DEF IInv, Local, RelockObject, Goto, HoldsGuard, TypeOK
<1> QED
  BY <1>1, <1>2, <1>3, <1>4 DEF IInv

LEMMA SweepStagingType ==
  ASSUME IInv, NEW p \in Proc, SweepStaging(p)
  PROVE  IInv'
<1>a. job[p].dirs \ {job[p].gen} \in SUBSET Generation /\ job[p] \in Job
  BY JobParts DEF IInv, TypeOK
<1>b. [job[p] EXCEPT !.dirs = job[p].dirs \ {job[p].gen}] \in Job
  BY <1>a, JobUpdates
<1>c. job' = [job EXCEPT ![p] = [job[p] EXCEPT !.dirs = job[p].dirs \ {job[p].gen}]]
  BY DEF SweepStaging
<1>d. [job[p] EXCEPT !.dirs = job[p].dirs \ {job[p].gen}].kind = job[p].kind
      /\ [job[p] EXCEPT !.dirs = job[p].dirs \ {job[p].gen}].opts = job[p].opts
      /\ [job[p] EXCEPT !.dirs = job[p].dirs \ {job[p].gen}].dirs = job[p].dirs \ {job[p].gen}
  BY <1>a DEF Job
<1>1. TypeOK'
  BY <1>b, <1>c DEF IInv, SweepStaging, Goto, TypeOK
<1>2. (\A k \in BudgetKeys : budget[k] <= Budget[k])'
  BY DEF IInv, SweepStaging, Goto
<1>3. (\A q \in Proc : Local(q))'
  BY <1>a, <1>b, <1>c, <1>d, ConstantsAssumption DEF IInv, SweepStaging, Goto, Local, TypeOK
<1>4. (\A q \in Proc : HoldsGuard(q) <=> guard = q)'
  BY ConstantsAssumption DEF IInv, Local, SweepStaging, Goto, HoldsGuard, TypeOK
<1> QED
  BY <1>1, <1>2, <1>3, <1>4 DEF IInv

LEMMA SweepFailsType ==
  ASSUME IInv, NEW p \in Proc, SweepFails(p)
  PROVE  IInv'
<1>1. TypeOK'
  BY ExitType, ConstantsAssumption DEF IInv, SweepFails, Exit, TypeOK
<1>2. (\A k \in BudgetKeys : budget[k] <= Budget[k])'
  BY DEF IInv, SweepFails, Exit
<1>3. (\A q \in Proc : Local(q))'
  BY ConstantsAssumption, JobParts DEF IInv, SweepFails, Exit, Local, TypeOK, IdleJob
<1>4. (\A q \in Proc : HoldsGuard(q) <=> guard = q)'
  BY ConstantsAssumption DEF IInv, Local, SweepFails, Exit, HoldsGuard, TypeOK, IdleJob
<1> QED
  BY <1>1, <1>2, <1>3, <1>4 DEF IInv

LEMMA InterruptRunType ==
  ASSUME IInv, NEW p \in Proc, InterruptRun(p)
  PROVE  IInv'
<1>a. \/ \E c \in Catalog : Publish(p, "interrupt", c)
      \/ Exit(p)
  BY CatalogParts DEF IInv, TypeOK, InterruptRun, Status
<1>b. pc[p] = "dirs" /\ job[p].kind = "recover"
  BY DEF IInv, Local, InterruptRun
<1>1. TypeOK'
  BY <1>a, PublishType, ExitType DEF IInv, InterruptRun, TypeOK, Publishing
<1>2. (\A k \in BudgetKeys : budget[k] <= Budget[k])'
  BY DEF IInv, InterruptRun, Goto, Publish, Exit
<1>3. (\A q \in Proc : Local(q))'
  <2>1. CASE Exit(p)
    BY <2>1, ConstantsAssumption DEF IInv, InterruptRun, Exit, Local, TypeOK, IdleJob
  <2>2. ASSUME NEW c \in Catalog, Publish(p, "interrupt", c)
        PROVE  (\A q \in Proc : Local(q))'
    BY <1>b, <2>2, JobParts DEF IInv, InterruptRun, Publish, Goto, Local, TypeOK
  <2> QED
    BY <1>a, <2>1, <2>2
<1>4. (\A q \in Proc : HoldsGuard(q) <=> guard = q)'
  <2>1. CASE Exit(p)
    BY <2>1, ConstantsAssumption DEF IInv, Exit, HoldsGuard, TypeOK, IdleJob
  <2>2. ASSUME NEW c \in Catalog, Publish(p, "interrupt", c)
        PROVE  (\A q \in Proc : HoldsGuard(q) <=> guard = q)'
    BY <1>b, <2>2, JobParts DEF IInv, Publish, Goto, HoldsGuard, TypeOK
  <2> QED
    BY <1>a, <2>1, <2>2
<1> QED
  BY <1>1, <1>2, <1>3, <1>4 DEF IInv

LEMMA CrashType ==
  ASSUME IInv, NEW p \in Proc, Crash(p)
  PROVE  IInv'
<1>a. Spend("crash") /\ "crash" \in BudgetKeys
  BY DEF Crash, BudgetKeys
<1>1. TypeOK'
  BY <1>a, SpendKeepsBound, ExitType DEF IInv, Crash, Orphaned, TypeOK
<1>2. (\A k \in BudgetKeys : budget[k] <= Budget[k])'
  BY <1>a, SpendKeepsBound
<1>3. (\A q \in Proc : Local(q))'
  BY ConstantsAssumption, JobParts DEF IInv, Crash, Exit, Local, TypeOK, IdleJob
<1>4. (\A q \in Proc : HoldsGuard(q) <=> guard = q)'
  BY ConstantsAssumption DEF IInv, Local, Crash, Exit, HoldsGuard, TypeOK, IdleJob
<1> QED
  BY <1>1, <1>2, <1>3, <1>4 DEF IInv

LEMMA StartConvertType ==
  ASSUME IInv, NEW p \in Proc, StartConvert(p)
  PROVE  IInv'
<1>a. Spend("convert") /\ "convert" \in BudgetKeys
  BY DEF StartConvert, Start, BudgetKeys
<1>b. PICK b \in Batches, o \in Options, ff \in BOOLEAN :
        Start(p, "convert", "guard",
          [IdleJob EXCEPT !.kind = "convert", !.batch = b, !.todo = b, !.opts = o,
             !.id = Budget["convert"] - budget["convert"] + 1, !.failFast = ff])
  BY DEF StartConvert
<1>c. Budget["convert"] - budget["convert"] + 1 \in Nat
  <2>1. budget["convert"] \in Nat /\ Budget["convert"] \in Nat
    BY <1>a, ConstantsAssumption DEF IInv, TypeOK
  <2>2. budget["convert"] <= Budget["convert"]
    BY <1>a DEF IInv
  <2> QED
    BY <2>1, <2>2
<1>d. [IdleJob EXCEPT !.kind = "convert", !.batch = b, !.todo = b, !.opts = o,
         !.id = Budget["convert"] - budget["convert"] + 1, !.failFast = ff] \in Job
  BY <1>c, IdleJobType, ConstantsAssumption DEF Job, Kind
<1>1. TypeOK'
  BY <1>a, <1>b, <1>d, SpendKeepsBound DEF IInv, Start, TypeOK
<1>2. (\A k \in BudgetKeys : budget[k] <= Budget[k])'
  BY <1>a, SpendKeepsBound
<1>3. (\A q \in Proc : Local(q))'
  BY ConstantsAssumption, JobParts DEF IInv, StartConvert, Start, Local, TypeOK, IdleJob
<1>4. (\A q \in Proc : HoldsGuard(q) <=> guard = q)'
  BY ConstantsAssumption DEF IInv, Local, StartConvert, Start, HoldsGuard, TypeOK, IdleJob
<1> QED
  BY <1>1, <1>2, <1>3, <1>4 DEF IInv

LEMMA StartRecoverType ==
  ASSUME IInv, NEW p \in Proc, StartRecover(p)
  PROVE  IInv'
<1>a. Spend("recover") /\ "recover" \in BudgetKeys
  BY DEF StartRecover, Start, BudgetKeys
<1>b. [IdleJob EXCEPT !.kind = "recover"] \in Job
  BY IdleJobType DEF Job, Kind
<1>1. TypeOK'
  BY <1>a, <1>b, SpendKeepsBound DEF IInv, StartRecover, Start, TypeOK
<1>2. (\A k \in BudgetKeys : budget[k] <= Budget[k])'
  BY <1>a, SpendKeepsBound
<1>3. (\A q \in Proc : Local(q))'
  BY ConstantsAssumption, JobParts DEF IInv, StartRecover, Start, Local, TypeOK, IdleJob
<1>4. (\A q \in Proc : HoldsGuard(q) <=> guard = q)'
  BY ConstantsAssumption DEF IInv, Local, StartRecover, Start, HoldsGuard, TypeOK, IdleJob
<1> QED
  BY <1>1, <1>2, <1>3, <1>4 DEF IInv

LEMMA StartLegacyType ==
  ASSUME IInv, NEW p \in Proc, StartLegacy(p)
  PROVE  IInv'
<1>a. Spend("legacy") /\ "legacy" \in BudgetKeys
  BY DEF StartLegacy, Start, BudgetKeys
<1>b. PICK g \in Generation :
        Start(p, "legacy", "plan",
          [IdleJob EXCEPT !.kind = "legacy", !.input = g.source, !.gen = g])
  BY DEF StartLegacy
<1>c. [IdleJob EXCEPT !.kind = "legacy", !.input = g.source, !.gen = g] \in Job
  BY IdleJobType DEF Job, Kind, Generation
<1>1. TypeOK'
  BY <1>a, <1>b, <1>c, SpendKeepsBound DEF IInv, Start, TypeOK
<1>2. (\A k \in BudgetKeys : budget[k] <= Budget[k])'
  BY <1>a, SpendKeepsBound
<1>3. (\A q \in Proc : Local(q))'
  BY <1>b, ConstantsAssumption DEF IInv, Start, Local, TypeOK, IdleJob
<1>4. (\A q \in Proc : HoldsGuard(q) <=> guard = q)'
  BY ConstantsAssumption DEF IInv, Local, StartLegacy, Start, HoldsGuard, TypeOK, IdleJob
<1> QED
  BY <1>1, <1>2, <1>3, <1>4 DEF IInv

LEMMA EditSourceType ==
  ASSUME IInv, NEW s \in Source, EditSource(s)
  PROVE  IInv'
<1>1. Spend("edit") /\ "edit" \in BudgetKeys
  BY DEF EditSource, BudgetKeys
<1>2. content' \in [Source -> Content \cup {Missing}]
  BY DEF EditSource, IInv, TypeOK
<1>3. UNCHANGED <<guard, diskVars, pc, pid, cat, job>>
  BY DEF EditSource
<1>4. TypeOK'
  BY <1>1, <1>2, <1>3, SpendKeepsBound DEF IInv, TypeOK
<1>5. (\A k \in BudgetKeys : budget[k] <= Budget[k])'
  BY <1>1, SpendKeepsBound
<1>6. (\A q \in Proc : Local(q))'
  BY <1>3 DEF IInv, Local
<1>7. (\A q \in Proc : HoldsGuard(q) <=> guard = q)'
  BY <1>3 DEF IInv, HoldsGuard
<1> QED
  BY <1>4, <1>5, <1>6, <1>7 DEF IInv

LEMMA DamageObjectType ==
  ASSUME IInv, NEW g \in Generation, NEW c \in Content, DamageObject(g, c)
  PROVE  IInv'
<1>1. Spend("damage") /\ "damage" \in BudgetKeys
  BY DEF DamageObject, BudgetKeys
<1>2. objects' \in [Generation -> [Content -> ObjectState]]
  BY DEF DamageObject, IInv, TypeOK, ObjectState
<1>3. UNCHANGED <<guard, file, temps, marker, staging, content, pc, pid, cat, job>>
  BY DEF DamageObject
<1>4. TypeOK'
  BY <1>1, <1>2, <1>3, SpendKeepsBound DEF IInv, TypeOK
<1>5. (\A k \in BudgetKeys : budget[k] <= Budget[k])'
  BY <1>1, SpendKeepsBound
<1>6. (\A q \in Proc : Local(q))'
  BY <1>3 DEF IInv, Local
<1>7. (\A q \in Proc : HoldsGuard(q) <=> guard = q)'
  BY <1>3 DEF IInv, HoldsGuard
<1> QED
  BY <1>4, <1>5, <1>6, <1>7 DEF IInv

-----------------------------------------------------------------------------
(* The inductive invariant *)

LEMMA IInvInit == Init => IInv
<1> SUFFICES ASSUME Init PROVE IInv
  OBVIOUS
<1>1. TypeOK
  BY InitType
<1>2. \A k \in BudgetKeys : budget[k] <= Budget[k]
  BY ConstantsAssumption DEF Init
<1>3. \A p \in Proc : Local(p)
  BY DEF Init, Local, IdleJob
<1>4. \A p \in Proc : HoldsGuard(p) <=> guard = p
  BY ConstantsAssumption DEF Init, HoldsGuard
<1> QED
  BY <1>1, <1>2, <1>3, <1>4 DEF IInv

LEMMA IInvStep == IInv /\ [Next]_vars => IInv'
<1> SUFFICES ASSUME IInv, [Next]_vars PROVE IInv'
  OBVIOUS
<1>1. CASE UNCHANGED vars
  <2>1. TypeOK'
    BY <1>1 DEF IInv, TypeOK
  <2>2. (\A p \in Proc : Local(p))'
    BY <1>1 DEF IInv, Local
  <2>3. (\A p \in Proc : HoldsGuard(p) <=> guard = p)'
    BY <1>1 DEF IInv, HoldsGuard
  <2> QED
    BY <1>1, <2>1, <2>2, <2>3 DEF IInv
<1>2. ASSUME NEW p \in Proc, StartCommand(p) PROVE IInv'
  BY <1>2, StartConvertType, StartRecoverType, StartLegacyType DEF StartCommand
<1>3. ASSUME NEW p \in Proc, Step(p) PROVE IInv'
  <2>1. CASE AcquireGuard(p) \/ GuardRefused(p) \/ CommandFails(p)
    BY <2>1, AcquireGuardType, GuardRefusedType, CommandFailsType
  <2>2. CASE PublishStep(p)
    BY <2>2, StageCatalogType, ReplaceCatalogType, PublishFailsType DEF PublishStep
  <2>3. CASE ConvertStep(p)
    BY <2>3, BeginRunType, SkipDuplicateType, MissingInputType, HashSourceType,
       FinishRunType, RecordSourceType, ReloadCatalogType DEF ConvertStep
  <2>4. CASE FragmentStep(p)
    BY <2>4, PlanFragmentsType, LockObjectType, WriteMarkerType, ReuseObjectType,
       OpenStageType, WriteFragmentsType, RenameStageType, DropLockType,
       AttemptFailsType DEF FragmentStep
  <2>5. CASE RecoverStep(p)
    BY <2>5, ScanObjectsType, InspectMarkerType, OwnerUnverifiableType,
       OwnerDeadType, OwnerActiveType, ClearMarkerType, RelockObjectType,
       SweepStagingType, SweepFailsType, InterruptRunType DEF RecoverStep
  <2> QED
    BY <1>3, <2>1, <2>2, <2>3, <2>4, <2>5 DEF Step
<1>4. ASSUME NEW p \in Proc, Crash(p) PROVE IInv'
  BY <1>4, CrashType
<1>5. ASSUME NEW s \in Source, EditSource(s) PROVE IInv'
  BY <1>5, EditSourceType
<1>6. ASSUME NEW g \in Generation, NEW c \in Content, DamageObject(g, c) PROVE IInv'
  BY <1>6, DamageObjectType
<1> HIDE DEF vars
<1> QED
  BY <1>1, <1>2, <1>3, <1>4, <1>5, <1>6 DEF Next

\* The inductive invariant holds in every reachable state: types, what the locals
\* of convert_dataset and recover_dataset hold at each of their steps, and the
\* agreement between the guard and the processes that run behind it.
THEOREM InvariantHolds == Spec => []IInv
<1> HIDE DEF vars
<1> QED
  BY IInvInit, IInvStep, PTL DEF Spec

\* Every reachable state is well typed: among others, a marker is only ever
\* written with a process id, an entry only with a known content and options,
\* and the revision stays a number under every interleaving and kill.
THEOREM TypeCorrect == Spec => []TypeOK
<1>1. IInv => TypeOK
  BY DEF IInv
<1> QED
  BY <1>1, InvariantHolds, PTL

\* CatalogGuard is exclusive: no two commands that have passed the guard run in
\* one dataset, however many are started, refused, failed and killed.
THEOREM GuardExclusion ==
  Spec => [](\A p, q \in Proc : HoldsGuard(p) /\ HoldsGuard(q) => p = q)
<1>1. IInv => \A p, q \in Proc : HoldsGuard(p) /\ HoldsGuard(q) => p = q
  BY DEF IInv
<1> QED
  BY <1>1, InvariantHolds, PTL

-----------------------------------------------------------------------------
(***************************************************************************)
(* CommittedPublished for every value of the constants.  The argument:      *)
(* published directories never disappear again (ObjectsKept), every entry    *)
(* of a catalog value, in memory or in the file, selects a published one,   *)
(* and between the publication of its fragments and the entry that selects  *)
(* them a converter knows a published directory (Held).                     *)
(***************************************************************************)
HIDE DEF GuardedPcs

Published(o, c) ==
  \A s \in Source : c.sources[s] # None =>
    o[[source |-> s, sha |-> c.sources[s].sha, opts |-> c.sources[s].opts]]
      [c.sources[s].rows] # "absent"

Held(o, p) ==
  pc[p] \in {"unlock", "record"} => o[job[p].gen][job[p].rows] # "absent"

PInv ==
  /\ file # None => Published(objects, file)
  /\ \A p \in Proc : Published(objects, cat[p])
  /\ \A p \in Proc : Held(objects, p)

ObjectsKept ==
  \A g \in Generation, c \in Content : objects[g][c] # "absent" => objects'[g][c] # "absent"

StepOf(p) == StartCommand(p) \/ Step(p) \/ Crash(p)

LEMMA DefaultPublished == \A o : Published(o, DefaultCatalog)
BY DEF Published, DefaultCatalog, NoEntry

\* What is published stays published for the catalogs that select it.
LEMMA PublishedKept ==
  ASSUME ObjectsKept, NEW c \in Catalog, Published(objects, c)
  PROVE  Published(objects', c)
<1> SUFFICES ASSUME NEW s \in Source, c.sources[s] # None
             PROVE  objects'[[source |-> s, sha |-> c.sources[s].sha,
                              opts |-> c.sources[s].opts]][c.sources[s].rows] # "absent"
  BY DEF Published
<1>1. c.sources[s] \in Entry
  BY CatalogParts
<1>2. [source |-> s, sha |-> c.sources[s].sha, opts |-> c.sources[s].opts] \in Generation
  BY <1>1 DEF Generation, Entry
<1>3. c.sources[s].rows \in Content
  BY <1>1 DEF Entry
<1> QED
  BY <1>2, <1>3 DEF Published, ObjectsKept

\* The published directories are changed by one action.
LEMMA OnlyRenamePublishes ==
  ASSUME NEW p \in Proc, StepOf(p), ~RenameStage(p)
  PROVE  objects' = objects
<1>1. StartCommand(p) \/ Crash(p) => objects' = objects
  BY DEF StartCommand, StartConvert, StartRecover, StartLegacy, Start, Crash
<1>2. PublishStep(p) => objects' = objects
  BY DEF PublishStep, StageCatalog, ReplaceCatalog, PublishFails
<1>3. ConvertStep(p) => objects' = objects
  BY DEF ConvertStep, BeginRun, SkipDuplicate, MissingInput, HashSource,
         FinishRun, RecordSource, ReloadCatalog
<1>4. FragmentStep(p) => objects' = objects
  BY DEF FragmentStep, PlanFragments, LockObject, WriteMarker, ReuseObject,
         OpenStage, WriteFragments, DropLock, AttemptFails
<1>5. RecoverStep(p) => objects' = objects
  BY DEF RecoverStep, ScanObjects, InspectMarker, OwnerUnverifiable, OwnerDead,
         OwnerActive, ClearMarker, RelockObject, SweepStaging, SweepFails,
         InterruptRun
<1>6. AcquireGuard(p) \/ GuardRefused(p) \/ CommandFails(p) => objects' = objects
  BY DEF AcquireGuard, GuardRefused, CommandFails
<1> QED
  BY <1>1, <1>2, <1>3, <1>4, <1>5, <1>6 DEF StepOf, Step

\* A step of a process leaves the published directories alone or adds one.
LEMMA StepKeepsObjects ==
  ASSUME IInv, NEW p \in Proc, StepOf(p)
  PROVE  ObjectsKept
<1>1. CASE objects' = objects
  BY <1>1 DEF ObjectsKept
<1>2. CASE RenameStage(p)
  <2>1. objects' = [objects EXCEPT ![job[p].gen] = [@ EXCEPT ![job[p].rows] = "intact"]]
    BY <1>2 DEF RenameStage
  <2> QED
    BY <2>1 DEF IInv, TypeOK, ObjectsKept
<1> QED
  BY <1>1, <1>2, OnlyRenamePublishes

\* The file only ever becomes the catalog value of the process that replaces it.
LEMMA StepReplacesFile ==
  ASSUME NEW p \in Proc, StepOf(p)
  PROVE  file' = file \/ file' = cat[p]
<1>1. StartCommand(p) => file' = file
  BY DEF StartCommand, StartConvert, StartRecover, StartLegacy, Start
<1>2. PublishStep(p) => file' = file \/ file' = cat[p]
  BY DEF PublishStep, StageCatalog, ReplaceCatalog, PublishFails
<1>3. ConvertStep(p) => file' = file
  BY DEF ConvertStep, BeginRun, SkipDuplicate, MissingInput, HashSource,
         FinishRun, RecordSource, ReloadCatalog
<1>4. FragmentStep(p) => file' = file
  BY DEF FragmentStep, PlanFragments, LockObject, WriteMarker, ReuseObject,
         OpenStage, WriteFragments, RenameStage, DropLock, AttemptFails
<1>5. RecoverStep(p) => file' = file
  BY DEF RecoverStep, ScanObjects, InspectMarker, OwnerUnverifiable, OwnerDead,
         OwnerActive, ClearMarker, RelockObject, SweepStaging, SweepFails,
         InterruptRun
<1>6. AcquireGuard(p) \/ GuardRefused(p) \/ CommandFails(p) \/ Crash(p) => file' = file
  BY DEF AcquireGuard, GuardRefused, CommandFails, Crash
<1> QED
  BY <1>1, <1>2, <1>3, <1>4, <1>5, <1>6 DEF StepOf, Step

-----------------------------------------------------------------------------
(* The catalog values in memory *)

LEMMA SameSources ==
  ASSUME NEW c, NEW d, d.sources = c.sources, Published(objects, c)
  PROVE  Published(objects, d)
BY DEF Published

LEMMA PublishSets ==
  ASSUME TypeOK, NEW p \in Proc, NEW w, NEW c, Publish(p, w, c)
  PROVE  cat'[p] = c /\ \A q \in Proc \ {p} : cat'[q] = cat[q]
BY DEF Publish, TypeOK

LEMMA ExitSets ==
  ASSUME TypeOK, NEW p \in Proc, Exit(p)
  PROVE  cat'[p] = DefaultCatalog /\ \A q \in Proc \ {p} : cat'[q] = cat[q]
BY DEF Exit, TypeOK

\* The file, when there is one, is a catalog: its updates keep its fields.
LEMMA CatalogFields ==
  ASSUME NEW c \in Catalog
  PROVE  /\ \A r \in Nat : [c EXCEPT !.revision = r].sources = c.sources
         /\ \A r : [c EXCEPT !.run = r].sources = c.sources
         /\ \A t : [c EXCEPT !.run.status = t].sources = c.sources
         /\ \A f, t : [c EXCEPT !.run.failures = f, !.run.status = t].sources = c.sources
BY DEF Catalog

\* A converter's entry selects the directory it just published or reused.
LEMMA RecordedIsPublished ==
  ASSUME IInv, PInv, NEW p \in Proc, RecordSource(p)
  PROVE  Published(objects, cat'[p]) /\ \A q \in Proc \ {p} : cat'[q] = cat[q]
<1> DEFINE s == job[p].input
<1> DEFINE g == job[p].gen
<1> DEFINE e == [sha |-> g.sha, opts |-> g.opts, rows |-> job[p].rows,
                 hash |-> objects[g][job[p].rows]]
<1> DEFINE c == [cat[p] EXCEPT !.sources = [@ EXCEPT ![s] = e],
                               !.run.completed = cat[p].run.completed + 1]
<1>1. /\ g \in Generation /\ s = g.source /\ s \in Source
      /\ objects[g][job[p].rows] # "absent"
  BY DEF IInv, PInv, Held, Local, RecordSource, Generation
<1>2. cat[p] \in Catalog /\ cat[p].sources \in [Source -> Entry \cup {None}]
  BY CatalogParts DEF IInv, TypeOK
<1>3. cat'[p] = c /\ \A q \in Proc \ {p} : cat'[q] = cat[q]
  <2>1. Publish(p, "commit", c)
    BY DEF RecordSource
  <2> QED
    BY <2>1, PublishSets DEF IInv
<1>4. c.sources = [cat[p].sources EXCEPT ![s] = e]
  BY <1>2 DEF Catalog
<1>5. g = [source |-> s, sha |-> e.sha, opts |-> e.opts]
  BY <1>1 DEF Generation
<1>6. e.rows = job[p].rows
  OBVIOUS
<1>7. Published(objects, c)
  <2> HIDE DEF c
  <2> SUFFICES ASSUME NEW t \in Source, c.sources[t] # None
               PROVE  objects[[source |-> t, sha |-> c.sources[t].sha,
                               opts |-> c.sources[t].opts]][c.sources[t].rows] # "absent"
    BY DEF Published
  <2>1. CASE t = s
    <3>1. c.sources[t] = e
      BY <1>2, <1>4, <2>1
    <3> QED
      BY <1>1, <1>5, <1>6, <2>1, <3>1
  <2>2. CASE t # s
    <3>1. c.sources[t] = cat[p].sources[t]
      BY <1>2, <1>4, <2>2
    <3> QED
      BY <3>1 DEF PInv, Published
  <2> QED
    BY <2>1, <2>2
<1> HIDE DEF c
<1> QED
  BY <1>3, <1>7

\* The entries of a catalog value are its own, the file's, none at all, or
\* those that record_source adds one to.
LEMMA SourcesOrigin ==
  ASSUME IInv, NEW p \in Proc, StepOf(p), ~RecordSource(p)
  PROVE  /\ \A q \in Proc \ {p} : cat'[q] = cat[q]
         /\ \/ cat'[p].sources \in {cat[p].sources, NoEntry}
            \/ file # None /\ cat'[p].sources = file.sources
<1> DEFINE Kept == /\ \A q \in Proc \ {p} : cat'[q] = cat[q]
                   /\ \/ cat'[p].sources \in {cat[p].sources, NoEntry}
                      \/ file # None /\ cat'[p].sources = file.sources
<1>1. cat[p] \in Catalog /\ (file # None => file \in Catalog)
  BY DEF IInv, TypeOK
<1>2. CASE cat' = cat
  BY <1>2
<1>3. CASE Exit(p)
  BY <1>3, ExitSets DEF IInv, DefaultCatalog
<1>4. ASSUME NEW w, NEW d, Publish(p, w, d),
             \/ d.sources \in {cat[p].sources, NoEntry}
             \/ file # None /\ d.sources = file.sources
      PROVE  Kept
  BY <1>4, PublishSets DEF IInv
<1>5. CASE StartCommand(p) \/ AcquireGuard(p) \/ GuardRefused(p) \/ CommandFails(p) \/ Crash(p)
  BY <1>2, <1>3, <1>5 DEF StartCommand, StartConvert, StartRecover, StartLegacy, Start,
     AcquireGuard, GuardRefused, CommandFails, Crash
<1>6. CASE StageCatalog(p)
  <2> DEFINE d == [cat[p] EXCEPT !.revision = cat[p].revision + 1]
  <2>1. d.sources = cat[p].sources
    BY <1>1 DEF Catalog
  <2>2. cat'[p] = d /\ \A q \in Proc \ {p} : cat'[q] = cat[q]
    BY <1>6 DEF StageCatalog, IInv, TypeOK
  <2> HIDE DEF d
  <2> QED
    BY <2>1, <2>2
<1>7. CASE ReplaceCatalog(p) \/ PublishFails(p)
  BY <1>2, <1>3, <1>7 DEF ReplaceCatalog, PublishFails, PublishReturnsOk, PublishReturnsErr
<1>8. CASE BeginRun(p)
  <2> DEFINE base == IF file = None THEN DefaultCatalog ELSE file
  <2>1. /\ base \in Catalog
        /\ base.sources = NoEntry \/ (file # None /\ base.sources = file.sources)
    BY <1>1, DefaultCatalogType DEF DefaultCatalog
  <2>2. PICK r : Publish(p, "begin", [base EXCEPT !.run = r])
    BY <1>8 DEF BeginRun
  <2> HIDE DEF base
  <2>3. [base EXCEPT !.run = r].sources = base.sources
    BY <2>1, CatalogFields
  <2> QED
    BY <1>4, <2>1, <2>2, <2>3
<1>9. CASE FinishRun(p)
  <2>1. PICK t : Publish(p, "finish", [cat[p] EXCEPT !.run.status = t])
    BY <1>9 DEF FinishRun
  <2>2. [cat[p] EXCEPT !.run.status = t].sources = cat[p].sources
    BY <1>1, CatalogFields
  <2> QED
    BY <1>4, <2>1, <2>2
<1>10. CASE ReloadCatalog(p)
  <2>1. PICK f, t : Publish(p, "failure",
                      [file EXCEPT !.run.failures = f, !.run.status = t])
    BY <1>10 DEF ReloadCatalog
  <2>2. file # None
    BY <1>10 DEF ReloadCatalog
  <2>3. [file EXCEPT !.run.failures = f, !.run.status = t].sources = file.sources
    BY <1>1, <2>2, CatalogFields
  <2> QED
    BY <1>4, <2>1, <2>2, <2>3
<1>11. CASE SkipDuplicate(p) \/ MissingInput(p) \/ HashSource(p)
  BY <1>2, <1>11 DEF SkipDuplicate, MissingInput, HashSource
<1>12. CASE FragmentStep(p)
  BY <1>2, <1>3, <1>12 DEF FragmentStep, PlanFragments, LockObject, WriteMarker,
     ReuseObject, OpenStage, WriteFragments, RenameStage, DropLock, AttemptFails
<1>13. CASE InterruptRun(p) /\ ~Exit(p)
  <2>1. file # None /\ \E t : Publish(p, "interrupt", [file EXCEPT !.run.status = t])
    BY <1>13 DEF InterruptRun
  <2>2. PICK t : Publish(p, "interrupt", [file EXCEPT !.run.status = t])
    BY <2>1
  <2>3. [file EXCEPT !.run.status = t].sources = file.sources
    BY <1>1, <2>1, CatalogFields
  <2> QED
    BY <1>4, <2>1, <2>2, <2>3
<1>14. CASE RecoverStep(p) /\ ~InterruptRun(p)
  BY <1>2, <1>3, <1>14 DEF RecoverStep, ScanObjects, InspectMarker, OwnerUnverifiable,
     OwnerDead, OwnerActive, ClearMarker, RelockObject, SweepStaging, SweepFails
<1> QED
  BY <1>3, <1>5, <1>6, <1>7, <1>8, <1>9, <1>10, <1>11, <1>12, <1>13, <1>14
  DEF StepOf, Step, PublishStep, ConvertStep

LEMMA StepKeepsCatalogs ==
  ASSUME IInv, PInv, NEW p \in Proc, StepOf(p)
  PROVE  Published(objects, cat'[p]) /\ \A q \in Proc \ {p} : cat'[q] = cat[q]
<1>1. CASE RecordSource(p)
  BY <1>1, RecordedIsPublished
<1>2. CASE ~RecordSource(p)
  <2>1. PICK c : cat'[p].sources = c.sources /\ Published(objects, c)
    BY <1>2, SourcesOrigin, DefaultPublished DEF DefaultCatalog, PInv
  <2> QED
    BY <1>2, <2>1, SourcesOrigin, SameSources
<1> QED
  BY <1>1, <1>2

-----------------------------------------------------------------------------
(* The directory a converter is about to record *)

\* Only three actions bring a process to the steps at which it holds one.
LEMMA StepReachesHeld ==
  ASSUME IInv, NEW p \in Proc, StepOf(p), pc'[p] \in {"unlock", "record"}
  PROVE  ReuseObject(p) \/ RenameStage(p) \/ DropLock(p)
<1>0. pc \in [Proc -> Pcs]
  BY DEF IInv, TypeOK
<1>1. ASSUME NEW to, pc' = [pc EXCEPT ![p] = to], to \notin {"unlock", "record"}
      PROVE  FALSE
  BY <1>0, <1>1
<1>2. ~Exit(p)
  BY <1>1 DEF Exit
<1>3. ASSUME NEW to, Goto(p, to), to \notin {"unlock", "record"}
      PROVE  FALSE
  BY <1>1, <1>3 DEF Goto
<1>4. ~StartCommand(p)
  BY <1>1 DEF StartCommand, StartConvert, StartRecover, StartLegacy, Start
<1>5. ~(AcquireGuard(p) \/ GuardRefused(p) \/ CommandFails(p) \/ Crash(p))
  BY <1>1, <1>2 DEF AcquireGuard, GuardRefused, CommandFails, Crash
<1>6. ~PublishStep(p)
  BY <1>2, <1>3 DEF PublishStep, StageCatalog, ReplaceCatalog, PublishFails,
     PublishReturnsOk, PublishReturnsErr
<1>7. ~ConvertStep(p)
  BY <1>3 DEF ConvertStep, BeginRun, SkipDuplicate, MissingInput, HashSource,
     FinishRun, RecordSource, ReloadCatalog, Publish
<1>8. ~RecoverStep(p)
  BY <1>2, <1>3 DEF RecoverStep, ScanObjects, InspectMarker, OwnerUnverifiable,
     OwnerDead, OwnerActive, ClearMarker, RelockObject, SweepStaging, SweepFails,
     InterruptRun, Publish
<1>9. FragmentStep(p) => ReuseObject(p) \/ RenameStage(p) \/ DropLock(p)
  BY <1>2, <1>3 DEF FragmentStep, PlanFragments, LockObject, WriteMarker,
     OpenStage, WriteFragments, AttemptFails
<1> QED
  BY <1>4, <1>5, <1>6, <1>7, <1>8, <1>9 DEF StepOf, Step

\* Whatever a process does, the steps and locals of the others stay.
LEMMA StepIsLocal ==
  ASSUME IInv, NEW p \in Proc, StepOf(p), NEW q \in Proc \ {p}
  PROVE  pc'[q] = pc[q] /\ job'[q] = job[q]
<1>1. pc \in [Proc -> Pcs] /\ job \in [Proc -> Job]
  BY DEF IInv, TypeOK
<1>2. (\A to : pc' = [pc EXCEPT ![p] = to] => pc'[q] = pc[q])
      /\ (\A r : job' = [job EXCEPT ![p] = r] => job'[q] = job[q])
  BY <1>1
<1>3. Exit(p) => pc'[q] = pc[q] /\ job'[q] = job[q]
  BY <1>2 DEF Exit
<1>4. \A to : Goto(p, to) => pc'[q] = pc[q]
  BY <1>2 DEF Goto
<1>5. \A w, c : Publish(p, w, c) => pc'[q] = pc[q] /\ job'[q] = job[q]
  BY <1>2, <1>4 DEF Publish
<1>6. StartCommand(p) => pc'[q] = pc[q] /\ job'[q] = job[q]
  BY <1>2 DEF StartCommand, StartConvert, StartRecover, StartLegacy, Start
<1>7. AcquireGuard(p) \/ GuardRefused(p) \/ CommandFails(p) \/ Crash(p)
        => pc'[q] = pc[q] /\ job'[q] = job[q]
  BY <1>2, <1>3 DEF AcquireGuard, GuardRefused, CommandFails, Crash
<1>8. PublishStep(p) => pc'[q] = pc[q] /\ job'[q] = job[q]
  BY <1>3, <1>4 DEF PublishStep, StageCatalog, ReplaceCatalog, PublishFails,
     PublishReturnsOk, PublishReturnsErr
<1>9. ConvertStep(p) => pc'[q] = pc[q] /\ job'[q] = job[q]
  BY <1>2, <1>4, <1>5 DEF ConvertStep, BeginRun, SkipDuplicate, MissingInput,
     HashSource, FinishRun, RecordSource, ReloadCatalog
<1>10. FragmentStep(p) => pc'[q] = pc[q] /\ job'[q] = job[q]
  BY <1>2, <1>3, <1>4 DEF FragmentStep, PlanFragments, LockObject, WriteMarker,
     ReuseObject, OpenStage, WriteFragments, RenameStage, DropLock, AttemptFails
<1>11. RecoverStep(p) => pc'[q] = pc[q] /\ job'[q] = job[q]
  BY <1>2, <1>3, <1>4, <1>5 DEF RecoverStep, ScanObjects, InspectMarker,
     OwnerUnverifiable, OwnerDead, OwnerActive, ClearMarker, RelockObject,
     SweepStaging, SweepFails, InterruptRun
<1> QED
  BY <1>6, <1>7, <1>8, <1>9, <1>10, <1>11 DEF StepOf, Step

LEMMA HeldKept ==
  ASSUME IInv, ObjectsKept, NEW p \in Proc, Held(objects, p),
         pc'[p] \in {"unlock", "record"} => pc[p] \in {"unlock", "record"},
         job'[p] = job[p]
  PROVE  Held(objects, p)'
BY DEF Held, ObjectsKept, IInv, Local

LEMMA StepKeepsHeld ==
  ASSUME IInv, PInv, NEW p \in Proc, StepOf(p), NEW q \in Proc
  PROVE  Held(objects, q)'
<1>1. ObjectsKept
  BY StepKeepsObjects
<1>2. CASE q # p
  BY <1>1, <1>2, StepIsLocal, HeldKept DEF PInv
<1>3. CASE q = p /\ pc'[p] \notin {"unlock", "record"}
  BY <1>3 DEF Held
<1>4. CASE q = p /\ ReuseObject(p)
  BY <1>4 DEF ReuseObject, Held, Goto
<1>5. CASE q = p /\ RenameStage(p)
  <2>1. /\ objects' = [objects EXCEPT ![job[p].gen] = [@ EXCEPT ![job[p].rows] = "intact"]]
        /\ job' = job
    BY <1>5 DEF RenameStage
  <2>2. job[p].gen \in Generation /\ job[p].rows \in Content
    BY <1>5 DEF IInv, Local, RenameStage
  <2>3. objects'[job[p].gen][job[p].rows] = "intact"
    BY <2>1, <2>2 DEF IInv, TypeOK
  <2> QED
    BY <1>5, <2>1, <2>3 DEF Held
<1>6. CASE q = p /\ DropLock(p) /\ pc'[p] \in {"unlock", "record"}
  <2>1. pc[p] = "unlock" /\ objects' = objects
    BY <1>6 DEF DropLock
  <2>2. ~Exit(p)
    BY <1>6 DEF Exit, IInv, TypeOK
  <2>3. job' = job
    BY <1>6, <2>2 DEF DropLock
  <2> QED
    BY <1>6, <2>1, <2>3 DEF PInv, Held
<1> QED
  BY <1>2, <1>3, <1>4, <1>5, <1>6, StepReachesHeld

-----------------------------------------------------------------------------
(* The inductive invariant *)

LEMMA PInvInit == Init => PInv
BY DefaultPublished DEF Init, PInv, Held

LEMMA PInvStep == IInv /\ PInv /\ [Next]_vars => PInv'
<1> SUFFICES ASSUME IInv, PInv, [Next]_vars PROVE PInv'
  OBVIOUS
<1>1. \A p \in Proc : cat[p] \in Catalog
  BY DEF IInv, TypeOK
<1>2. file # None => file \in Catalog
  BY DEF IInv, TypeOK
<1>3. ASSUME NEW p \in Proc, StepOf(p) PROVE PInv'
  <2>1. ObjectsKept
    BY <1>3, StepKeepsObjects
  <2>2. cat' \in [Proc -> Catalog]
    <3>1. [Next]_vars
      OBVIOUS
    <3>2. IInv'
      BY <3>1, IInvStep
    <3> QED
      BY <3>2 DEF IInv, TypeOK
  <2>3. Published(objects, cat'[p]) /\ \A q \in Proc \ {p} : cat'[q] = cat[q]
    BY <1>3, StepKeepsCatalogs
  <2>4. ASSUME NEW q \in Proc PROVE Published(objects', cat'[q])
    <3>1. Published(objects, cat'[q])
      BY <2>3 DEF PInv
    <3> QED
      BY <2>1, <2>2, <3>1, PublishedKept
  <2>5. file' # None => Published(objects', file')
    <3>1. CASE file' = file
      BY <1>2, <2>1, <3>1, PublishedKept DEF PInv
    <3>2. CASE file' = cat[p]
      BY <1>1, <2>1, <3>2, PublishedKept DEF PInv
    <3> QED
      BY <1>3, <3>1, <3>2, StepReplacesFile
  <2> QED
    BY <1>3, <2>4, <2>5, StepKeepsHeld DEF PInv
<1>4. ASSUME ObjectsKept, UNCHANGED <<file, cat, pc, job>> PROVE PInv'
  <2>1. \A q \in Proc : Published(objects', cat[q])
    BY <1>1, <1>4, PublishedKept DEF PInv
  <2>2. file # None => Published(objects', file)
    BY <1>2, <1>4, PublishedKept DEF PInv
  <2>3. ASSUME NEW q \in Proc PROVE Held(objects, q)'
    BY <1>4, HeldKept DEF PInv
  <2> QED
    BY <1>4, <2>1, <2>2, <2>3 DEF PInv
<1>5. CASE UNCHANGED vars
  BY <1>4, <1>5 DEF ObjectsKept
<1>6. ASSUME NEW s \in Source, EditSource(s) PROVE PInv'
  BY <1>4, <1>6 DEF ObjectsKept, EditSource
<1>7. ASSUME NEW g \in Generation, NEW c \in Content, DamageObject(g, c) PROVE PInv'
  <2>1. objects' = [objects EXCEPT ![g] = [@ EXCEPT ![c] = "damaged"]]
        /\ UNCHANGED <<file, cat, pc, job>>
    BY <1>7 DEF DamageObject
  <2>2. ObjectsKept
    BY <2>1 DEF ObjectsKept, IInv, TypeOK
  <2> QED
    BY <1>4, <2>1, <2>2
<1> HIDE DEF vars
<1> QED
  BY <1>3, <1>5, <1>6, <1>7 DEF Next, StepOf

\* Every entry of the committed catalog selects a published source directory:
\* whatever number of converters, recoveries and guardless writers run, fail and
\* are killed, convert_dataset never publishes a catalog ahead of its fragments.
THEOREM CatalogFollowsFragments == Spec => []CommittedPublished
<1>1. IInv /\ PInv => CommittedPublished
  <2> SUFFICES ASSUME IInv, PInv, file # None, NEW s \in Source, file.sources[s] # None
               PROVE  Object(s, file.sources[s]) # "absent"
    BY DEF CommittedPublished
  <2> QED
    BY DEF PInv, Published, Object
<1> HIDE DEF vars
<1>2. Init /\ [][Next]_vars /\ []IInv => []PInv
  BY PInvInit, PInvStep, PTL
<1> QED
  BY <1>1, <1>2, InvariantHolds, PTL DEF Spec

-----------------------------------------------------------------------------
(***************************************************************************)
(* CommittedRowsMatchSource, as long as the sources are edited at most once *)
(* (a second edit can restore the bytes of the first hash).  A source is    *)
(* hashed, read and hashed again: what was planned is either what the first *)
(* hash was of or, after the edit, what the source holds from then on       *)
(* (ReadOK), and the second hash tells the two apart.                       *)
(***************************************************************************)
RowsMatch(c) == \A s \in Source : c.sources[s] # None => c.sources[s].rows = c.sources[s].sha

ReadOK(p) ==
  pc[p] \in AttemptPcs /\ job[p].kind = "convert" =>
    LET sha == job[p].gen.sha  now == content[job[p].input] IN
    /\ sha = now \/ budget["edit"] = 0
    /\ pc[p] # "plan" => job[p].rows = sha \/ (budget["edit"] = 0 /\ job[p].rows = now)

RowsInv ==
  /\ budget["edit"] <= 1
  /\ file # None => RowsMatch(file)
  /\ \A p \in Proc : RowsMatch(cat[p]) /\ ReadOK(p)

\* Nobody but its editor touches a source.
LEMMA StepKeepsContent ==
  ASSUME IInv, NEW p \in Proc, StepOf(p)
  PROVE  content' = content /\ budget'["edit"] = budget["edit"]
<1>0. budget \in [BudgetKeys -> Nat] /\ "edit" \in BudgetKeys
  BY DEF IInv, TypeOK, BudgetKeys
<1>1. StartCommand(p) \/ Crash(p) => content' = content /\ budget'["edit"] = budget["edit"]
  BY <1>0 DEF StartCommand, StartConvert, StartRecover, StartLegacy, Start, Crash, Spend
<1>2. PublishStep(p) => UNCHANGED <<content, budget>>
  BY DEF PublishStep, StageCatalog, ReplaceCatalog, PublishFails
<1>3. ConvertStep(p) => UNCHANGED <<content, budget>>
  BY DEF ConvertStep, BeginRun, SkipDuplicate, MissingInput, HashSource,
         FinishRun, RecordSource, ReloadCatalog
<1>4. FragmentStep(p) => UNCHANGED <<content, budget>>
  BY DEF FragmentStep, PlanFragments, LockObject, WriteMarker, ReuseObject,
         OpenStage, WriteFragments, RenameStage, DropLock, AttemptFails
<1>5. RecoverStep(p) => UNCHANGED <<content, budget>>
  BY DEF RecoverStep, ScanObjects, InspectMarker, OwnerUnverifiable, OwnerDead,
         OwnerActive, ClearMarker, RelockObject, SweepStaging, SweepFails,
         InterruptRun
<1>6. AcquireGuard(p) \/ GuardRefused(p) \/ CommandFails(p) => UNCHANGED <<content, budget>>
  BY DEF AcquireGuard, GuardRefused, CommandFails
<1> QED
  BY <1>1, <1>2, <1>3, <1>4, <1>5, <1>6 DEF StepOf, Step

\* An attempt is entered with a hash, plans once, and keeps both.
LEMMA StepReachesAttempt ==
  ASSUME IInv, NEW p \in Proc, StepOf(p), pc'[p] \in AttemptPcs, job'[p].kind = "convert"
  PROVE  \/ HashSource(p) \/ PlanFragments(p)
         \/ /\ pc[p] \in AttemptPcs \ {"plan"} /\ pc'[p] # "plan" /\ job'[p] = job[p]
<1>0. pc \in [Proc -> Pcs] /\ job \in [Proc -> Job]
  BY DEF IInv, TypeOK
<1>1. ASSUME NEW to, pc' = [pc EXCEPT ![p] = to]
      PROVE  to \in AttemptPcs /\ pc'[p] = to
  BY <1>0, <1>1
<1>2. ~Exit(p)
  BY <1>1 DEF Exit
<1>3. ASSUME NEW to, Goto(p, to)
      PROVE  to \in AttemptPcs /\ pc'[p] = to
  BY <1>1, <1>3 DEF Goto
<1>4. \A w, c : ~Publish(p, w, c)
  BY <1>3 DEF Publish
<1>5. ~StartLegacy(p)
  <2>1. ASSUME NEW g, Start(p, "legacy", "plan",
                 [IdleJob EXCEPT !.kind = "legacy", !.input = g.source, !.gen = g])
        PROVE  FALSE
    BY <1>0, <2>1 DEF Start, IdleJob
  <2> QED
    BY <2>1 DEF StartLegacy
<1>6. ~(StartConvert(p) \/ StartRecover(p))
  BY <1>1 DEF StartConvert, StartRecover, Start
<1>7. ~(AcquireGuard(p) \/ GuardRefused(p) \/ CommandFails(p) \/ Crash(p))
  BY <1>1, <1>2 DEF AcquireGuard, GuardRefused, CommandFails, Crash
<1>8. ~PublishStep(p)
  BY <1>2, <1>3 DEF PublishStep, StageCatalog, ReplaceCatalog, PublishFails,
     PublishReturnsOk, PublishReturnsErr
<1>9. ConvertStep(p) => HashSource(p)
  BY <1>3, <1>4 DEF ConvertStep, BeginRun, SkipDuplicate, MissingInput,
     FinishRun, RecordSource, ReloadCatalog
<1>a. ~(Goto(p, "dirs") \/ Goto(p, "owner") \/ Goto(p, "clear") \/ Goto(p, "relock")
        \/ Goto(p, "remark") \/ Goto(p, "sweep"))
  BY <1>3
<1>10. ~RecoverStep(p)
  BY <1>2, <1>4, <1>a DEF RecoverStep, ScanObjects, InspectMarker, OwnerUnverifiable,
     OwnerDead, OwnerActive, ClearMarker, RelockObject, SweepStaging, SweepFails,
     InterruptRun
<1>11. CASE FragmentStep(p) /\ ~PlanFragments(p)
  <2>1. job' = job
    BY <1>2, <1>3, <1>11 DEF FragmentStep, LockObject, WriteMarker, ReuseObject, OpenStage,
       WriteFragments, RenameStage, DropLock, AttemptFails
  <2>2. pc[p] \in AttemptPcs \ {"plan"} /\ pc'[p] # "plan"
    BY <1>2, <1>3, <1>11, IInvStep DEF FragmentStep, LockObject, WriteMarker, ReuseObject, OpenStage,
       WriteFragments, RenameStage, DropLock, AttemptFails
  <2> QED
    BY <2>1, <2>2
<1> QED
  BY <1>5, <1>6, <1>7, <1>8, <1>9, <1>10, <1>11 DEF StepOf, Step, StartCommand

LEMMA StepKeepsRead ==
  ASSUME IInv, RowsInv, NEW p \in Proc, StepOf(p), NEW q \in Proc
  PROVE  ReadOK(q)'
<1>0. content' = content /\ budget'["edit"] = budget["edit"]
  BY StepKeepsContent
<1>1. CASE q # p
  BY <1>0, <1>1, StepIsLocal DEF RowsInv, ReadOK
<1>2. CASE q = p /\ ~(pc'[p] \in AttemptPcs /\ job'[p].kind = "convert")
  BY <1>2 DEF ReadOK
<1>3. CASE q = p /\ HashSource(p)
  <2> DEFINE s == Head(job[p].todo)
  <2> DEFINE r == [job[p] EXCEPT !.todo = Tail(job[p].todo), !.input = s,
             !.seen = job[p].seen \cup {s},
             !.gen = [source |-> s, sha |-> content[s], opts |-> job[p].opts]]
  <2>1. job[p] \in Job /\ job' = [job EXCEPT ![p] = r]
    BY <1>3 DEF IInv, TypeOK, HashSource
  <2>2. r.input = s /\ r.gen.sha = content[s]
    BY <2>1 DEF Job
  <2>3. job'[p] = r
    BY <2>1 DEF IInv, TypeOK
  <2>4. pc'[p] \in {"plan", "reload"}
    BY <1>3 DEF IInv, TypeOK, HashSource, Goto
  <2> HIDE DEF r, s
  <2> QED
    BY <1>0, <1>3, <2>2, <2>3, <2>4 DEF ReadOK
<1>4. CASE q = p /\ PlanFragments(p)
  <2> DEFINE r == [job[p] EXCEPT !.rows = content[job[p].input]]
  <2>1. job[p] \in Job /\ job' = [job EXCEPT ![p] = r] /\ pc[p] = "plan"
    BY <1>4 DEF IInv, TypeOK, PlanFragments
  <2>2. /\ r.input = job[p].input /\ r.gen = job[p].gen /\ r.kind = job[p].kind
        /\ r.rows = content[job[p].input]
    BY <2>1 DEF Job
  <2>3. job'[p] = r
    BY <2>1 DEF IInv, TypeOK
  <2> HIDE DEF r
  <2> QED
    BY <1>0, <1>4, <2>1, <2>2, <2>3 DEF RowsInv, ReadOK
<1>5. CASE q = p /\ pc[p] \in AttemptPcs \ {"plan"} /\ pc'[p] # "plan" /\ job'[p] = job[p]
  BY <1>0, <1>5 DEF RowsInv, ReadOK
<1> QED
  BY <1>1, <1>2, <1>3, <1>4, <1>5, StepReachesAttempt

\* The second hash agrees with the first: the rows are those of that hash.
LEMMA RecordedRowsMatch ==
  ASSUME IInv, RowsInv, NEW p \in Proc, RecordSource(p)
  PROVE  RowsMatch(cat'[p]) /\ \A q \in Proc \ {p} : cat'[q] = cat[q]
<1> DEFINE s == job[p].input
<1> DEFINE g == job[p].gen
<1> DEFINE e == [sha |-> g.sha, opts |-> g.opts, rows |-> job[p].rows,
                 hash |-> objects[g][job[p].rows]]
<1> DEFINE c == [cat[p] EXCEPT !.sources = [@ EXCEPT ![s] = e],
                               !.run.completed = cat[p].run.completed + 1]
<1>1. s \in Source /\ job[p].rows = g.sha
  BY DEF IInv, RowsInv, ReadOK, Local, RecordSource, Generation
<1>2. cat[p] \in Catalog /\ cat[p].sources \in [Source -> Entry \cup {None}]
  BY CatalogParts DEF IInv, TypeOK
<1>3. cat'[p] = c /\ \A q \in Proc \ {p} : cat'[q] = cat[q]
  <2>1. Publish(p, "commit", c)
    BY DEF RecordSource
  <2> QED
    BY <2>1, PublishSets DEF IInv
<1>4. c.sources = [cat[p].sources EXCEPT ![s] = e]
  BY <1>2 DEF Catalog
<1>5. e.rows = e.sha
  BY <1>1
<1> HIDE DEF c, e
<1>6. RowsMatch(c)
  BY <1>2, <1>4, <1>5 DEF RowsInv, RowsMatch
<1> QED
  BY <1>3, <1>6

LEMMA RowsInvInit == Budget["edit"] <= 1 /\ Init => RowsInv
BY DEF Init, RowsInv, RowsMatch, ReadOK, DefaultCatalog, NoEntry

LEMMA RowsInvStep == IInv /\ RowsInv /\ [Next]_vars => RowsInv'
<1> SUFFICES ASSUME IInv, RowsInv, [Next]_vars PROVE RowsInv'
  OBVIOUS
<1>1. ASSUME NEW p \in Proc, StepOf(p) PROVE RowsInv'
  <2>1. ASSUME NEW q \in Proc PROVE RowsMatch(cat'[q])
    <3>1. CASE RecordSource(p)
      BY <3>1, RecordedRowsMatch DEF RowsInv
    <3>2. CASE ~RecordSource(p)
      BY <1>1, <3>2, SourcesOrigin DEF RowsInv, RowsMatch, NoEntry
    <3> QED
      BY <3>1, <3>2
  <2>2. file' # None => RowsMatch(file')
    BY <1>1, StepReplacesFile DEF RowsInv
  <2> QED
    BY <1>1, <2>1, <2>2, StepKeepsContent, StepKeepsRead DEF RowsInv
<1>2. CASE UNCHANGED vars
  BY <1>2 DEF RowsInv, ReadOK
<1>3. ASSUME NEW s \in Source, EditSource(s) PROVE RowsInv'
  <2>1. budget["edit"] = 1 /\ budget'["edit"] = 0
    BY <1>3 DEF EditSource, Spend, RowsInv, IInv, TypeOK, BudgetKeys
  <2>2. UNCHANGED <<file, cat, pc, job>>
    BY <1>3 DEF EditSource
  <2> QED
    BY <2>1, <2>2 DEF RowsInv, ReadOK
<1>4. ASSUME NEW g \in Generation, NEW c \in Content, DamageObject(g, c) PROVE RowsInv'
  <2>1. UNCHANGED <<file, cat, pc, job, content>> /\ budget'["edit"] = budget["edit"]
    BY <1>4 DEF DamageObject, Spend, IInv, TypeOK
  <2> QED
    BY <2>1 DEF RowsInv, ReadOK
<1> HIDE DEF vars
<1> QED
  BY <1>1, <1>2, <1>3, <1>4 DEF Next, StepOf

\* While the sources are edited at most once, the fragments a committed entry
\* selects hold the rows of the very bytes whose hash it records: convert_dataset
\* reads a source between two hashes of it, and whichever of its steps the edit
\* falls between, a read of other bytes makes the second hash differ.
THEOREM RowsMatchSources == Budget["edit"] <= 1 => (Spec => []CommittedRowsMatchSource)
<1> SUFFICES ASSUME Budget["edit"] <= 1 PROVE Spec => []CommittedRowsMatchSource
  OBVIOUS
<1>1. RowsInv => CommittedRowsMatchSource
  BY DEF RowsInv, RowsMatch, CommittedRowsMatchSource
<1>2. Init => RowsInv
  BY RowsInvInit
<1> HIDE DEF vars
<1>3. Init /\ [][Next]_vars /\ []IInv => []RowsInv
  BY <1>2, RowsInvStep, PTL
<1> QED
  BY <1>1, <1>3, InvariantHolds, PTL DEF Spec

-----------------------------------------------------------------------------
(***************************************************************************)
(* DatasetCatalog implements CatalogStore, for every value of the          *)
(* constants: what a reader of _catalog.json can see is a history of the   *)
(* abstract store, whatever number of commands run, fail and are killed.   *)
(*                                                                         *)
(* A version becomes visible by a rename, long after it was made of the    *)
(* one that it replaces.  The invariant says that it still is one legal    *)
(* step ahead of the file (Leads): only the holder of the guard replaces   *)
(* the file, and what it works on is the file, or a change of the file.    *)
(* A run's record is new because ids are counted and never shared (Ids).   *)
(* From the same invariant follows who may be interrupted                  *)
(* (InterruptedRunIsAbandoned).  What a status tells and who works behind  *)
(* the marker of an object directory need invariants of their own, below.  *)
(***************************************************************************)

USE DEF diskVars, vars, PublishPcs, FragmentPcs, AttemptPcs, ConvertPcs, RecoverPcs, Pcs,
        GuardedPcs

LastCatalog == IF file = None THEN DefaultCatalog ELSE file

\* Sources and run are those of b with the change that the command j publishes as w,
\* over the objects o.
Change(o, w, j, b, sources, run) ==
  /\ w = "begin" =>
       /\ sources = b.sources /\ j.id # b.run.id
       /\ run = [id |-> j.id, status |-> "running", completed |-> 0, failures |-> {}]
  /\ w # "begin" => b.run.status = "running"
  /\ w = "commit" =>
       /\ \E s \in Source, v \in Entry :
            /\ o[[source |-> s, sha |-> v.sha, opts |-> v.opts]][v.rows] # "absent"
            /\ sources = [b.sources EXCEPT ![s] = v]
       /\ run = [b.run EXCEPT !.completed = @ + 1]
  /\ w = "failure" =>
       /\ sources = b.sources
       /\ \E s \in Source :
            run = [b.run EXCEPT !.failures = @ \cup {s},
                                  !.status = IF j.failFast THEN "failed" ELSE "running"]
  /\ w = "finish" =>
       /\ sources = b.sources
       /\ run = [b.run EXCEPT !.status = IF b.run.failures = {} THEN "complete" ELSE "partial"]
  /\ w = "interrupt" =>
       sources = b.sources /\ run = [b.run EXCEPT !.status = "interrupted"]

Ahead(p) == Change(objects, job[p].publishing, job[p], LastCatalog,
                   cat[p].sources, cat[p].run)

\* Where a command stands with respect to the file.
Leads(p) ==
  /\ pc[p] \in {"next"} \cup AttemptPcs /\ job[p].kind = "convert" => file # None /\ cat[p] = file
  /\ pc[p] \in {"next", "reload"} \cup AttemptPcs /\ job[p].kind = "convert" =>
       LastCatalog.run.status = "running"
  /\ pc[p] = "stage" => Ahead(p) /\ cat[p].revision = LastCatalog.revision
  /\ pc[p] = "replace" => /\ Ahead(p) /\ LastCatalog.revision < MaxRevision
                          /\ cat[p].revision = LastCatalog.revision + 1

Used == Budget["convert"] - budget["convert"]
Converts(p) == job[p].kind = "convert"

Ids ==
  /\ LastCatalog.run.id <= Used
  /\ \A p \in Proc : Converts(p) => job[p].id \in 1 .. Used
  /\ \A p, q \in Proc : p # q /\ Converts(p) /\ Converts(q) => job[p].id # job[q].id
  /\ \A p \in Proc : Converts(p) /\ pc[p] \in {"guard", "load"} => job[p].id # LastCatalog.run.id

RInv == Ids /\ \A p \in Proc : Leads(p)

-----------------------------------------------------------------------------
(* Who changes what *)

LEMMA LastCatalogType == IInv => LastCatalog \in Catalog
BY DefaultCatalogType DEF IInv, TypeOK, LastCatalog

\* The file is replaced by one action, and its process has the guard.
LEMMA OnlyReplaceWrites ==
  ASSUME IInv, NEW p \in Proc, StepOf(p), file' # file
  PROVE  ReplaceCatalog(p) /\ guard = p
<1>1. ~StartCommand(p)
  BY DEF StartCommand, StartConvert, StartRecover, StartLegacy, Start
<1>2. ~ConvertStep(p)
  BY DEF ConvertStep, BeginRun, SkipDuplicate, MissingInput, HashSource,
         FinishRun, RecordSource, ReloadCatalog
<1>3. ~FragmentStep(p)
  BY DEF FragmentStep, PlanFragments, LockObject, WriteMarker, ReuseObject,
         OpenStage, WriteFragments, RenameStage, DropLock, AttemptFails
<1>4. ~RecoverStep(p)
  BY DEF RecoverStep, ScanObjects, InspectMarker, OwnerUnverifiable, OwnerDead,
         OwnerActive, ClearMarker, RelockObject, SweepStaging, SweepFails,
         InterruptRun
<1>5. ~(AcquireGuard(p) \/ GuardRefused(p) \/ CommandFails(p) \/ Crash(p))
  BY DEF AcquireGuard, GuardRefused, CommandFails, Crash
<1>6. ReplaceCatalog(p)
  BY <1>1, <1>2, <1>3, <1>4, <1>5
  DEF StepOf, Step, PublishStep, StageCatalog, PublishFails
<1>7. pc[p] = "replace" /\ job[p].kind # "legacy"
  <2>1. pc[p] = "replace"
    BY <1>6 DEF ReplaceCatalog
  <2>2. job[p] \in Job /\ Local(p)
    BY DEF IInv, TypeOK
  <2>3. job[p].publishing \in Publishing
    BY <2>2, JobParts
  <2> QED
    BY <2>1, <2>2, <2>3 DEF Local, Publishing
<1>8. HoldsGuard(p)
  BY <1>7 DEF HoldsGuard
<1> QED
  BY <1>6, <1>8 DEF IInv

\* A command keeps its kind and the id of its run until it returns.
LEMMA CommandKept ==
  ASSUME IInv, NEW p \in Proc, Step(p) \/ Crash(p)
  PROVE  job'[p].kind = "none" \/ (job'[p].kind = job[p].kind /\ job'[p].id = job[p].id)
<1>1. job \in [Proc -> Job] /\ job[p] \in Job
  BY DEF IInv, TypeOK
<1> DEFINE Kept == job'[p].kind = "none" \/ (job'[p].kind = job[p].kind /\ job'[p].id = job[p].id)
<1>2. Exit(p) => Kept
  BY <1>1 DEF Exit, IdleJob
<1>3. job' = job => Kept
  OBVIOUS
<1>4. ASSUME NEW w, NEW c, Publish(p, w, c) PROVE Kept
  BY <1>1, <1>4 DEF Publish, Job
<1>5. CASE AcquireGuard(p) \/ GuardRefused(p) \/ CommandFails(p) \/ Crash(p)
  BY <1>2, <1>3, <1>5 DEF AcquireGuard, GuardRefused, CommandFails, Crash
<1>6. CASE PublishStep(p)
  BY <1>2, <1>3, <1>6 DEF PublishStep, StageCatalog, ReplaceCatalog, PublishFails,
     PublishReturnsOk, PublishReturnsErr
<1>7. CASE ConvertStep(p)
  <2>1. CASE BeginRun(p) \/ FinishRun(p) \/ RecordSource(p) \/ ReloadCatalog(p)
    BY <1>4, <2>1 DEF BeginRun, FinishRun, RecordSource, ReloadCatalog
  <2>2. CASE SkipDuplicate(p)
    BY <1>1, <2>2 DEF SkipDuplicate, Job
  <2>3. CASE MissingInput(p)
    BY <1>1, <2>3 DEF MissingInput, Job
  <2>4. CASE HashSource(p)
    BY <1>1, <2>4 DEF HashSource, Job
  <2> QED
    BY <1>7, <2>1, <2>2, <2>3, <2>4 DEF ConvertStep
<1>8. CASE FragmentStep(p)
  <2>1. CASE PlanFragments(p)
    BY <1>1, <2>1 DEF PlanFragments, Job
  <2>2. CASE DropLock(p) \/ AttemptFails(p)
    BY <1>2, <1>3, <2>2 DEF DropLock, AttemptFails
  <2> QED
    BY <1>3, <1>8, <2>1, <2>2 DEF FragmentStep, LockObject, WriteMarker, ReuseObject,
       OpenStage, WriteFragments, RenameStage
<1>9. CASE RecoverStep(p)
  <2>1. CASE ScanObjects(p)
    BY <1>1, <2>1 DEF ScanObjects, Job
  <2>2. CASE InspectMarker(p)
    <3>1. \/ \E g : job' = [job EXCEPT ![p] = [@ EXCEPT !.gen = g]]
          \/ \E g, o : job' = [job EXCEPT ![p] = [@ EXCEPT !.gen = g, !.owner = o]]
      BY <2>2 DEF InspectMarker
    <3>2. ASSUME NEW g, job' = [job EXCEPT ![p] = [@ EXCEPT !.gen = g]] PROVE Kept
      BY <1>1, <3>2 DEF Job
    <3>3. ASSUME NEW g, NEW o, job' = [job EXCEPT ![p] = [@ EXCEPT !.gen = g, !.owner = o]]
          PROVE  Kept
      BY <1>1, <3>3 DEF Job
    <3> QED
      BY <3>1, <3>2, <3>3
  <2>3. CASE SweepStaging(p)
    BY <1>1, <2>3 DEF SweepStaging, Job
  <2>4. CASE InterruptRun(p)
    BY <1>2, <1>4, <2>4 DEF InterruptRun
  <2> QED
    BY <1>2, <1>3, <1>9, <2>1, <2>2, <2>3, <2>4 DEF RecoverStep, OwnerUnverifiable,
       OwnerDead, OwnerActive, ClearMarker, RelockObject, SweepFails
<1> QED
  BY <1>5, <1>6, <1>7, <1>8, <1>9 DEF Step

-----------------------------------------------------------------------------
(* Staying ahead *)

LEMMA ChangeKept ==
  ASSUME ObjectsKept, NEW w, NEW j, NEW b, NEW sources, NEW run,
         Change(objects, w, j, b, sources, run)
  PROVE  Change(objects', w, j, b, sources, run)
<1>1. ASSUME NEW s \in Source, NEW v \in Entry,
             objects[[source |-> s, sha |-> v.sha, opts |-> v.opts]][v.rows] # "absent"
      PROVE  objects'[[source |-> s, sha |-> v.sha, opts |-> v.opts]][v.rows] # "absent"
  <2>1. /\ [source |-> s, sha |-> v.sha, opts |-> v.opts] \in Generation
        /\ v.rows \in Content
    BY DEF Generation, Entry
  <2> QED
    BY <1>1, <2>1 DEF ObjectsKept
<1> QED
  BY <1>1, ZenonT(40) DEF Change

\* The commands of others neither move the file under one that has the guard, nor take
\* away what it selects.
LEMMA OthersKeepLead ==
  ASSUME IInv, PInv, NEW p \in Proc, StepOf(p), NEW q \in Proc \ {p}, Leads(q)
  PROVE  Leads(q)'
<1>1. pc'[q] = pc[q] /\ job'[q] = job[q]
  BY StepIsLocal
<1>2. cat'[q] = cat[q]
  BY StepKeepsCatalogs
<1>3. CASE file' = file
  <2>1. LastCatalog' = LastCatalog
    BY <1>3 DEF LastCatalog
  <2>2. Ahead(q) => Ahead(q)'
    BY <1>1, <1>2, <2>1, StepKeepsObjects, ChangeKept DEF Ahead
  <2> QED
    BY <1>1, <1>2, <1>3, <2>1, <2>2 DEF Leads
<1>4. CASE file' # file
  <2>1. ~HoldsGuard(q)
    BY <1>4, OnlyReplaceWrites DEF IInv
  <2>2. job[q] \in Job /\ Local(q)
    BY DEF IInv, TypeOK
  <2>3. job[q].publishing \in Publishing
    BY <2>2, JobParts
  <2>4. pc[q] \notin PublishPcs
    BY <2>1, <2>2, <2>3 DEF HoldsGuard, Local, Publishing
  <2>5. ~(pc[q] \in {"next", "reload"} \cup AttemptPcs /\ job[q].kind = "convert")
    BY <2>1 DEF HoldsGuard
  <2> QED
    BY <1>1, <2>4, <2>5 DEF Leads
<1> QED
  BY <1>3, <1>4

\* Of the job, a change reads the run's id and whether the first failure ends it.
LEMMA ChangeOfJob ==
  ASSUME NEW o, NEW w, NEW j, NEW k, NEW b, NEW sources, NEW run,
         j.id = k.id, j.failFast = k.failFast, Change(o, w, j, b, sources, run)
  PROVE  Change(o, w, k, b, sources, run)
<1>1. w = "failure" => \E s \in Source :
        run = [b.run EXCEPT !.failures = @ \cup {s},
                            !.status = IF k.failFast THEN "failed" ELSE "running"]
  BY DEF Change
<1>2. w = "begin" => /\ k.id # b.run.id
                     /\ run = [id |-> k.id, status |-> "running", completed |-> 0, failures |-> {}]
  BY DEF Change
<1> QED
  BY <1>1, <1>2, Zenon DEF Change

\* A publication that starts as a change of the file leads it.
LEMMA PublicationLeads ==
  ASSUME IInv, NEW p \in Proc, NEW w, NEW c, Publish(p, w, c),
         file' = file, objects' = objects,
         c.revision = LastCatalog.revision,
         Change(objects, w, job[p], LastCatalog, c.sources, c.run)
  PROVE  Leads(p)'
<1>1. pc'[p] = "stage" /\ cat'[p] = c
  BY DEF Publish, Goto, IInv, TypeOK
<1>2. job'[p].publishing = w /\ job'[p].id = job[p].id /\ job'[p].failFast = job[p].failFast
  BY DEF Publish, IInv, TypeOK, Job
<1>3. LastCatalog' = LastCatalog
  BY DEF LastCatalog
<1>4. Change(objects, w, job'[p], LastCatalog, c.sources, c.run)
  BY <1>2, ChangeOfJob
<1>5. cat'[p].sources = c.sources /\ cat'[p].run = c.run
  BY <1>1
<1>6. Ahead(p)'
  BY <1>2, <1>3, <1>4, <1>5 DEF Ahead
<1> QED
  BY <1>1, <1>3, <1>6 DEF Leads

\* Between two publications a converter works on the file.
LEMMA WorkKeepsLead ==
  ASSUME NEW p \in Proc, Leads(p), pc[p] \in {"next"} \cup AttemptPcs, file' = file, cat' = cat,
         job'[p].kind = job[p].kind, pc'[p] \in {"next", "reload"} \cup AttemptPcs,
         pc'[p] = "reload" => job[p].kind = "convert"
  PROVE  Leads(p)'
BY DEF Leads, LastCatalog

LEMMA ElsewhereLeads ==
  ASSUME NEW p \in Proc, pc'[p] \in {"idle", "guard", "load"} \cup RecoverPcs
  PROVE  Leads(p)'
BY DEF Leads

LEMMA ExitLeads ==
  ASSUME IInv, NEW p \in Proc, Exit(p)
  PROVE  Leads(p)'
<1>1. pc'[p] = "idle"
  BY DEF Exit, IInv, TypeOK
<1> QED
  BY <1>1, ElsewhereLeads

LEMMA StartLeads ==
  ASSUME IInv, NEW p \in Proc, StartCommand(p)
  PROVE  Leads(p)'
<1>1. pc \in [Proc -> Pcs] /\ job \in [Proc -> Job]
  BY DEF IInv, TypeOK
<1>2. CASE StartConvert(p) \/ StartRecover(p)
  <2>1. pc'[p] = "guard"
    BY <1>1, <1>2 DEF StartConvert, StartRecover, Start
  <2> QED
    BY <2>1, ElsewhereLeads
<1>3. CASE StartLegacy(p)
  <2>1. pc'[p] = "plan" /\ job'[p].kind = "legacy"
    BY <1>1, <1>3 DEF StartLegacy, Start, IdleJob
  <2> QED
    BY <2>1 DEF Leads
<1> QED
  BY <1>2, <1>3 DEF StartCommand

\* A version keeps its distance from the file while it is staged, and becomes the file.
LEMMA PublishLeads ==
  ASSUME IInv, NEW p \in Proc, Leads(p), PublishStep(p)
  PROVE  Leads(p)'
<1>1. /\ pc \in [Proc -> Pcs] /\ cat \in [Proc -> Catalog] /\ cat[p] \in Catalog
      /\ LastCatalog \in Catalog
  BY LastCatalogType DEF IInv, TypeOK
<1>2. cat[p].run \in Run /\ LastCatalog.run \in Run /\ cat[p].revision \in Nat
  BY <1>1, CatalogParts
<1>3. CASE StageCatalog(p)
  <2>1. pc[p] = "stage" /\ pc'[p] = "replace" /\ job' = job
    BY <1>1, <1>3 DEF StageCatalog, Goto
  <2>2. /\ cat'[p].sources = cat[p].sources /\ cat'[p].run = cat[p].run
        /\ cat'[p].revision = cat[p].revision + 1 /\ cat[p].revision < MaxRevision
    BY <1>1, <1>3 DEF StageCatalog, Catalog
  <2>3. LastCatalog' = LastCatalog /\ objects' = objects
    BY <1>3 DEF StageCatalog, LastCatalog
  <2>4. Ahead(p) /\ cat[p].revision = LastCatalog.revision
    BY <2>1 DEF Leads
  <2>5. Ahead(p)'
    <3>1. Change(objects, job[p].publishing, job[p], LastCatalog,
                cat'[p].sources, cat'[p].run)
      BY <2>2, <2>4 DEF Ahead
    <3> QED
      BY <2>1, <2>3, <3>1 DEF Ahead
  <2> QED
    BY <2>1, <2>2, <2>3, <2>4, <2>5 DEF Leads
<1>4. Ahead(p) /\ job[p].publishing = "commit" => LastCatalog.run.status = "running"
  BY DEF Ahead, Change
<1>5. CASE ReplaceCatalog(p)
  <2>1. pc[p] = "replace" /\ Ahead(p) /\ file' = cat[p]
    BY <1>5 DEF ReplaceCatalog, Leads
  <2>2. file' # None /\ LastCatalog' = cat[p]
    BY <1>1, <2>1, NoneAssumption DEF LastCatalog
  <2>3. ASSUME \/ job[p].publishing \in {"begin", "commit"}
               \/ job[p].publishing = "failure" /\ ~job[p].failFast
        PROVE  cat[p].run.status = "running"
    <3>1. CASE job[p].publishing = "begin"
      BY <2>1, <3>1 DEF Ahead, Change
    <3>2. CASE job[p].publishing = "commit"
      <4>1. /\ LastCatalog.run.status = "running"
            /\ cat[p].run = [LastCatalog.run EXCEPT !.completed = @ + 1]
        BY <2>1, <3>2 DEF Ahead, Change
      <4> QED
        BY <1>2, <4>1 DEF Run
    <3>3. CASE job[p].publishing = "failure" /\ ~job[p].failFast
      <4>1. PICK s \in Source :
              cat[p].run = [LastCatalog.run EXCEPT !.failures = @ \cup {s}, !.status = "running"]
        BY <2>1, <3>3 DEF Ahead, Change
      <4> QED
        BY <1>2, <4>1 DEF Run
    <3> QED
      BY <2>3, <3>1, <3>2, <3>3
  <2>4. CASE PublishReturnsOk(p) /\ ~Exit(p)
    <3>1. /\ pc'[p] = "next" /\ cat' = cat /\ job' = job
          /\ \/ job[p].publishing \in {"begin", "commit"}
             \/ job[p].publishing = "failure" /\ ~job[p].failFast
      BY <1>1, <2>4 DEF PublishReturnsOk, Goto
    <3> QED
      BY <2>1, <2>2, <2>3, <3>1 DEF Leads
  <2>5. CASE PublishReturnsErr(p) /\ ~Exit(p)
    <3>1. pc'[p] = "reload" /\ job[p].publishing = "commit"
      BY <1>1, <2>5 DEF PublishReturnsErr, Goto
    <3> QED
      BY <2>1, <2>2, <2>3, <3>1 DEF Leads
  <2> QED
    BY <1>5, <2>4, <2>5, ExitLeads DEF ReplaceCatalog
<1>6. CASE PublishFails(p) /\ ~Exit(p)
  <2>1. pc'[p] = "reload" /\ job[p].publishing = "commit"
    BY <1>1, <1>6 DEF PublishFails, PublishReturnsErr, Goto
  <2>2. Ahead(p)
    BY <1>6 DEF PublishFails, Leads
  <2>3. LastCatalog' = LastCatalog
    BY <1>6 DEF PublishFails, LastCatalog
  <2> QED
    BY <1>4, <2>1, <2>2, <2>3 DEF Leads
<1> QED
  BY <1>3, <1>5, <1>6, ExitLeads DEF PublishStep

LEMMA ConvertLeads ==
  ASSUME IInv, PInv, RInv, NEW p \in Proc, ConvertStep(p)
  PROVE  Leads(p)'
<1>1. /\ pc \in [Proc -> Pcs] /\ cat[p] \in Catalog /\ job \in [Proc -> Job] /\ job[p] \in Job
      /\ LastCatalog \in Catalog /\ LastCatalog.run \in Run
  BY LastCatalogType, CatalogParts DEF IInv, TypeOK
<1>2. Leads(p) /\ Local(p)
  BY DEF RInv, IInv
<1>3. CASE BeginRun(p)
  <2> DEFINE r == [id |-> job[p].id, status |-> "running", completed |-> 0, failures |-> {}]
  <2> DEFINE c == [LastCatalog EXCEPT !.run = r]
  <2>1. Publish(p, "begin", c) /\ file' = file /\ objects' = objects
    BY <1>3 DEF BeginRun, LastCatalog
  <2>2. c.sources = LastCatalog.sources /\ c.run = r /\ c.revision = LastCatalog.revision
    BY <1>1 DEF Catalog
  <2>3. job[p].id # LastCatalog.run.id
    BY <1>2, <1>3 DEF BeginRun, Local, RInv, Ids, Converts
  <2> HIDE DEF c
  <2>4. Change(objects, "begin", job[p], LastCatalog, c.sources, c.run)
    BY <2>2, <2>3 DEF Change
  <2> QED
    BY <2>1, <2>2, <2>4, PublicationLeads
<1>4. pc[p] = "next" => job[p].kind = "convert"
  BY <1>2 DEF Local
<1>5. pc[p] = "next" => cat[p] = LastCatalog /\ LastCatalog.run.status = "running"
  BY <1>2, <1>4 DEF Leads, LastCatalog
<1>6. CASE FinishRun(p)
  <2> DEFINE t == IF LastCatalog.run.failures = {} THEN "complete" ELSE "partial"
  <2> DEFINE c == [LastCatalog EXCEPT !.run.status = t]
  <2>1. Publish(p, "finish", c) /\ file' = file /\ objects' = objects
    BY <1>5, <1>6 DEF FinishRun
  <2>2. /\ c.sources = LastCatalog.sources /\ c.run = [LastCatalog.run EXCEPT !.status = t]
        /\ c.revision = LastCatalog.revision
    BY <1>1 DEF Catalog
  <2> HIDE DEF c
  <2>3. Change(objects, "finish", job[p], LastCatalog, c.sources, c.run)
    BY <1>5, <1>6, <2>2 DEF Change, FinishRun
  <2> QED
    BY <2>1, <2>2, <2>3, PublicationLeads
<1>7. CASE RecordSource(p)
  <2> DEFINE s == job[p].input
  <2> DEFINE g == job[p].gen
  <2> DEFINE v == [sha |-> g.sha, opts |-> g.opts, rows |-> job[p].rows,
                   hash |-> objects[g][job[p].rows]]
  <2> DEFINE c == [LastCatalog EXCEPT !.sources = [@ EXCEPT ![s] = v],
                                      !.run.completed = @ + 1]
  <2>0. pc[p] = "record" /\ job[p].kind = "convert"
    BY <1>2, <1>7 DEF RecordSource, Local
  <2>1. cat[p] = LastCatalog /\ LastCatalog.run.status = "running"
    BY <1>2, <2>0 DEF Leads, LastCatalog
  <2>2. Publish(p, "commit", c) /\ file' = file /\ objects' = objects
    BY <1>7, <2>1 DEF RecordSource
  <2>3. g \in Generation /\ s = g.source /\ job[p].rows \in Content
    BY <1>2, <2>0 DEF Local
  <2>4. objects[g][job[p].rows] \in ObjectState /\ objects[g][job[p].rows] # "absent"
    BY <2>0, <2>3 DEF IInv, TypeOK, PInv, Held
  <2>5. s \in Source /\ v \in Entry /\ g = [source |-> s, sha |-> v.sha, opts |-> v.opts]
    BY <2>3, <2>4 DEF Generation, Entry
  <2>6. v.rows = job[p].rows
    OBVIOUS
  <2>7. /\ c.sources = [LastCatalog.sources EXCEPT ![s] = v]
        /\ c.run = [LastCatalog.run EXCEPT !.completed = @ + 1]
        /\ c.revision = LastCatalog.revision
    BY <1>1 DEF Catalog
  <2> HIDE DEF c, v
  <2>8. Change(objects, "commit", job[p], LastCatalog, c.sources, c.run)
    <3>1. /\ objects[[source |-> s, sha |-> v.sha, opts |-> v.opts]][v.rows] # "absent"
          /\ c.sources = [LastCatalog.sources EXCEPT ![s] = v]
      BY <2>4, <2>5, <2>6, <2>7
    <3>2. \E t \in Source, e \in Entry :
            /\ objects[[source |-> t, sha |-> e.sha, opts |-> e.opts]][e.rows] # "absent"
            /\ c.sources = [LastCatalog.sources EXCEPT ![t] = e]
      BY <2>5, <3>1
    <3> QED
      BY <2>1, <2>7, <3>2 DEF Change
  <2> QED
    BY <2>2, <2>7, <2>8, PublicationLeads
<1>8. CASE ReloadCatalog(p)
  <2> DEFINE t == IF job[p].failFast THEN "failed" ELSE "running"
  <2> DEFINE f == LastCatalog.run.failures \cup {job[p].input}
  <2> DEFINE c == [LastCatalog EXCEPT !.run.failures = f, !.run.status = t]
  <2>0. job[p].input \in Source /\ LastCatalog.run.status = "running"
    BY <1>2, <1>8 DEF ReloadCatalog, Local, Leads
  <2>1. Publish(p, "failure", c) /\ file' = file /\ objects' = objects
    BY <1>8 DEF ReloadCatalog, LastCatalog
  <2>2. /\ c.sources = LastCatalog.sources
        /\ c.run = [LastCatalog.run EXCEPT !.failures = f, !.status = t]
        /\ c.revision = LastCatalog.revision
    BY <1>1 DEF Catalog
  <2> HIDE DEF c
  <2>3. Change(objects, "failure", job[p], LastCatalog, c.sources, c.run)
    BY <2>0, <2>2 DEF Change
  <2> QED
    BY <2>1, <2>2, <2>3, PublicationLeads
<1>9. CASE SkipDuplicate(p) \/ MissingInput(p) \/ HashSource(p)
  <2>1. pc[p] = "next" /\ file' = file /\ cat' = cat
    BY <1>9 DEF SkipDuplicate, MissingInput, HashSource, HasInput
  <2>2. pc'[p] \in {"next", "reload", "plan"}
    BY <1>1, <1>9 DEF SkipDuplicate, MissingInput, HashSource, Goto
  <2>3. job'[p].kind = job[p].kind
    <3>1. SkipDuplicate(p) => job'[p].kind = job[p].kind
      BY <1>1 DEF SkipDuplicate, Job
    <3>2. MissingInput(p) => job'[p].kind = job[p].kind
      BY <1>1 DEF MissingInput, Job
    <3>3. HashSource(p) => job'[p].kind = job[p].kind
      BY <1>1 DEF HashSource, Job
    <3> QED
      BY <1>9, <3>1, <3>2, <3>3
  <2> QED
    BY <1>2, <1>4, <2>1, <2>2, <2>3, WorkKeepsLead
<1> QED
  BY <1>3, <1>6, <1>7, <1>8, <1>9 DEF ConvertStep

LEMMA FragmentLeads ==
  ASSUME IInv, NEW p \in Proc, Leads(p), FragmentStep(p)
  PROVE  Leads(p)'
<1>1. pc \in [Proc -> Pcs] /\ job \in [Proc -> Job] /\ job[p] \in Job /\ Local(p)
  BY DEF IInv, TypeOK
<1>2. CASE Exit(p)
  BY <1>2, ExitLeads
<1>3. CASE WriteMarker(p) /\ pc[p] = "remark"
  <2>1. pc'[p] = "sweep"
    BY <1>1, <1>3 DEF WriteMarker, Goto
  <2> QED
    BY <2>1, ElsewhereLeads
<1>4. CASE ~Exit(p) /\ ~(WriteMarker(p) /\ pc[p] = "remark")
  <2>1. pc[p] \in AttemptPcs /\ file' = file /\ cat' = cat
    BY <1>4 DEF FragmentStep, PlanFragments, LockObject, WriteMarker, ReuseObject,
       OpenStage, WriteFragments, RenameStage, DropLock, AttemptFails
  <2>2. job'[p].kind = job[p].kind
    <3>1. PlanFragments(p) => job'[p].kind = job[p].kind
      BY <1>1 DEF PlanFragments, Job
    <3> QED
      BY <1>4, <3>1 DEF FragmentStep, LockObject, WriteMarker, ReuseObject,
         OpenStage, WriteFragments, RenameStage, DropLock, AttemptFails
  <2>3. \E to \in {"reload"} \cup AttemptPcs :
          /\ pc' = [pc EXCEPT ![p] = to]
          /\ to = "reload" => job[p].kind # "legacy"
    BY <1>4 DEF FragmentStep, PlanFragments, LockObject, WriteMarker, ReuseObject,
       OpenStage, WriteFragments, RenameStage, DropLock, AttemptFails, Goto
  <2>4. job[p].kind \in {"convert", "legacy"}
    BY <1>1, <2>1 DEF Local, AttemptFails
  <2>5. pc'[p] \in {"reload"} \cup AttemptPcs /\ (pc'[p] = "reload" => job[p].kind = "convert")
    BY <1>1, <2>3, <2>4
  <2> QED
    BY <2>1, <2>2, <2>5, WorkKeepsLead
<1> QED
  BY <1>2, <1>3, <1>4

LEMMA RecoverLeads ==
  ASSUME IInv, NEW p \in Proc, RecoverStep(p)
  PROVE  Leads(p)'
<1>1. pc \in [Proc -> Pcs] /\ (file # None => file \in Catalog)
  BY DEF IInv, TypeOK
<1>2. CASE Exit(p)
  BY <1>2, ExitLeads
<1>3. CASE InterruptRun(p) /\ ~Exit(p)
  <2> DEFINE c == [LastCatalog EXCEPT !.run.status = "interrupted"]
  <2>1. /\ Publish(p, "interrupt", c) /\ file' = file /\ objects' = objects
        /\ LastCatalog.run.status = "running" /\ LastCatalog \in Catalog
    BY <1>1, <1>3 DEF InterruptRun, LastCatalog
  <2>2. /\ c.sources = LastCatalog.sources
        /\ c.run = [LastCatalog.run EXCEPT !.status = "interrupted"]
        /\ c.revision = LastCatalog.revision
    BY <2>1 DEF Catalog
  <2> HIDE DEF c
  <2>3. Change(objects, "interrupt", job[p], LastCatalog, c.sources, c.run)
    BY <2>1, <2>2 DEF Change
  <2> QED
    BY <2>1, <2>2, <2>3, PublicationLeads
<1>4. CASE ~InterruptRun(p) /\ ~Exit(p)
  <2>1. \E to \in RecoverPcs : pc' = [pc EXCEPT ![p] = to]
    BY <1>4 DEF RecoverStep, ScanObjects, InspectMarker, OwnerUnverifiable, OwnerDead,
       OwnerActive, ClearMarker, RelockObject, SweepStaging, SweepFails, Goto
  <2> QED
    BY <1>1, <2>1, ElsewhereLeads
<1> QED
  BY <1>2, <1>3, <1>4

LEMMA OwnStepLeads ==
  ASSUME IInv, PInv, RInv, NEW p \in Proc, StepOf(p)
  PROVE  Leads(p)'
<1>1. pc \in [Proc -> Pcs] /\ Leads(p) /\ Local(p) /\ job[p].kind \in Kind
  BY JobParts DEF IInv, TypeOK, RInv
<1>2. CASE AcquireGuard(p)
  <2>1. pc'[p] \in {"load", "scan"}
    BY <1>1, <1>2 DEF AcquireGuard
  <2> QED
    BY <2>1, ElsewhereLeads
<1>3. CASE GuardRefused(p) \/ CommandFails(p) \/ Crash(p)
  BY <1>3, ExitLeads DEF GuardRefused, CommandFails, Crash
<1> QED
  BY <1>1, <1>2, <1>3, StartLeads, PublishLeads, ConvertLeads, FragmentLeads, RecoverLeads
  DEF StepOf, Step

-----------------------------------------------------------------------------
(* The ids of the runs *)

LEMMA UsedType ==
  ASSUME IInv
  PROVE  Used \in Nat /\ Used <= Budget["convert"] /\ Budget["convert"] \in Nat
<1>1. budget["convert"] \in Nat /\ Budget["convert"] \in Nat /\ budget["convert"] <= Budget["convert"]
  BY ConstantsAssumption DEF IInv, TypeOK, BudgetKeys
<1> QED
  BY <1>1 DEF Used

\* Only the start of a converter counts.
LEMMA OnlyStartCounts ==
  ASSUME IInv, NEW p \in Proc, StepOf(p), ~StartConvert(p)
  PROVE  Used' = Used
<1> SUFFICES budget'["convert"] = budget["convert"]
  BY DEF Used
<1>1. budget \in [BudgetKeys -> Nat]
  BY DEF IInv, TypeOK
<1>2. ASSUME NEW k \in {"recover", "legacy", "crash"}, Spend(k)
      PROVE  budget'["convert"] = budget["convert"]
  BY <1>1, <1>2 DEF Spend, BudgetKeys
<1>3. CASE StartCommand(p) \/ Crash(p)
  BY <1>2, <1>3 DEF StartCommand, StartRecover, StartLegacy, Start, Crash
<1>4. CASE Step(p)
  <2>1. PublishStep(p) => budget' = budget
    BY DEF PublishStep, StageCatalog, ReplaceCatalog, PublishFails
  <2>2. ConvertStep(p) => budget' = budget
    BY DEF ConvertStep, BeginRun, SkipDuplicate, MissingInput, HashSource,
           FinishRun, RecordSource, ReloadCatalog
  <2>3. FragmentStep(p) => budget' = budget
    BY DEF FragmentStep, PlanFragments, LockObject, WriteMarker, ReuseObject,
           OpenStage, WriteFragments, RenameStage, DropLock, AttemptFails
  <2>4. RecoverStep(p) => budget' = budget
    BY DEF RecoverStep, ScanObjects, InspectMarker, OwnerUnverifiable, OwnerDead,
           OwnerActive, ClearMarker, RelockObject, SweepStaging, SweepFails,
           InterruptRun
  <2> QED
    BY <1>4, <2>1, <2>2, <2>3, <2>4 DEF Step, AcquireGuard, GuardRefused, CommandFails
<1> QED
  BY <1>3, <1>4 DEF StepOf

\* A converter that has published its run does not come back to where it has not.
LEMMA RunsBeginOnce ==
  ASSUME IInv, NEW p \in Proc, StepOf(p), ~StartConvert(p), Converts(p)',
         pc'[p] \in {"guard", "load"}
  PROVE  AcquireGuard(p)
<1>0. pc \in [Proc -> Pcs] /\ job \in [Proc -> Job]
  BY DEF IInv, TypeOK
<1>1. ASSUME NEW to, pc' = [pc EXCEPT ![p] = to], to \notin {"guard", "load"}
      PROVE  FALSE
  BY <1>0, <1>1
<1>2. ~Exit(p)
  BY <1>1 DEF Exit
<1>3. ASSUME NEW to, Goto(p, to), to \notin {"guard", "load"}
      PROVE  FALSE
  BY <1>1, <1>3 DEF Goto
<1>4. ~StartCommand(p)
  <2>1. ~StartLegacy(p)
    BY <1>1 DEF StartLegacy, Start
  <2>2. StartRecover(p) => job'[p].kind = "recover"
    BY <1>0 DEF StartRecover, Start, IdleJob
  <2> QED
    BY <2>1, <2>2 DEF StartCommand, Converts
<1>5. ~(GuardRefused(p) \/ CommandFails(p) \/ Crash(p))
  BY <1>2 DEF GuardRefused, CommandFails, Crash
<1>6. ~PublishStep(p)
  BY <1>2, <1>3 DEF PublishStep, StageCatalog, ReplaceCatalog, PublishFails,
     PublishReturnsOk, PublishReturnsErr
<1>7. ~ConvertStep(p)
  BY <1>3 DEF ConvertStep, BeginRun, SkipDuplicate, MissingInput, HashSource,
     FinishRun, RecordSource, ReloadCatalog, Publish
<1>8. ~FragmentStep(p)
  BY <1>2, <1>3 DEF FragmentStep, PlanFragments, LockObject, WriteMarker, ReuseObject,
     OpenStage, WriteFragments, RenameStage, DropLock, AttemptFails
<1>9. ~RecoverStep(p)
  BY <1>2, <1>3 DEF RecoverStep, ScanObjects, InspectMarker, OwnerUnverifiable,
     OwnerDead, OwnerActive, ClearMarker, RelockObject, SweepStaging, SweepFails,
     InterruptRun, Publish
<1> QED
  BY <1>4, <1>5, <1>6, <1>7, <1>8, <1>9 DEF StepOf, Step

LEMMA IdsStep ==
  ASSUME IInv, PInv, RInv, NEW p \in Proc, StepOf(p)
  PROVE  Ids'
<1>1. /\ job \in [Proc -> Job] /\ \A q \in Proc : job[q].id \in Nat
      /\ LastCatalog.run.id \in Nat /\ cat[p] \in Catalog
  <2>1. LastCatalog.run \in Run
    BY LastCatalogType, CatalogParts
  <2> QED
    BY <2>1, JobParts DEF IInv, TypeOK, Run
<1>2. Used \in Nat
  BY UsedType
<1>3. \A q \in Proc \ {p} : pc'[q] = pc[q] /\ job'[q] = job[q]
  BY StepIsLocal
<1>4. CASE StartConvert(p)
  <2>1. file' = file /\ Spend("convert") /\ pc'[p] = "guard"
    BY <1>4 DEF StartConvert, Start, IInv, TypeOK
  <2>2. Used' = Used + 1
    <3>1. budget'["convert"] = budget["convert"] - 1 /\ budget["convert"] \in Nat
      BY <2>1 DEF Spend, IInv, TypeOK, BudgetKeys
    <3>2. Budget["convert"] \in Nat
      BY UsedType
    <3> QED
      BY <3>1, <3>2 DEF Used
  <2>3. job'[p].id = Used + 1
    <3>1. PICK b \in Batches, o \in Options, ff \in BOOLEAN :
            Start(p, "convert", "guard",
              [IdleJob EXCEPT !.kind = "convert", !.batch = b, !.todo = b, !.opts = o,
               !.id = Budget["convert"] - budget["convert"] + 1, !.failFast = ff])
      BY <1>4 DEF StartConvert
    <3> QED
      BY <1>1, <3>1 DEF Start, IdleJob, Used
  <2>4. LastCatalog' = LastCatalog
    BY <2>1 DEF LastCatalog
  <2> QED
    BY <1>1, <1>2, <1>3, <2>2, <2>3, <2>4 DEF RInv, Ids, Converts
<1>5. CASE ~StartConvert(p)
  <2>1. Used' = Used
    BY <1>5, OnlyStartCounts
  <2>2. ASSUME NEW q \in Proc, Converts(q)'
        PROVE  Converts(q) /\ job'[q].id = job[q].id
    <3>1. CASE q # p
      BY <1>3, <2>2, <3>1 DEF Converts
    <3>2. CASE q = p /\ (Step(p) \/ Crash(p))
      BY <2>2, <3>2, CommandKept DEF Converts
    <3>3. CASE q = p /\ (StartRecover(p) \/ StartLegacy(p))
      <4>1. job'[p].kind \in {"recover", "legacy"}
        BY <1>1, <3>3 DEF StartRecover, StartLegacy, Start, IdleJob
      <4> QED
        BY <2>2, <3>3, <4>1 DEF Converts
    <3> QED
      BY <1>5, <3>1, <3>2, <3>3 DEF StepOf, StartCommand
  <2>3. ASSUME NEW q \in Proc, Converts(q)', pc'[q] \in {"guard", "load"}
        PROVE  pc[q] \in {"guard", "load"}
    <3>1. CASE q = p
      BY <1>5, <2>3, <3>1, RunsBeginOnce DEF AcquireGuard
    <3>2. CASE q # p
      BY <1>3, <2>3, <3>2
    <3> QED
      BY <3>1, <3>2
  <2>4. CASE file' = file
    <3>1. LastCatalog' = LastCatalog
      BY <2>4 DEF LastCatalog
    <3> QED
      BY <2>1, <2>2, <2>3, <3>1 DEF RInv, Ids
  <2>5. CASE file' # file
    <3>1. ReplaceCatalog(p) /\ pc[p] = "replace" /\ file' = cat[p]
      BY <2>5, OnlyReplaceWrites DEF ReplaceCatalog
    <3>2. LastCatalog' = cat[p]
      BY <1>1, <3>1, NoneAssumption DEF LastCatalog
    <3>3. Ahead(p)
      BY <3>1 DEF RInv, Leads
    <3>4. \/ Converts(p) /\ cat[p].run.id = job[p].id
          \/ cat[p].run.id = LastCatalog.run.id
      <4>1. CASE job[p].publishing = "begin"
        BY <3>1, <3>3, <4>1 DEF Ahead, Change, IInv, Local, Converts
      <4>2. CASE job[p].publishing \in {"commit", "failure", "finish", "interrupt"}
        <5>1. LastCatalog.run \in Run
          BY LastCatalogType, CatalogParts
        <5> QED
          BY <3>3, <4>2, <5>1 DEF Ahead, Change, Run
      <4>3. job[p].publishing \in Publishing \ {"none"}
        BY <1>1, <3>1, JobParts DEF IInv, Local
      <4> QED
        BY <4>1, <4>2, <4>3 DEF Publishing
    <3>5. pc[p] \notin {"guard", "load"}
      BY <3>1
    <3> QED
      BY <1>1, <1>2, <2>1, <2>2, <2>3, <3>2, <3>4, <3>5 DEF RInv, Ids
  <2> QED
    BY <2>4, <2>5
<1> QED
  BY <1>4, <1>5

-----------------------------------------------------------------------------
(* The inductive invariant *)

LEMMA RInvInit == Init => RInv
<1> SUFFICES ASSUME Init PROVE RInv
  OBVIOUS
<1>1. LastCatalog.run.id = 0
  BY DEF Init, LastCatalog, DefaultCatalog
<1>2. Used = 0
  BY ConstantsAssumption DEF Init, Used, BudgetKeys
<1>3. \A p \in Proc : ~Converts(p) /\ pc[p] = "idle"
  BY DEF Init, Converts, IdleJob
<1> QED
  BY <1>1, <1>2, <1>3 DEF RInv, Ids, Leads

LEMMA RInvStep == IInv /\ PInv /\ RInv /\ [Next]_vars => RInv'
<1> SUFFICES ASSUME IInv, PInv, RInv, [Next]_vars PROVE RInv'
  OBVIOUS
<1>1. ASSUME NEW p \in Proc, StepOf(p) PROVE RInv'
  <2>1. ASSUME NEW q \in Proc PROVE Leads(q)'
    BY <1>1, OwnStepLeads, OthersKeepLead DEF RInv
  <2> QED
    BY <1>1, <2>1, IdsStep DEF RInv
<1>2. ASSUME ObjectsKept, UNCHANGED <<file, cat, pc, job>>, budget'["convert"] = budget["convert"]
      PROVE  RInv'
  <2>1. LastCatalog' = LastCatalog /\ Used' = Used
    BY <1>2 DEF LastCatalog, Used
  <2>2. ASSUME NEW q \in Proc PROVE Leads(q)'
    <3>1. Leads(q) /\ (Ahead(q) => Ahead(q)')
      BY <1>2, <2>1, ChangeKept DEF RInv, Ahead
    <3> QED
      BY <1>2, <2>1, <3>1 DEF Leads
  <2>3. Ids'
    BY <1>2, <2>1 DEF RInv, Ids, Converts
  <2> QED
    BY <2>2, <2>3 DEF RInv
<1>3. CASE UNCHANGED vars
  BY <1>2, <1>3 DEF ObjectsKept
<1>4. ASSUME NEW k \in {"edit", "damage"}, Spend(k)
      PROVE  budget'["convert"] = budget["convert"]
  BY <1>4 DEF Spend, IInv, TypeOK, BudgetKeys
<1>5. ASSUME NEW s \in Source, EditSource(s) PROVE RInv'
  BY <1>2, <1>4, <1>5 DEF ObjectsKept, EditSource
<1>6. ASSUME NEW g \in Generation, NEW c \in Content, DamageObject(g, c) PROVE RInv'
  <2>1. objects' = [objects EXCEPT ![g] = [@ EXCEPT ![c] = "damaged"]]
        /\ UNCHANGED <<file, cat, pc, job>> /\ Spend("damage")
    BY <1>6 DEF DamageObject
  <2>2. ObjectsKept
    BY <2>1 DEF ObjectsKept, IInv, TypeOK
  <2> QED
    BY <1>2, <1>4, <2>1, <2>2
<1> HIDE DEF vars
<1> QED
  BY <1>1, <1>3, <1>5, <1>6 DEF Next, StepOf

LEMMA ReachableLeads == Spec => [](IInv /\ PInv /\ RInv)
<1> HIDE DEF vars
<1>1. Init /\ [][Next]_vars /\ []IInv => []PInv
  BY PInvInit, PInvStep, PTL
<1>2. Init /\ [][Next]_vars /\ []IInv /\ []PInv => []RInv
  BY RInvInit, RInvStep, PTL
<1>3. Spec => []IInv
  BY InvariantHolds
<1> QED
  BY <1>1, <1>2, <1>3, PTL DEF Spec

-----------------------------------------------------------------------------
(* The steps of the store *)

LEMMA SameDirectories ==
  ASSUME \A g \in Generation, c \in Content :
           objects'[g][c] # "absent" <=> objects[g][c] # "absent"
  PROVE  PublishedDirectories' = PublishedDirectories
<1>1. ASSUME NEW d \in [source : Source, sha : Content, opts : Options, rows : Content]
      PROVE  Object(d.source, d)' # "absent" <=> Object(d.source, d) # "absent"
  <2>1. [source |-> d.source, sha |-> d.sha, opts |-> d.opts] \in Generation
        /\ d.rows \in Content
    BY DEF Generation
  <2> QED
    BY <2>1 DEF Object
<1> QED
  BY <1>1 DEF PublishedDirectories

LEMMA RenamePublishes ==
  ASSUME IInv, NEW p \in Proc, RenameStage(p)
  PROVE  Store!PublishObject
<1> DEFINE g == job[p].gen
<1> DEFINE d == [source |-> g.source, sha |-> g.sha, opts |-> g.opts, rows |-> job[p].rows]
<1>1. g \in Generation /\ job[p].rows \in Content
  BY DEF IInv, Local, RenameStage
<1>2. d \in [source : Source, sha : Content, opts : Options, rows : Content]
  BY <1>1 DEF Generation
<1>3. ASSUME NEW e \in [source : Source, sha : Content, opts : Options, rows : Content]
      PROVE  Object(e.source, e)' # "absent" <=> Object(e.source, e) # "absent" \/ e = d
  <2> DEFINE h == [source |-> e.source, sha |-> e.sha, opts |-> e.opts]
  <2>1. h \in Generation /\ e.rows \in Content
    BY DEF Generation
  <2>2. e = d <=> h = g /\ e.rows = job[p].rows
    <3>1. g = [source |-> g.source, sha |-> g.sha, opts |-> g.opts]
      BY <1>1 DEF Generation
    <3>2. e = [source |-> e.source, sha |-> e.sha, opts |-> e.opts, rows |-> e.rows]
      OBVIOUS
    <3> QED
      BY <3>1, <3>2
  <2>3. objects' = [objects EXCEPT ![g] = [@ EXCEPT ![job[p].rows] = "intact"]]
    BY DEF RenameStage
  <2> HIDE DEF h, g, d
  <2>4. objects'[h][e.rows] = IF h = g /\ e.rows = job[p].rows THEN "intact"
                                ELSE objects[h][e.rows]
    BY <1>1, <2>1, <2>3 DEF IInv, TypeOK
  <2> QED
    BY <2>2, <2>4 DEF Object, h
<1> HIDE DEF d
<1>4. PublishedDirectories' = PublishedDirectories \cup {d}
  BY <1>2, <1>3 DEF PublishedDirectories
<1>5. file' = file
  BY DEF RenameStage
<1> QED
  BY <1>2, <1>4, <1>5 DEF Store!PublishObject, Store!Directory

\* Replacing the file is the step of the store that the version was made for.
LEMMA ReplaceCommits ==
  ASSUME IInv, RInv, NEW p \in Proc, ReplaceCatalog(p)
  PROVE  Store!StoreNext
<1> DEFINE L == LastCatalog
<1>1. L \in Catalog /\ L.run \in Run /\ cat[p] \in Catalog /\ cat[p].run \in Run
  BY LastCatalogType, CatalogParts DEF IInv, TypeOK
<1>2. /\ pc[p] = "replace" /\ Local(p) /\ file' = cat[p]
      /\ Ahead(p) /\ L.revision < MaxRevision /\ cat[p].revision = L.revision + 1
  BY DEF ReplaceCatalog, IInv, RInv, Leads
<1>3. Store!Last = L
  BY DEF Store!Last, Store!Fresh, LastCatalog, DefaultCatalog, NoEntry
<1>4. \A sources, run : cat[p].sources = sources /\ cat[p].run = run
                           => Store!Commit(sources, run)
  BY <1>1, <1>2, <1>3 DEF Store!Commit, Catalog
<1>5. PublishedDirectories' = PublishedDirectories
  BY SameDirectories DEF ReplaceCatalog
<1>6. job[p].publishing \in Publishing \ {"none"}
  BY <1>2, JobParts DEF IInv, TypeOK, Local
<1> HIDE DEF L
<1>7. Change(objects, job[p].publishing, job[p], L, cat[p].sources, cat[p].run)
  BY <1>2 DEF Ahead, L
<1>8. CASE job[p].publishing = "begin"
  <2>1. job[p].id \in 1 .. Budget["convert"]
    BY <1>2, <1>8, UsedType DEF Local, RInv, Ids, Converts
  <2> QED
    BY <1>3, <1>4, <1>5, <1>7, <1>8, <2>1 DEF Change, Store!StoreNext, Store!StoreBegin
<1>9. CASE job[p].publishing = "commit"
  <2>1. PICK s \in Source, v \in Entry :
          /\ objects[[source |-> s, sha |-> v.sha, opts |-> v.opts]][v.rows] # "absent"
          /\ cat[p].sources = [L.sources EXCEPT ![s] = v]
    BY <1>7, <1>9 DEF Change
  <2>2. cat[p].run = [L.run EXCEPT !.completed = @ + 1] /\ L.run.status = "running"
    BY <1>7, <1>9 DEF Change
  <2>3. Store!DirectoryOf(s, v) \in PublishedDirectories
    BY <2>1 DEF Store!DirectoryOf, PublishedDirectories, Object, Entry
  <2>4. v \in Store!Version
    BY DEF Store!Version, Entry
  <2>5. Store!Commit([L.sources EXCEPT ![s] = v], [L.run EXCEPT !.completed = @ + 1])
    BY <1>4, <2>1, <2>2
  <2>6. Store!StoreCommitSource
    BY <1>3, <1>5, <2>2, <2>3, <2>4, <2>5 DEF Store!StoreCommitSource
  <2> QED
    BY <2>6 DEF Store!StoreNext
<1>10. CASE job[p].publishing = "failure"
  <2>1. cat[p].sources = L.sources /\ L.run.status = "running" /\ job[p].failFast \in BOOLEAN
    BY <1>7, <1>10, JobParts DEF Change, IInv, TypeOK
  <2>2. PICK s \in Source :
          cat[p].run = [L.run EXCEPT !.failures = @ \cup {s},
                          !.status = IF job[p].failFast THEN "failed" ELSE "running"]
    BY <1>7, <1>10 DEF Change
  <2>3. Store!Commit(L.sources, [L.run EXCEPT !.failures = @ \cup {s},
                       !.status = IF job[p].failFast THEN "failed" ELSE "running"])
    BY <1>4, <2>1, <2>2
  <2>4. Store!StoreRecordFailure
    BY <1>3, <1>5, <2>1, <2>3 DEF Store!StoreRecordFailure
  <2> QED
    BY <2>4 DEF Store!StoreNext
<1>11. CASE job[p].publishing = "finish"
  BY <1>3, <1>4, <1>5, <1>7, <1>11 DEF Change, Store!StoreNext, Store!StoreFinish
<1>12. CASE job[p].publishing = "interrupt"
  BY <1>3, <1>4, <1>5, <1>7, <1>12 DEF Change, Store!StoreNext, Store!StoreInterrupt
<1> QED
  BY <1>6, <1>8, <1>9, <1>10, <1>11, <1>12 DEF Publishing

LEMMA StoreStep ==
  IInv /\ PInv /\ RInv /\ [Next]_vars => [Store!StoreNext]_Store!storeVars
<1> SUFFICES ASSUME IInv, PInv, RInv, [Next]_vars
             PROVE  Store!StoreNext \/ UNCHANGED <<file, PublishedDirectories>>
  BY DEF Store!storeVars
<1>1. ASSUME file' = file, objects' = objects
      PROVE  UNCHANGED <<file, PublishedDirectories>>
  BY <1>1, SameDirectories
<1>2. ASSUME NEW p \in Proc, StepOf(p)
      PROVE  Store!StoreNext \/ UNCHANGED <<file, PublishedDirectories>>
  <2>1. CASE file' # file
    BY <1>2, <2>1, OnlyReplaceWrites, ReplaceCommits
  <2>2. CASE RenameStage(p)
    BY <2>2, RenamePublishes DEF Store!StoreNext
  <2>3. CASE file' = file /\ ~RenameStage(p)
    BY <1>1, <1>2, <2>3, OnlyRenamePublishes
  <2> QED
    BY <2>1, <2>2, <2>3
<1>3. ASSUME NEW s \in Source, EditSource(s) PROVE UNCHANGED <<file, PublishedDirectories>>
  BY <1>1, <1>3 DEF EditSource
<1>4. ASSUME NEW g \in Generation, NEW c \in Content, DamageObject(g, c)
      PROVE  UNCHANGED <<file, PublishedDirectories>>
  <2>1. /\ objects' = [objects EXCEPT ![g] = [@ EXCEPT ![c] = "damaged"]]
        /\ objects[g][c] = "intact" /\ file' = file
    BY <1>4 DEF DamageObject
  <2>2. \A h \in Generation, d \in Content :
          objects'[h][d] # "absent" <=> objects[h][d] # "absent"
    BY <2>1 DEF IInv, TypeOK
  <2> QED
    BY <2>1, <2>2, SameDirectories
<1>5. CASE UNCHANGED vars
  BY <1>1, <1>5
<1> HIDE DEF vars
<1> QED
  BY <1>2, <1>3, <1>4, <1>5 DEF Next, StepOf

\* What a reader of _catalog.json sees is a history of the abstract store: every
\* version is one legal step after the one it replaces and selects published
\* directories only, although convert_dataset and recover_dataset make it of a copy
\* read long before, may be killed or fail at any step and are not alone.
THEOREM CatalogRefinesStore == Spec => ImplementsStore
<1>1. Init => Store!StoreInit
  <2> SUFFICES ASSUME Init PROVE file = None /\ PublishedDirectories = {}
    BY DEF Store!StoreInit
  <2>1. ASSUME NEW d \in [source : Source, sha : Content, opts : Options, rows : Content]
        PROVE  Object(d.source, d) = "absent"
    <3>1. [source |-> d.source, sha |-> d.sha, opts |-> d.opts] \in Generation
          /\ d.rows \in Content
      BY DEF Generation
    <3> QED
      BY <3>1 DEF Init, Object
  <2> QED
    BY <2>1 DEF Init, PublishedDirectories
<1> HIDE DEF vars
<1>2. IInv /\ PInv /\ RInv /\ [Next]_vars => [Store!StoreNext]_Store!storeVars
  BY StoreStep
<1> QED
  BY <1>1, <1>2, ReachableLeads, PTL DEF Spec, ImplementsStore, Store!StoreSpec

-----------------------------------------------------------------------------
(* Interrupted runs *)

IdleInv == \A p \in Proc : pc[p] = "idle" => job[p].kind = "none"

\* A process comes to rest only by returning, and returning forgets its command.
LEMMA RestIsReturn ==
  ASSUME IInv, NEW p \in Proc, StepOf(p), pc'[p] = "idle"
  PROVE  Exit(p)
<1>0. pc \in [Proc -> Pcs]
  BY DEF IInv, TypeOK
<1>1. ASSUME NEW to, pc' = [pc EXCEPT ![p] = to], to # "idle"
      PROVE  FALSE
  BY <1>0, <1>1
<1>2. ASSUME NEW to, Goto(p, to), to # "idle"
      PROVE  FALSE
  BY <1>1, <1>2 DEF Goto
<1>3. ~StartCommand(p) /\ ~AcquireGuard(p)
  BY <1>1 DEF StartCommand, StartConvert, StartRecover, StartLegacy, Start, AcquireGuard
<1>4. PublishStep(p) => Exit(p)
  BY <1>2 DEF PublishStep, StageCatalog, ReplaceCatalog, PublishFails,
     PublishReturnsOk, PublishReturnsErr
<1>5. ~ConvertStep(p)
  BY <1>2 DEF ConvertStep, BeginRun, SkipDuplicate, MissingInput, HashSource,
     FinishRun, RecordSource, ReloadCatalog, Publish
<1>6. FragmentStep(p) => Exit(p)
  BY <1>2 DEF FragmentStep, PlanFragments, LockObject, WriteMarker, ReuseObject,
     OpenStage, WriteFragments, RenameStage, DropLock, AttemptFails
<1>7. RecoverStep(p) => Exit(p)
  BY <1>2 DEF RecoverStep, ScanObjects, InspectMarker, OwnerUnverifiable,
     OwnerDead, OwnerActive, ClearMarker, RelockObject, SweepStaging, SweepFails,
     InterruptRun, Publish
<1> QED
  BY <1>3, <1>4, <1>5, <1>6, <1>7 DEF StepOf, Step, GuardRefused, CommandFails, Crash

LEMMA IdleInvStep == IInv /\ IdleInv /\ [Next]_vars => IdleInv'
<1> SUFFICES ASSUME IInv, IdleInv, [Next]_vars PROVE IdleInv'
  OBVIOUS
<1>1. ASSUME NEW p \in Proc, StepOf(p), NEW q \in Proc, pc'[q] = "idle"
      PROVE  job'[q].kind = "none"
  <2>1. CASE q = p
    <3>1. Exit(p)
      BY <1>1, <2>1, RestIsReturn
    <3> QED
      BY <2>1, <3>1 DEF Exit, IInv, TypeOK, IdleJob
  <2>2. CASE q # p
    BY <1>1, <2>2, StepIsLocal DEF IdleInv
  <2> QED
    BY <2>1, <2>2
<1>2. CASE UNCHANGED <<pc, job>>
  BY <1>2 DEF IdleInv
<1>3. UNCHANGED vars => UNCHANGED <<pc, job>>
  OBVIOUS
<1>4. \A s \in Source : EditSource(s) => UNCHANGED <<pc, job>>
  BY DEF EditSource
<1>5. \A g \in Generation, c \in Content : DamageObject(g, c) => UNCHANGED <<pc, job>>
  BY DEF DamageObject
<1> HIDE DEF vars
<1> QED
  BY <1>1, <1>2, <1>3, <1>4, <1>5 DEF Next, StepOf, IdleInv

\* "interrupted" replaces the status of a run only when the process of that run is
\* gone: recover_dataset writes it behind the guard, on a file that it read behind the
\* same guard, so that no converter is past its own acquire then.
THEOREM InterruptsOnlyAbandoned == Spec => InterruptedRunIsAbandoned
<1>1. ASSUME IInv, RInv, IdleInv, [Next]_vars, file' # file,
             file'.run.status = "interrupted",
             NEW q \in Proc, job[q].kind = "convert", pc[q] # "guard"
      PROVE  FALSE
  <2>1. PICK p \in Proc : StepOf(p)
    BY <1>1 DEF Next, StepOf, EditSource, DamageObject
  <2>2. /\ ReplaceCatalog(p) /\ guard = p /\ Local(p)
        /\ pc[p] = "replace" /\ file' = cat[p] /\ Ahead(p)
    BY <1>1, <2>1, OnlyReplaceWrites DEF ReplaceCatalog, IInv, RInv, Leads
  <2>3. job[p].publishing = "interrupt"
    <3>1. job[p].publishing \in Publishing \ {"none"} /\ LastCatalog.run \in Run
      BY <1>1, <2>2, JobParts, LastCatalogType, CatalogParts DEF IInv, TypeOK, Local
    <3>2. job[p].publishing # "begin"
      <4>1. job[p].publishing = "begin" => cat[p].run.status = "running"
        BY <2>2 DEF Ahead, Change
      <4> QED
        BY <1>1, <2>2, <4>1
    <3>3. ASSUME job[p].publishing \in {"commit", "failure", "finish"} PROVE FALSE
      BY <1>1, <2>2, <3>1, <3>3 DEF Ahead, Change, Run
    <3> QED
      BY <3>1, <3>2, <3>3 DEF Publishing
  <2>4. job[p].kind = "recover"
    BY <2>2, <2>3 DEF Local
  <2>5. HoldsGuard(q)
    BY <1>1 DEF HoldsGuard, IdleInv, IInv, TypeOK
  <2> QED
    BY <1>1, <2>2, <2>4, <2>5 DEF IInv
<1>2. IInv /\ RInv /\ IdleInv /\ [Next]_vars
        => [file' # file /\ file' # None /\ file'.run.status = "interrupted" =>
              \A p \in Proc : job[p].kind = "convert" /\ pc[p] # "guard"
                                => job[p].id # file'.run.id]_vars
  BY <1>1
<1> HIDE DEF vars
<1>3. Init => IdleInv
  BY DEF Init, IdleInv, IdleJob
<1>4. Init /\ [][Next]_vars /\ []IInv => []IdleInv
  BY <1>3, IdleInvStep, PTL
<1> QED
  BY <1>2, <1>4, ReachableLeads, PTL DEF Spec, InterruptedRunIsAbandoned

-----------------------------------------------------------------------------
(***************************************************************************)
(* What a status tells, for every value of the constants.                   *)
(*                                                                         *)
(* StatusAgreesWithFailures: a final status and the failures beside it are  *)
(* decided at different moments, the failures one by one from whatever the  *)
(* file says after an error; the invariant is that every catalog value a    *)
(* process holds agrees already.                                           *)
(*                                                                         *)
(* CompleteRunCoversInputs: as long as its run has no failure, a converter  *)
(* has an entry with its options, counted once, for each input that it has  *)
(* been through, and all the others are still to come (Covers).             *)
(***************************************************************************)
HIDE DEF GuardedPcs

Agrees(c) ==
  /\ c.run.status = "complete" => c.run.failures = {}
  /\ c.run.status \in {"partial", "failed"} => c.run.failures # {}

SInv ==
  /\ file # None => Agrees(file)
  /\ \A p \in Proc : Agrees(cat[p])

LEMMA DefaultAgrees == Agrees(DefaultCatalog)
BY DEF Agrees, DefaultCatalog

\* Agreement is about the run alone.
LEMMA SameRun ==
  ASSUME NEW c, NEW d, d.run = c.run, Agrees(c)
  PROVE  Agrees(d)
BY DEF Agrees

\* A catalog value changes by a publication that decides its status together
\* with its failures, or by one that leaves both alone.
LEMMA ConvertKeepsAgreement ==
  ASSUME IInv, SInv, NEW p \in Proc, ConvertStep(p)
  PROVE  cat' = cat \/ \E w, d : Publish(p, w, d) /\ Agrees(d)
<1>1. cat[p] \in Catalog /\ (file # None => file \in Catalog)
  BY DEF IInv, TypeOK
<1>2. CASE BeginRun(p)
  <2> DEFINE base == IF file = None THEN DefaultCatalog ELSE file
  <2> DEFINE r == [id |-> job[p].id, status |-> "running", completed |-> 0, failures |-> {}]
  <2>1. base \in Catalog
    BY <1>1, DefaultCatalogType
  <2>2. Publish(p, "begin", [base EXCEPT !.run = r])
    BY <1>2 DEF BeginRun
  <2>3. [base EXCEPT !.run = r].run = r
    BY <2>1 DEF Catalog, Run
  <2>4. Agrees([base EXCEPT !.run = r])
    BY <2>3 DEF Agrees
  <2> QED
    BY <2>2, <2>4
<1>3. CASE FinishRun(p)
  <2> DEFINE t == IF cat[p].run.failures = {} THEN "complete" ELSE "partial"
  <2> DEFINE d == [cat[p] EXCEPT !.run.status = t]
  <2>1. Publish(p, "finish", d)
    BY <1>3 DEF FinishRun
  <2>2. d.run.status = t /\ d.run.failures = cat[p].run.failures
    BY <1>1 DEF Catalog, Run
  <2>3. Agrees(d)
    BY <2>2 DEF Agrees
  <2> QED
    BY <2>1, <2>3
<1>4. CASE ReloadCatalog(p)
  <2> DEFINE f == file.run.failures \cup {job[p].input}
  <2> DEFINE t == IF job[p].failFast THEN "failed" ELSE "running"
  <2> DEFINE d == [file EXCEPT !.run.failures = f, !.run.status = t]
  <2>1. file \in Catalog
    BY <1>1, <1>4 DEF ReloadCatalog
  <2>2. Publish(p, "failure", d)
    BY <1>4, <2>1 DEF ReloadCatalog, Catalog, Run
  <2>3. d.run.status = t /\ d.run.failures = f
    BY <2>1 DEF Catalog, Run
  <2>4. Agrees(d)
    BY <2>3 DEF Agrees
  <2> QED
    BY <2>2, <2>4
<1>5. CASE RecordSource(p)
  <2>1. PICK m, n : Publish(p, "commit", [cat[p] EXCEPT !.sources = m, !.run.completed = n])
    BY <1>5 DEF RecordSource
  <2> DEFINE d == [cat[p] EXCEPT !.sources = m, !.run.completed = n]
  <2>2. d.run.status = cat[p].run.status /\ d.run.failures = cat[p].run.failures
    BY <1>1 DEF Catalog, Run
  <2> HIDE DEF d
  <2>3. Agrees(d)
    BY <2>2 DEF Agrees, SInv
  <2> QED
    BY <2>1, <2>3 DEF d
<1>6. CASE SkipDuplicate(p) \/ MissingInput(p) \/ HashSource(p)
  BY <1>6 DEF SkipDuplicate, MissingInput, HashSource
<1> QED
  BY <1>2, <1>3, <1>4, <1>5, <1>6 DEF ConvertStep

\* Recovery only ever turns "running" into "interrupted".
LEMMA RecoverKeepsAgreement ==
  ASSUME IInv, NEW p \in Proc, RecoverStep(p)
  PROVE  cat' = cat \/ Exit(p) \/ \E w, d : Publish(p, w, d) /\ Agrees(d)
<1>1. CASE InterruptRun(p) /\ ~Exit(p)
  <2> DEFINE d == [file EXCEPT !.run.status = "interrupted"]
  <2>1. file \in Catalog /\ Publish(p, "interrupt", d)
    BY <1>1 DEF InterruptRun, IInv, TypeOK
  <2>2. d.run.status = "interrupted"
    BY <2>1 DEF Catalog, Run
  <2>3. Agrees(d)
    BY <2>2 DEF Agrees
  <2> QED
    BY <2>1, <2>3
<1>2. ~InterruptRun(p) => cat' = cat \/ Exit(p)
  BY DEF RecoverStep, ScanObjects, InspectMarker, OwnerUnverifiable, OwnerDead,
     OwnerActive, ClearMarker, RelockObject, SweepStaging, SweepFails
<1> QED
  BY <1>1, <1>2

LEMMA StepKeepsAgreement ==
  ASSUME IInv, SInv, NEW p \in Proc, StepOf(p)
  PROVE  \A q \in Proc : Agrees(cat'[q])
<1>1. CASE cat' = cat
  BY <1>1 DEF SInv
<1>2. CASE Exit(p)
  BY <1>2, ExitSets, DefaultAgrees DEF IInv, SInv
<1>3. CASE \E w, d : Publish(p, w, d) /\ Agrees(d)
  <2>1. PICK w, d : Publish(p, w, d) /\ Agrees(d)
    BY <1>3
  <2>2. cat'[p] = d /\ \A q \in Proc \ {p} : cat'[q] = cat[q]
    BY <2>1, PublishSets DEF IInv
  <2> QED
    BY <2>1, <2>2 DEF SInv
<1>4. CASE StartCommand(p) \/ AcquireGuard(p) \/ GuardRefused(p) \/ CommandFails(p) \/ Crash(p)
  BY <1>1, <1>2, <1>4 DEF StartCommand, StartConvert, StartRecover, StartLegacy, Start,
     AcquireGuard, GuardRefused, CommandFails, Crash
<1>5. CASE StageCatalog(p)
  <2> DEFINE d == [cat[p] EXCEPT !.revision = cat[p].revision + 1]
  <2>1. cat[p] \in Catalog /\ cat'[p] = d /\ \A q \in Proc \ {p} : cat'[q] = cat[q]
    BY <1>5 DEF StageCatalog, IInv, TypeOK
  <2>2. d.run = cat[p].run
    BY <2>1 DEF Catalog
  <2> HIDE DEF d
  <2>3. Agrees(d)
    BY <2>2, SameRun DEF SInv
  <2> QED
    BY <2>1, <2>3 DEF SInv
<1>6. CASE ReplaceCatalog(p) \/ PublishFails(p)
  BY <1>1, <1>2, <1>6 DEF ReplaceCatalog, PublishFails, PublishReturnsOk, PublishReturnsErr
<1>7. CASE ConvertStep(p)
  BY <1>1, <1>3, <1>7, ConvertKeepsAgreement
<1>8. CASE FragmentStep(p)
  BY <1>1, <1>2, <1>8 DEF FragmentStep, PlanFragments, LockObject, WriteMarker,
     ReuseObject, OpenStage, WriteFragments, RenameStage, DropLock, AttemptFails
<1>9. CASE RecoverStep(p)
  BY <1>1, <1>2, <1>3, <1>9, RecoverKeepsAgreement
<1> QED
  BY <1>4, <1>5, <1>6, <1>7, <1>8, <1>9 DEF StepOf, Step, PublishStep

-----------------------------------------------------------------------------
(* The inductive invariant *)

LEMMA SInvInit == Init => SInv
BY DefaultAgrees DEF Init, SInv

LEMMA SInvStep == IInv /\ SInv /\ [Next]_vars => SInv'
<1> SUFFICES ASSUME IInv, SInv, [Next]_vars PROVE SInv'
  OBVIOUS
<1>1. ASSUME NEW p \in Proc, StepOf(p) PROVE SInv'
  <2>1. \A q \in Proc : Agrees(cat'[q])
    BY <1>1, StepKeepsAgreement
  <2>2. CASE file' = file
    BY <2>1, <2>2 DEF SInv
  <2>3. CASE file' = cat[p]
    BY <2>1, <2>3 DEF SInv
  <2> QED
    BY <1>1, <2>2, <2>3, StepReplacesFile
<1>2. CASE UNCHANGED <<file, cat>>
  BY <1>2 DEF SInv
<1>3. UNCHANGED vars => UNCHANGED <<file, cat>>
  OBVIOUS
<1>4. \A s \in Source : EditSource(s) => UNCHANGED <<file, cat>>
  BY DEF EditSource
<1>5. \A g \in Generation, c \in Content : DamageObject(g, c) => UNCHANGED <<file, cat>>
  BY DEF DamageObject
<1> HIDE DEF vars
<1> QED
  BY <1>1, <1>2, <1>3, <1>4, <1>5 DEF Next, StepOf

\* What a run reports is what happened to its inputs: the committed catalog
\* never says "complete" beside a failure nor "partial" or "failed" without one,
\* although convert_dataset drops its pending catalog after every error and
\* rebuilds the failure list on the file's version.
THEOREM StatusTellsFailures == Spec => []StatusAgreesWithFailures
<1>1. SInv => StatusAgreesWithFailures
  BY DEF SInv, Agrees, StatusAgreesWithFailures
<1> HIDE DEF vars
<1>2. Init /\ [][Next]_vars /\ []IInv => []SInv
  BY SInvInit, SInvStep, PTL
<1> QED
  BY <1>1, <1>2, InvariantHolds, PTL DEF Spec

-----------------------------------------------------------------------------
(* Complete runs *)

Named(j) == {j.batch[i] : i \in DOMAIN j.batch}
Waiting(j) == {j.todo[i] : i \in DOMAIN j.todo}

\* Each of S has an entry with the options of j, and is counted once.
Entered(j, sources, run, S) ==
  /\ IsFiniteSet(S) /\ run.completed = Cardinality(S)
  /\ \A s \in S : sources[s] # None /\ sources[s].opts = j.opts

Done(at, j) == IF at \in AttemptPcs THEN j.seen \ {j.input} ELSE j.seen

Covers(at, j, sources, run) ==
  /\ at \in {"guard", "load"} => j.todo = j.batch /\ j.seen = {}
  /\ at \in AttemptPcs => j.gen.opts = j.opts /\ j.input \in j.seen
  /\ at \in {"next"} \cup AttemptPcs \cup PublishPcs /\ run.failures = {} =>
       j.seen \cup Waiting(j) = Named(j) /\ Entered(j, sources, run, Done(at, j))
  /\ at \in PublishPcs /\ j.publishing = "finish" => j.todo = <<>>

CoversOf(p) ==
  job[p].kind = "convert" => Covers(pc[p], job[p], cat[p].sources, cat[p].run)
CInv == \A p \in Proc : CoversOf(p)

LEMMA FirstAndRest ==
  ASSUME NEW s \in Seq(Source), s # <<>>
  PROVE  /\ Head(s) \in Source /\ Tail(s) \in Seq(Source)
         /\ {s[i] : i \in DOMAIN s} = {Head(s)} \cup {Tail(s)[i] : i \in DOMAIN Tail(s)}
<1>1. /\ Head(s) = s[1] /\ Head(s) \in Source /\ Tail(s) \in Seq(Source)
      /\ Len(s) \in Nat /\ DOMAIN s = 1 .. Len(s) /\ DOMAIN Tail(s) = 1 .. (Len(s) - 1)
      /\ 1 \in DOMAIN s /\ \A i \in 1 .. (Len(s) - 1) : Tail(s)[i] = s[i + 1]
  OBVIOUS
<1>2. ASSUME NEW i \in DOMAIN s, i # 1 PROVE \E k \in DOMAIN Tail(s) : Tail(s)[k] = s[i]
  <2>1. i - 1 \in DOMAIN Tail(s) /\ Tail(s)[i - 1] = s[i]
    BY <1>1, <1>2
  <2> QED
    BY <2>1
<1>3. ASSUME NEW k \in DOMAIN Tail(s) PROVE \E i \in DOMAIN s : Tail(s)[k] = s[i]
  <2>1. k + 1 \in DOMAIN s /\ Tail(s)[k] = s[k + 1]
    BY <1>1
  <2> QED
    BY <2>1
<1>4. {s[i] : i \in DOMAIN s} \subseteq {Head(s)} \cup {Tail(s)[i] : i \in DOMAIN Tail(s)}
  <2> SUFFICES ASSUME NEW i \in DOMAIN s, i # 1
               PROVE  s[i] \in {Tail(s)[k] : k \in DOMAIN Tail(s)}
    BY <1>1
  <2> QED
    BY <1>2
<1>5. {Head(s)} \cup {Tail(s)[i] : i \in DOMAIN Tail(s)} \subseteq {s[i] : i \in DOMAIN s}
  <2>1. Head(s) \in {s[i] : i \in DOMAIN s}
    BY <1>1
  <2> QED
    BY <1>3, <2>1
<1> QED
  BY <1>1, <1>4, <1>5

LEMMA StartCovers ==
  ASSUME IInv, NEW p \in Proc, StartCommand(p)
  PROVE  CoversOf(p)'
<1>1. pc \in [Proc -> Pcs] /\ job \in [Proc -> Job]
  BY DEF IInv, TypeOK
<1>2. CASE StartConvert(p)
  <2>1. PICK b \in Batches, o \in Options, ff \in BOOLEAN :
          Start(p, "convert", "guard",
            [IdleJob EXCEPT !.kind = "convert", !.batch = b, !.todo = b, !.opts = o,
             !.id = Budget["convert"] - budget["convert"] + 1, !.failFast = ff])
    BY <1>2 DEF StartConvert
  <2>2. pc'[p] = "guard" /\ job'[p].todo = job'[p].batch /\ job'[p].seen = {}
    BY <1>1, <2>1 DEF Start, IdleJob
  <2> QED
    BY <2>2 DEF CoversOf, Covers
<1>3. CASE StartRecover(p) \/ StartLegacy(p)
  <2>1. job'[p].kind \in {"recover", "legacy"}
    BY <1>1, <1>3, ZenonT(40) DEF StartRecover, StartLegacy, Start, IdleJob
  <2> QED
    BY <2>1 DEF CoversOf
<1> QED
  BY <1>2, <1>3 DEF StartCommand

LEMMA ExitCovers ==
  ASSUME IInv, NEW p \in Proc, Exit(p)
  PROVE  CoversOf(p)'
BY DEF Exit, IdleJob, CoversOf, IInv, TypeOK

LEMMA PublishCovers ==
  ASSUME IInv, NEW p \in Proc, CoversOf(p), PublishStep(p)
  PROVE  CoversOf(p)'
<1>1. pc \in [Proc -> Pcs] /\ cat \in [Proc -> Catalog] /\ cat[p] \in Catalog
  BY DEF IInv, TypeOK
<1>2. CASE StageCatalog(p)
  <2>1. pc[p] = "stage" /\ pc'[p] = "replace" /\ job' = job
    BY <1>1, <1>2 DEF StageCatalog, Goto
  <2>2. cat'[p].sources = cat[p].sources /\ cat'[p].run = cat[p].run
    BY <1>1, <1>2 DEF StageCatalog, Catalog
  <2> QED
    BY <2>1, <2>2 DEF CoversOf, Covers, Done
<1>3. CASE (ReplaceCatalog(p) \/ PublishFails(p)) /\ ~Exit(p)
  <2>1. pc[p] \in PublishPcs /\ pc'[p] \in {"next", "reload"} /\ job' = job /\ cat' = cat
    BY <1>1, <1>3 DEF ReplaceCatalog, PublishFails, PublishReturnsOk, PublishReturnsErr, Goto
  <2> QED
    BY <2>1 DEF CoversOf, Covers, Done
<1> QED
  BY <1>2, <1>3, ExitCovers DEF PublishStep

\* A publication covers what the catalog value that it publishes covers.
LEMMA PublicationCovers ==
  ASSUME IInv, NEW p \in Proc, NEW w, NEW c, Publish(p, w, c),
         job[p].kind = "convert" /\ c.run.failures = {} =>
           /\ job[p].seen \cup Waiting(job[p]) = Named(job[p])
           /\ Entered(job[p], c.sources, c.run, job[p].seen),
         w = "finish" => job[p].todo = <<>>
  PROVE  CoversOf(p)'
<1>1. pc'[p] = "stage" /\ cat'[p] = c
  BY DEF Publish, Goto, IInv, TypeOK
<1>2. /\ job'[p].publishing = w /\ job'[p].kind = job[p].kind /\ job'[p].opts = job[p].opts
      /\ job'[p].seen = job[p].seen /\ job'[p].todo = job[p].todo
      /\ job'[p].batch = job[p].batch
  BY DEF Publish, IInv, TypeOK, Job
<1>3. Waiting(job'[p]) = Waiting(job[p]) /\ Named(job'[p]) = Named(job[p])
  BY <1>2 DEF Waiting, Named
<1>4. Entered(job[p], c.sources, c.run, job[p].seen)
        => Entered(job'[p], c.sources, c.run, job'[p].seen)
  BY <1>2 DEF Entered
<1> QED
  BY <1>1, <1>2, <1>3, <1>4 DEF CoversOf, Covers, Done

LEMMA RecordCovers ==
  ASSUME IInv, NEW p \in Proc, CoversOf(p), RecordSource(p)
  PROVE  CoversOf(p)'
<1> DEFINE j == job[p]
<1> DEFINE s == j.input
<1> DEFINE v == [sha |-> j.gen.sha, opts |-> j.gen.opts, rows |-> j.rows,
                 hash |-> objects[j.gen][j.rows]]
<1> DEFINE c == [cat[p] EXCEPT !.sources = [@ EXCEPT ![s] = v],
                               !.run.completed = cat[p].run.completed + 1]
<1> DEFINE S == j.seen \ {s}
<1>1. /\ cat[p] \in Catalog /\ cat[p].sources \in [Source -> Entry \cup {None}]
      /\ cat[p].run.completed \in Nat
  BY CatalogParts DEF IInv, TypeOK
<1>2. Publish(p, "commit", c) /\ pc[p] = "record"
  BY DEF RecordSource
<1>3. j.kind = "convert" /\ s \in Source /\ j.gen \in Generation /\ j.rows \in Content
  BY <1>2 DEF IInv, Local, Generation
<1>4. v # None /\ v.opts = j.gen.opts
  <2>1. objects[j.gen][j.rows] \in ObjectState
    BY <1>3 DEF IInv, TypeOK
  <2>2. v \in Entry
    BY <1>3, <2>1 DEF Generation, Entry
  <2> QED
    BY <2>2, NoneAssumption
<1>5. /\ c.sources = [cat[p].sources EXCEPT ![s] = v]
      /\ c.run.completed = cat[p].run.completed + 1
      /\ c.run.failures = cat[p].run.failures
  BY <1>1 DEF Catalog, Run
<1>6. j.gen.opts = j.opts /\ s \in j.seen
  BY <1>2, <1>3 DEF CoversOf, Covers
<1> HIDE DEF v, c
<1>7. ASSUME c.run.failures = {}
      PROVE  j.seen \cup Waiting(j) = Named(j) /\ Entered(j, c.sources, c.run, j.seen)
  <2>1. /\ j.seen \cup Waiting(j) = Named(j)
        /\ Entered(j, cat[p].sources, cat[p].run, S)
    BY <1>2, <1>3, <1>5, <1>7 DEF CoversOf, Covers, Done
  <2>2. IsFiniteSet(j.seen) /\ Cardinality(j.seen) = Cardinality(S) + 1
    <3>1. j.seen = S \cup {s} /\ s \notin S
      BY <1>6
    <3>2. IsFiniteSet(S)
      BY <2>1 DEF Entered
    <3> HIDE DEF S
    <3>3. IsFiniteSet(S \cup {s}) /\ Cardinality(S \cup {s}) = Cardinality(S) + 1
      BY <3>1, <3>2, FS_AddElement
    <3> QED
      BY <3>1, <3>3
  <2>3. c.run.completed = Cardinality(j.seen)
    BY <1>5, <2>1, <2>2 DEF Entered
  <2>4. ASSUME NEW t \in j.seen PROVE c.sources[t] # None /\ c.sources[t].opts = j.opts
    <3>1. t \in Source
      BY JobParts DEF IInv, TypeOK
    <3>2. CASE t = s
      BY <1>1, <1>3, <1>4, <1>5, <1>6, <3>2
    <3>3. CASE t # s
      <4>1. c.sources[t] = cat[p].sources[t] /\ t \in S
        BY <1>1, <1>5, <3>1, <3>3
      <4> QED
        BY <2>1, <4>1 DEF Entered
    <3> QED
      BY <3>2, <3>3
  <2> QED
    BY <2>1, <2>2, <2>3, <2>4 DEF Entered
<1> QED
  BY <1>2, <1>7, PublicationCovers

LEMMA LookCovers ==
  ASSUME IInv, NEW p \in Proc, CoversOf(p),
         SkipDuplicate(p) \/ MissingInput(p) \/ HashSource(p)
  PROVE  CoversOf(p)'
<1> DEFINE j == job[p]
<1> DEFINE k == job'[p]
<1> DEFINE s == Head(j.todo)
<1>1. /\ pc \in [Proc -> Pcs] /\ job \in [Proc -> Job] /\ j \in Job /\ Local(p)
      /\ j.todo \in Seq(Source)
  BY JobParts DEF IInv, TypeOK
<1>2. pc[p] = "next" /\ cat' = cat /\ j.todo # <<>>
  BY DEF SkipDuplicate, MissingInput, HashSource, HasInput
<1>3. s \in Source /\ Waiting(j) = {s} \cup {Tail(j.todo)[i] : i \in DOMAIN Tail(j.todo)}
  BY <1>1, <1>2, FirstAndRest DEF Waiting
<1>4. j.kind = "convert" /\ Covers("next", j, cat[p].sources, cat[p].run)
  BY <1>1, <1>2 DEF CoversOf, Local
<1>5. cat[p].run.failures = {} =>
        j.seen \cup Waiting(j) = Named(j) /\ Entered(j, cat[p].sources, cat[p].run, j.seen)
  BY <1>4 DEF Covers, Done
<1>6. CASE MissingInput(p)
  <2>1. pc'[p] = "reload"
    BY <1>1, <1>6 DEF MissingInput, Goto
  <2> QED
    BY <2>1 DEF CoversOf, Covers
<1>7. CASE SkipDuplicate(p)
  <2>1. pc'[p] = "next" /\ s \in j.seen
    BY <1>1, <1>7 DEF SkipDuplicate, Goto
  <2>2. /\ k.todo = Tail(j.todo) /\ k.seen = j.seen /\ k.batch = j.batch
        /\ k.opts = j.opts /\ k.kind = j.kind
    BY <1>1, <1>7 DEF SkipDuplicate, Job
  <2>3. j.seen \cup Waiting(k) = j.seen \cup Waiting(j) /\ Named(k) = Named(j)
    BY <1>3, <2>1, <2>2 DEF Waiting, Named
  <2>4. ASSUME Entered(j, cat[p].sources, cat[p].run, j.seen)
        PROVE  Entered(k, cat[p].sources, cat[p].run, k.seen)
    BY <2>2, <2>4 DEF Entered
  <2> HIDE DEF j, k
  <2> QED
    BY <1>2, <1>5, <2>1, <2>2, <2>3, <2>4 DEF CoversOf, Covers, Done, k
<1>8. CASE HashSource(p)
  <2>1. pc'[p] \in {"reload", "plan"} /\ s \notin j.seen
    BY <1>1, <1>8 DEF HashSource, Goto
  <2>2. /\ k.todo = Tail(j.todo) /\ k.seen = j.seen \cup {s} /\ k.batch = j.batch
        /\ k.opts = j.opts /\ k.kind = j.kind /\ k.input = s /\ k.gen.opts = j.opts
    BY <1>1, <1>8 DEF HashSource, Job
  <2>3. k.seen \cup Waiting(k) = j.seen \cup Waiting(j) /\ Named(k) = Named(j)
    BY <1>3, <2>2 DEF Waiting, Named
  <2>4. k.seen \ {k.input} = j.seen
    BY <2>1, <2>2
  <2>5. ASSUME Entered(j, cat[p].sources, cat[p].run, j.seen)
        PROVE  Entered(k, cat[p].sources, cat[p].run, k.seen \ {k.input})
    BY <2>2, <2>4, <2>5 DEF Entered
  <2> HIDE DEF j, k
  <2>6. s \in k.seen
    BY <2>2
  <2> QED
    BY <1>2, <1>5, <2>1, <2>2, <2>3, <2>5, <2>6 DEF CoversOf, Covers, Done, k
<1> QED
  BY <1>6, <1>7, <1>8

LEMMA ConvertCovers ==
  ASSUME IInv, NEW p \in Proc, CoversOf(p), ConvertStep(p)
  PROVE  CoversOf(p)'
<1>1. /\ cat[p] \in Catalog /\ Local(p) /\ LastCatalog \in Catalog
  BY LastCatalogType DEF IInv, TypeOK
<1>2. CASE BeginRun(p)
  <2> DEFINE r == [id |-> job[p].id, status |-> "running", completed |-> 0, failures |-> {}]
  <2> DEFINE c == [LastCatalog EXCEPT !.run = r]
  <2>1. Publish(p, "begin", c) /\ pc[p] = "load"
    BY <1>2 DEF BeginRun, LastCatalog
  <2>2. c.run.completed = 0
    BY <1>1 DEF Catalog
  <2>3. job[p].kind = "convert" => job[p].seen = {} /\ job[p].todo = job[p].batch
    BY <2>1 DEF CoversOf, Covers
  <2> HIDE DEF c
  <2>4. Entered(job[p], c.sources, c.run, {})
    BY <2>2, FS_EmptySet DEF Entered
  <2>5. job[p].kind = "convert" => {} \cup Waiting(job[p]) = Named(job[p])
    BY <2>3 DEF Waiting, Named
  <2> QED
    BY <2>1, <2>3, <2>4, <2>5, PublicationCovers
<1>3. CASE FinishRun(p)
  <2>1. PICK t : Publish(p, "finish", [cat[p] EXCEPT !.run.status = t])
    BY <1>3 DEF FinishRun
  <2> DEFINE c == [cat[p] EXCEPT !.run.status = t]
  <2>2. /\ c.sources = cat[p].sources /\ c.run.failures = cat[p].run.failures
        /\ c.run.completed = cat[p].run.completed
    BY <1>1 DEF Catalog, Run
  <2>3. pc[p] = "next" /\ job[p].todo = <<>>
    BY <1>3 DEF FinishRun
  <2>4. Publish(p, "finish", c)
    BY <2>1
  <2> HIDE DEF c
  <2>5. job[p].kind = "convert" /\ c.run.failures = {} =>
          /\ job[p].seen \cup Waiting(job[p]) = Named(job[p])
          /\ Entered(job[p], c.sources, c.run, job[p].seen)
    BY <2>2, <2>3 DEF CoversOf, Covers, Done, Entered
  <2> QED
    BY <2>3, <2>4, <2>5, PublicationCovers
<1>4. CASE ReloadCatalog(p)
  <2> DEFINE f == file.run.failures \cup {job[p].input}
  <2>1. PICK t : Publish(p, "failure", [file EXCEPT !.run.failures = f, !.run.status = t])
    BY <1>1, <1>4 DEF ReloadCatalog, IInv, TypeOK, Catalog, Run
  <2> DEFINE c == [file EXCEPT !.run.failures = f, !.run.status = t]
  <2>2. c.run.failures # {}
    BY <1>4 DEF ReloadCatalog, IInv, TypeOK, Catalog, Run
  <2>3. Publish(p, "failure", c)
    BY <2>1
  <2> HIDE DEF c
  <2> QED
    BY <2>2, <2>3, PublicationCovers
<1> QED
  BY <1>2, <1>3, <1>4, RecordCovers, LookCovers DEF ConvertStep

LEMMA FragmentCovers ==
  ASSUME IInv, NEW p \in Proc, CoversOf(p), FragmentStep(p)
  PROVE  CoversOf(p)'
<1>1. pc \in [Proc -> Pcs] /\ job \in [Proc -> Job] /\ job[p] \in Job /\ Local(p)
  BY DEF IInv, TypeOK
<1>2. CASE Exit(p)
  BY <1>2, ExitCovers
<1>3. CASE WriteMarker(p) /\ pc[p] = "remark"
  <2>1. job[p].kind = "recover" /\ job' = job
    BY <1>1, <1>3 DEF WriteMarker, Local
  <2> QED
    BY <2>1 DEF CoversOf
<1>4. CASE ~Exit(p) /\ ~(WriteMarker(p) /\ pc[p] = "remark")
  <2>1. pc[p] \in AttemptPcs /\ cat' = cat
    BY <1>4 DEF FragmentStep, PlanFragments, LockObject, WriteMarker, ReuseObject,
       OpenStage, WriteFragments, RenameStage, DropLock, AttemptFails
  <2>2. job' = job \/ \E r : job' = [job EXCEPT ![p] = [@ EXCEPT !.rows = r]]
    BY <1>4 DEF FragmentStep, PlanFragments, LockObject, WriteMarker, ReuseObject,
       OpenStage, WriteFragments, RenameStage, DropLock, AttemptFails
  <2>3. /\ job'[p].kind = job[p].kind /\ job'[p].seen = job[p].seen
        /\ job'[p].todo = job[p].todo /\ job'[p].batch = job[p].batch
        /\ job'[p].opts = job[p].opts /\ job'[p].input = job[p].input
        /\ job'[p].gen = job[p].gen
    BY <1>1, <2>2 DEF Job
  <2>4. \E to \in {"reload"} \cup AttemptPcs : pc' = [pc EXCEPT ![p] = to]
    BY <1>4 DEF FragmentStep, PlanFragments, LockObject, WriteMarker, ReuseObject,
       OpenStage, WriteFragments, RenameStage, DropLock, AttemptFails, Goto
  <2>5. pc'[p] \in {"reload"} \cup AttemptPcs
    BY <1>1, <2>4
  <2>6. Waiting(job'[p]) = Waiting(job[p]) /\ Named(job'[p]) = Named(job[p])
    BY <2>3 DEF Waiting, Named
  <2>7. \A sources, run, S : Entered(job[p], sources, run, S) => Entered(job'[p], sources, run, S)
    BY <2>3 DEF Entered
  <2> QED
    BY <2>1, <2>3, <2>5, <2>6, <2>7 DEF CoversOf, Covers, Done
<1> QED
  BY <1>2, <1>3, <1>4

\* Recovery never becomes a converter.
LEMMA RecoverCovers ==
  ASSUME IInv, NEW p \in Proc, RecoverStep(p)
  PROVE  CoversOf(p)'
<1>1. pc[p] \in RecoverPcs
  BY DEF RecoverStep, ScanObjects, InspectMarker, OwnerUnverifiable, OwnerDead,
     OwnerActive, ClearMarker, RelockObject, SweepStaging, SweepFails, InterruptRun
<1>2. job[p].kind = "recover"
  BY <1>1 DEF IInv, Local
<1> QED
  BY <1>2, CommandKept DEF CoversOf, Step

LEMMA OwnStepCovers ==
  ASSUME IInv, NEW p \in Proc, CoversOf(p), StepOf(p)
  PROVE  CoversOf(p)'
<1>1. CASE AcquireGuard(p)
  <2>1. pc[p] = "guard" /\ pc'[p] \in {"load", "scan"} /\ job' = job
    BY <1>1 DEF AcquireGuard, IInv, TypeOK
  <2> QED
    BY <2>1 DEF CoversOf, Covers
<1>2. CASE GuardRefused(p) \/ CommandFails(p) \/ Crash(p)
  BY <1>2, ExitCovers DEF GuardRefused, CommandFails, Crash
<1> QED
  BY <1>1, <1>2, StartCovers, PublishCovers, ConvertCovers, FragmentCovers, RecoverCovers
  DEF StepOf, Step

LEMMA CInvStep == IInv /\ PInv /\ CInv /\ [Next]_vars => CInv'
<1> SUFFICES ASSUME IInv, PInv, CInv, [Next]_vars PROVE CInv'
  OBVIOUS
<1>1. ASSUME NEW p \in Proc, StepOf(p), NEW q \in Proc PROVE CoversOf(q)'
  <2>1. CASE q = p
    BY <1>1, <2>1, OwnStepCovers DEF CInv
  <2>2. CASE q # p
    <3>1. pc'[q] = pc[q] /\ job'[q] = job[q] /\ cat'[q] = cat[q]
      BY <1>1, <2>2, StepIsLocal, StepKeepsCatalogs
    <3> QED
      BY <3>1 DEF CInv, CoversOf
  <2> QED
    BY <2>1, <2>2
<1>2. CASE UNCHANGED <<pc, job, cat>>
  BY <1>2 DEF CInv, CoversOf
<1>3. UNCHANGED vars => UNCHANGED <<pc, job, cat>>
  OBVIOUS
<1>4. \A s \in Source : EditSource(s) => UNCHANGED <<pc, job, cat>>
  BY DEF EditSource
<1>5. \A g \in Generation, c \in Content : DamageObject(g, c) => UNCHANGED <<pc, job, cat>>
  BY DEF DamageObject
<1> HIDE DEF vars
<1> QED
  BY <1>1, <1>2, <1>3, <1>4, <1>5 DEF Next, StepOf, CInv

\* The version that says "complete" is the one that finishes a run without failures.
LEMMA CompleteIsFinish ==
  ASSUME IInv, RInv, NEW p \in Proc, ReplaceCatalog(p), cat[p].run.status = "complete"
  PROVE  job[p].publishing = "finish" /\ cat[p].run.failures = {}
<1>1. Ahead(p) /\ LastCatalog.run \in Run /\ job[p].publishing \in Publishing \ {"none"}
  BY LastCatalogType, CatalogParts, JobParts DEF ReplaceCatalog, RInv, Leads, IInv, TypeOK, Local
<1>2. job[p].publishing # "begin"
  <2>1. job[p].publishing = "begin" => cat[p].run.status = "running"
    BY <1>1 DEF Ahead, Change
  <2> QED
    BY <2>1
<1>3. ASSUME job[p].publishing \in {"commit", "failure", "interrupt"} PROVE FALSE
  BY <1>1, <1>3 DEF Ahead, Change, Run
<1>4. job[p].publishing = "finish"
  BY <1>1, <1>2, <1>3 DEF Publishing
<1>5. cat[p].run = [LastCatalog.run EXCEPT !.status =
                      IF LastCatalog.run.failures = {} THEN "complete" ELSE "partial"]
  BY <1>1, <1>4 DEF Ahead, Change
<1> QED
  BY <1>1, <1>4, <1>5 DEF Run

\* A run that convert_dataset reports as complete has an entry with its options for
\* each input it was given, counted once however often it was named, although entries
\* and counts pass through many versions and every error starts again from the file.
THEOREM CompleteRunsCover == Spec => CompleteRunCoversInputs
<1>1. ASSUME IInv, RInv, CInv, [Next]_vars, file' # file, file'.run.status = "complete",
             NEW p \in Proc, pc[p] = "replace", pc'[p] # "replace"
      PROVE  /\ file'.run.completed = Cardinality(Named(job[p]))
             /\ \A s \in Named(job[p]) : /\ file'.sources[s] # None
                                          /\ file'.sources[s].opts = job[p].opts
  <2>1. PICK q \in Proc : StepOf(q)
    BY <1>1 DEF Next, StepOf, EditSource, DamageObject
  <2>2. q = p
    BY <1>1, <2>1, StepIsLocal
  <2>3. ReplaceCatalog(p) /\ file' = cat[p]
    BY <1>1, <2>1, <2>2, OnlyReplaceWrites DEF ReplaceCatalog
  <2>4. job[p].publishing = "finish" /\ cat[p].run.failures = {}
    BY <1>1, <2>3, CompleteIsFinish
  <2>5. job[p].kind = "convert"
    BY <1>1, <2>4 DEF IInv, Local
  <2>6. job[p].todo = <<>> /\ job[p].seen \cup Waiting(job[p]) = Named(job[p])
        /\ Entered(job[p], cat[p].sources, cat[p].run, job[p].seen)
    BY <1>1, <2>4, <2>5 DEF CInv, CoversOf, Covers, Done
  <2>7. Named(job[p]) = job[p].seen
    <3>1. ASSUME NEW j, j.todo = <<>> PROVE Waiting(j) = {}
      BY <3>1 DEF Waiting
    <3> QED
      BY <2>6, <3>1
  <2> QED
    BY <2>3, <2>6, <2>7 DEF Entered
<1>2. IInv /\ RInv /\ CInv /\ [Next]_vars
        => [\A p \in Proc :
              /\ file' # file /\ file' # None /\ file'.run.status = "complete"
              /\ pc[p] = "replace" /\ pc'[p] # "replace"
              => LET named == {job[p].batch[i] : i \in DOMAIN job[p].batch} IN
                 /\ file'.run.completed = Cardinality(named)
                 /\ \A s \in named : /\ file'.sources[s] # None
                                     /\ file'.sources[s].opts = job[p].opts]_vars
  BY <1>1 DEF Named
<1> HIDE DEF vars
<1>3. Init => CInv
  BY DEF Init, CInv, CoversOf, IdleJob
<1>4. Init /\ [][Next]_vars /\ []IInv /\ []PInv => []CInv
  BY <1>3, CInvStep, PTL
<1> QED
  BY <1>2, <1>4, ReachableLeads, PTL DEF Spec, CompleteRunCoversInputs

-----------------------------------------------------------------------------
(***************************************************************************)
(* OneObjectWriter and RecoverySparesLiveStages, with at most one guardless *)
(* writer.  A marker names who works behind it (OwnsMarker).  Recovery      *)
(* removes one after it found its owner dead: then nobody works behind it,  *)
(* or its owner was the guardless writer, which has removed it meanwhile,   *)
(* and no writer without the guard is left (Clears).                        *)
(***************************************************************************)
Guardless(p) == pc[p] # "idle" /\ job[p].kind = "legacy"
NoGuardless == budget["legacy"] = 0 /\ \A p \in Proc : ~Guardless(p)
LockedAt(p, g) == pc[p] \in LockedPcs /\ job[p].gen = g

OwnsMarker(p) ==
  pc[p] \in LockedPcs =>
    marker[job[p].gen] = IF pc[p] \in {"mark", "remark"} THEN p ELSE pid[p]

Clears(q) ==
  pc[q] \in {"owner", "clear"} =>
    \/ NoGuardless
    \/ /\ marker[job[q].gen] = job[q].owner /\ job[q].owner \in Pid
       /\ pc[q] = "clear" => \A p \in Proc : ~LockedAt(p, job[q].gen)

OwnStage(p) ==
  \A g \in Generation : p \in staging[g] => pc[p] \in {"write", "rename"} /\ job[p].gen = g

FewGuardless ==
  /\ \A p, q \in Proc : Guardless(p) /\ Guardless(q) => p = q
  /\ \A p \in Proc : Guardless(p) => budget["legacy"] = 0
  /\ budget["legacy"] <= 1

PidsDiffer == \A p, q \in Proc : p # q /\ pc[p] # "idle" => pid[p] # pid[q]

MarkerInv ==
  /\ FewGuardless /\ PidsDiffer
  /\ \A p \in Proc : OwnsMarker(p) /\ Clears(p) /\ OwnStage(p)

Locks(p) == LockObject(p) \/ RelockObject(p)
Releases(p) ==
  /\ pc[p] \in LockedPcs \cup {"clear"} /\ pc'[p] \notin LockedPcs
  /\ marker' = [marker EXCEPT ![job[p].gen] = Unlocked]
  /\ job[p].kind = "legacy" => Exit(p)

-----------------------------------------------------------------------------
(* What a step does to markers, process ids and guardless writers *)

\* A process that exits is idle, one that goes somewhere is there.
LEMMA StepGoes ==
  ASSUME IInv, NEW p \in Proc
  PROVE  /\ Exit(p) => pc'[p] = "idle" /\ pid'[p] = None /\ job'[p] = IdleJob
         /\ \A to : Goto(p, to) => pc'[p] = to /\ pid' = pid
         /\ \A w, c : Publish(p, w, c) => pc'[p] = "stage" /\ pid' = pid
BY DEF Exit, Goto, Publish, IInv, TypeOK

LEMMA StepMovesMarker ==
  ASSUME IInv, NEW p \in Proc, StepOf(p)
  PROVE  marker' = marker \/ Locks(p) \/ WriteMarker(p) \/ Releases(p)
<1>1. StartCommand(p) \/ Crash(p) => marker' = marker
  BY DEF StartCommand, StartConvert, StartRecover, StartLegacy, Start, Crash
<1>2. PublishStep(p) => marker' = marker
  BY DEF PublishStep, StageCatalog, ReplaceCatalog, PublishFails
<1>3. ConvertStep(p) => marker' = marker
  BY DEF ConvertStep, BeginRun, SkipDuplicate, MissingInput, HashSource,
         FinishRun, RecordSource, ReloadCatalog
<1>4. AcquireGuard(p) \/ GuardRefused(p) \/ CommandFails(p) => marker' = marker
  BY DEF AcquireGuard, GuardRefused, CommandFails
<1>5. DropLock(p) => Releases(p)
  BY StepGoes DEF DropLock, Releases, LockedPcs
<1>6. AttemptFails(p) => marker' = marker \/ Releases(p)
  BY StepGoes DEF AttemptFails, Releases, LockedPcs
<1>7. FragmentStep(p) => marker' = marker \/ Locks(p) \/ WriteMarker(p) \/ Releases(p)
  BY <1>5, <1>6 DEF FragmentStep, PlanFragments, ReuseObject, OpenStage,
     WriteFragments, RenameStage, Locks
<1>8. SweepStaging(p) \/ SweepFails(p) \/ ClearMarker(p) => Releases(p)
  BY StepGoes DEF SweepStaging, SweepFails, ClearMarker, Releases, LockedPcs, IInv, Local
<1>9. RecoverStep(p) => marker' = marker \/ Locks(p) \/ Releases(p)
  BY <1>8 DEF RecoverStep, ScanObjects, InspectMarker, OwnerUnverifiable, OwnerDead,
         OwnerActive, InterruptRun, Locks
<1> QED
  BY <1>1, <1>2, <1>3, <1>4, <1>7, <1>9 DEF StepOf, Step

\* A process gets behind a marker by creating it.
LEMMA StepReachesLocked ==
  ASSUME IInv, NEW p \in Proc, StepOf(p), pc'[p] \in LockedPcs, ~Locks(p), ~WriteMarker(p)
  PROVE  /\ pc[p] \in LockedPcs \ {"mark", "remark"} /\ pc'[p] \notin {"mark", "remark"}
         /\ marker' = marker /\ pid' = pid /\ job' = job
<1>0. pc \in [Proc -> Pcs]
  BY DEF IInv, TypeOK
<1>1. ASSUME NEW to, pc' = [pc EXCEPT ![p] = to], to \notin LockedPcs
      PROVE  FALSE
  BY <1>0, <1>1
<1>2. ~Exit(p)
  BY <1>1 DEF Exit, LockedPcs
<1>3. ASSUME NEW to, Goto(p, to), to \notin LockedPcs
      PROVE  FALSE
  BY <1>1, <1>3 DEF Goto
<1>4. \A w, c : ~Publish(p, w, c)
  BY <1>3 DEF Publish, LockedPcs
<1>5. ~StartCommand(p)
  BY <1>1 DEF StartCommand, StartConvert, StartRecover, StartLegacy, Start, LockedPcs
<1>6. ~(AcquireGuard(p) \/ GuardRefused(p) \/ CommandFails(p) \/ Crash(p))
  BY <1>1, <1>2 DEF AcquireGuard, GuardRefused, CommandFails, Crash, LockedPcs
<1>7. ~PublishStep(p)
  BY <1>2, <1>3 DEF PublishStep, StageCatalog, ReplaceCatalog, PublishFails,
     PublishReturnsOk, PublishReturnsErr, LockedPcs
<1>8. ~ConvertStep(p)
  BY <1>3, <1>4 DEF ConvertStep, BeginRun, SkipDuplicate, MissingInput, HashSource,
     FinishRun, RecordSource, ReloadCatalog, LockedPcs
<1>9. ~(Goto(p, "dirs") \/ Goto(p, "owner") \/ Goto(p, "clear") \/ Goto(p, "relock"))
  BY <1>3 DEF LockedPcs
<1>10. ~RecoverStep(p)
  BY <1>2, <1>4, <1>9 DEF RecoverStep, ScanObjects, InspectMarker, OwnerUnverifiable,
     OwnerDead, OwnerActive, ClearMarker, RelockObject, SweepStaging, SweepFails,
     InterruptRun, Locks, WriteMarker
<1>11. ReuseObject(p) \/ OpenStage(p) \/ WriteFragments(p) \/ RenameStage(p)
  BY <1>2, <1>3, <1>5, <1>6, <1>7, <1>8, <1>10 DEF StepOf, Step, FragmentStep,
     PlanFragments, DropLock, AttemptFails, Locks, LockedPcs
<1> QED
  BY <1>11, StepGoes DEF ReuseObject, OpenStage, WriteFragments, RenameStage, LockedPcs

\* Between its start and its end a process is at some step, with the id it has.
LEMMA WorkKeepsPid ==
  ASSUME IInv, NEW p \in Proc, StepOf(p), ~StartCommand(p), ~Exit(p)
  PROVE  pc[p] # "idle" /\ pid' = pid
<1>1. AcquireGuard(p) \/ GuardRefused(p) \/ CommandFails(p) \/ Crash(p)
        => pc[p] # "idle" /\ pid' = pid
  BY DEF AcquireGuard, GuardRefused, CommandFails, Crash
<1>2. PublishStep(p) => pc[p] # "idle" /\ pid' = pid
  BY StepGoes DEF PublishStep, StageCatalog, ReplaceCatalog, PublishFails,
     PublishReturnsOk, PublishReturnsErr
<1>3. ConvertStep(p) => pc[p] # "idle" /\ pid' = pid
  BY StepGoes DEF ConvertStep, BeginRun, SkipDuplicate, MissingInput, HashSource,
     FinishRun, RecordSource, ReloadCatalog, HasInput
<1>4. FragmentStep(p) => pc[p] # "idle" /\ pid' = pid
  BY StepGoes DEF FragmentStep, PlanFragments, LockObject, WriteMarker, ReuseObject,
     OpenStage, WriteFragments, RenameStage, DropLock, AttemptFails
<1>5. RecoverStep(p) => pc[p] # "idle" /\ pid' = pid
  BY StepGoes DEF RecoverStep, ScanObjects, InspectMarker, OwnerUnverifiable,
     OwnerDead, OwnerActive, ClearMarker, RelockObject, SweepStaging, SweepFails,
     InterruptRun
<1> QED
  BY <1>1, <1>2, <1>3, <1>4, <1>5 DEF StepOf, Step

\* A process takes an id nobody has, or keeps the one it has, or drops it.
LEMMA StepKeepsPids ==
  ASSUME IInv, PidsDiffer, NEW p \in Proc, StepOf(p)
  PROVE  PidsDiffer' /\ (\A q \in Proc \ {p} : pid'[q] = pid[q])
<1>0. pc \in [Proc -> Pcs] /\ pid \in [Proc -> Pid \cup {None}] /\ None \notin Pid
      /\ \A q \in Proc : pc[q] # "idle" => pid[q] \in Pid
  BY ConstantsAssumption DEF IInv, TypeOK, Local
<1> DEFINE Goal == PidsDiffer' /\ (\A q \in Proc \ {p} : pid'[q] = pid[q])
<1>a. \A q \in Proc \ {p} : pc'[q] = pc[q]
  BY StepIsLocal
<1>1. CASE Exit(p)
  <2>1. pid'[p] = None /\ pc'[p] = "idle" /\ \A q \in Proc \ {p} : pid'[q] = pid[q]
    BY <1>0, <1>1 DEF Exit
  <2> QED
    BY <1>0, <1>a, <2>1 DEF PidsDiffer
<1>2. CASE StartCommand(p)
  <2>1. \E k, at, r : Start(p, k, at, r)
    BY <1>2 DEF StartCommand, StartConvert, StartRecover, StartLegacy
  <2>2. PICK i \in Pid : ~Alive(i) /\ pid' = [pid EXCEPT ![p] = i]
    BY <2>1 DEF Start
  <2>3. pid'[p] = i /\ \A q \in Proc \ {p} : pid'[q] = pid[q] /\ pid[q] # i
    BY <1>0, <2>2 DEF Alive
  <2> QED
    BY <1>0, <1>a, <2>3 DEF PidsDiffer
<1>3. ASSUME pid' = pid, pc[p] # "idle" PROVE Goal
  BY <1>0, <1>a, <1>3 DEF PidsDiffer
<1> QED
  BY <1>1, <1>2, <1>3, WorkKeepsPid

-----------------------------------------------------------------------------
(* At most one guardless writer *)

LEMMA LegacyBudget ==
  ASSUME IInv, NEW p \in Proc, StepOf(p), ~StartLegacy(p)
  PROVE  budget'["legacy"] = budget["legacy"]
<1>0. budget \in [BudgetKeys -> Nat] /\ "legacy" \in BudgetKeys
  BY DEF IInv, TypeOK, BudgetKeys
<1>1. StartConvert(p) \/ StartRecover(p) \/ Crash(p) => budget'["legacy"] = budget["legacy"]
  BY <1>0 DEF StartConvert, StartRecover, Start, Crash, Spend
<1>2. PublishStep(p) => budget' = budget
  BY DEF PublishStep, StageCatalog, ReplaceCatalog, PublishFails
<1>3. ConvertStep(p) => budget' = budget
  BY DEF ConvertStep, BeginRun, SkipDuplicate, MissingInput, HashSource,
         FinishRun, RecordSource, ReloadCatalog
<1>4. FragmentStep(p) => budget' = budget
  BY DEF FragmentStep, PlanFragments, LockObject, WriteMarker, ReuseObject,
         OpenStage, WriteFragments, RenameStage, DropLock, AttemptFails
<1>5. RecoverStep(p) => budget' = budget
  BY DEF RecoverStep, ScanObjects, InspectMarker, OwnerUnverifiable, OwnerDead,
         OwnerActive, ClearMarker, RelockObject, SweepStaging, SweepFails,
         InterruptRun
<1>6. AcquireGuard(p) \/ GuardRefused(p) \/ CommandFails(p) => budget' = budget
  BY DEF AcquireGuard, GuardRefused, CommandFails
<1> QED
  BY <1>1, <1>2, <1>3, <1>4, <1>5, <1>6 DEF StepOf, Step, StartCommand

LEMMA StepKeepsFew ==
  ASSUME IInv, FewGuardless, NEW p \in Proc, StepOf(p)
  PROVE  FewGuardless' /\ (NoGuardless => NoGuardless')
<1>0. budget["legacy"] \in Nat
  BY DEF IInv, TypeOK, BudgetKeys
<1>a. \A q \in Proc \ {p} : Guardless(q)' <=> Guardless(q)
  BY StepIsLocal DEF Guardless
<1>1. CASE StartLegacy(p)
  <2>1. budget["legacy"] = 1 /\ budget'["legacy"] = 0
    BY <1>1 DEF StartLegacy, Start, Spend, FewGuardless, IInv, TypeOK, BudgetKeys
  <2>2. ~NoGuardless /\ \A q \in Proc : ~Guardless(q)
    BY <2>1 DEF FewGuardless, NoGuardless
  <2> QED
    BY <1>a, <2>1, <2>2 DEF FewGuardless
<1>2. CASE ~StartLegacy(p)
  <2>1. budget'["legacy"] = budget["legacy"]
    BY <1>2, LegacyBudget
  <2>2. StartConvert(p) \/ StartRecover(p) => job'[p].kind # "legacy"
    <3>1. \A k, at, r : Start(p, k, at, r) => job'[p] = r
      BY DEF Start, IInv, TypeOK
    <3> DEFINE conversion(b, o, ff) ==
                 [IdleJob EXCEPT !.kind = "convert", !.batch = b, !.todo = b, !.opts = o,
                  !.id = Budget["convert"] - budget["convert"] + 1, !.failFast = ff]
    <3>2. \A b, o, ff : conversion(b, o, ff).kind = "convert"
      BY DEF IdleJob
    <3>3. [IdleJob EXCEPT !.kind = "recover"].kind = "recover"
      BY DEF IdleJob
    <3>4. ASSUME StartConvert(p) PROVE job'[p].kind = "convert"
      <4>1. PICK b, o, ff : Start(p, "convert", "guard", conversion(b, o, ff))
        BY <3>4 DEF StartConvert
      <4> HIDE DEF conversion
      <4> QED
        BY <3>1, <3>2, <4>1
    <3> QED
      BY <3>1, <3>3, <3>4 DEF StartRecover
  <2>3. ASSUME Guardless(p)' PROVE Guardless(p)
    <3>1. ~StartCommand(p)
      BY <1>2, <2>2, <2>3 DEF StartCommand, Guardless
    <3>2. ~Exit(p)
      BY <2>3, StepGoes DEF Guardless
    <3>3. pc[p] # "idle"
      BY <3>1, <3>2, WorkKeepsPid
    <3>4. job[p].kind = "legacy"
      BY <2>3, <3>1, CommandKept DEF Guardless, StepOf
    <3> QED
      BY <3>3, <3>4 DEF Guardless
  <2>4. \A q \in Proc : Guardless(q)' => Guardless(q)
    BY <1>a, <2>3
  <2> QED
    BY <2>1, <2>4 DEF FewGuardless, NoGuardless
<1> QED
  BY <1>1, <1>2

-----------------------------------------------------------------------------
(* Who works behind a marker *)

\* Where a process is behind a marker, and where it holds the guard.
LEMMA Places ==
  ASSUME IInv, NEW p \in Proc
  PROVE  /\ pc[p] \in LockedPcs \cup {"owner", "clear"}
              => /\ job[p].gen \in Generation /\ pid[p] \in Pid
                 /\ job[p].kind # "legacy" => guard = p
         /\ pc[p] \in {"owner", "clear"} => job[p].kind = "recover" /\ guard = p
BY DEF IInv, Local, HoldsGuard, LockedPcs, GuardedPcs

LEMMA MarkersDiffer ==
  ASSUME IInv, MarkerInv
  PROVE  OneObjectWriter
<1> SUFFICES ASSUME NEW p \in Proc, NEW q \in Proc, p # q,
                    pc[p] \in LockedPcs, pc[q] \in LockedPcs, job[p].gen = job[q].gen
             PROVE  FALSE
  BY DEF OneObjectWriter
<1>1. pid[p] \in Pid /\ pid[q] \in Pid /\ pid[p] # pid[q]
  BY Places DEF MarkerInv, PidsDiffer, LockedPcs
<1>2. marker[job[p].gen] \in {p, pid[p]} /\ marker[job[p].gen] \in {q, pid[q]}
  BY DEF MarkerInv, OwnsMarker
<1> QED
  BY <1>1, <1>2, ConstantsAssumption

LEMMA StepKeepsOwned ==
  ASSUME IInv, MarkerInv, NEW p \in Proc, StepOf(p), NEW q \in Proc, pc'[q] \in LockedPcs
  PROVE  OwnsMarker(q)'
<1>0. marker \in [Generation -> {NoDir, Unlocked} \cup Proc \cup Pid]
  BY DEF IInv, TypeOK
<1>1. CASE q = p /\ Locks(p)
  <2>1. /\ pc[p] \in {"lock", "relock"} /\ marker' = [marker EXCEPT ![job[p].gen] = p]
        /\ job' = job /\ pc'[p] \in {"mark", "remark"}
    BY <1>1, StepGoes DEF Locks, LockObject, RelockObject
  <2>2. job[p].gen \in Generation
    BY <2>1 DEF IInv, Local
  <2> QED
    BY <1>0, <1>1, <2>1, <2>2 DEF OwnsMarker
<1>2. CASE q = p /\ WriteMarker(p)
  <2>1. /\ pc[p] \in {"mark", "remark"} /\ job' = job /\ pid' = pid
        /\ marker' = [marker EXCEPT ![job[p].gen] = IF @ = p THEN pid[p] ELSE @]
        /\ pc'[p] \notin {"mark", "remark"}
    BY <1>2, StepGoes DEF WriteMarker
  <2>2. job[p].gen \in Generation /\ marker[job[p].gen] = p
    BY <2>1, Places DEF MarkerInv, OwnsMarker, LockedPcs
  <2> QED
    BY <1>0, <1>2, <2>1, <2>2 DEF OwnsMarker
<1>3. CASE q = p /\ ~Locks(p) /\ ~WriteMarker(p)
  BY <1>3, StepReachesLocked DEF MarkerInv, OwnsMarker
<1>4. CASE q # p
  <2>1. pc'[q] = pc[q] /\ job'[q] = job[q] /\ pid'[q] = pid[q]
    BY <1>4, StepIsLocal, StepKeepsPids DEF MarkerInv
  <2> DEFINE g == job[q].gen
  <2>2. g \in Generation /\ marker[g] \in {q, pid[q]} /\ pid[q] \in Pid
    BY <2>1, Places DEF MarkerInv, OwnsMarker
  <2>3. marker'[g] = marker[g]
    <3>1. CASE Locks(p)
      <4>1. /\ marker[job[p].gen] \in {NoDir, Unlocked}
            /\ marker' = [marker EXCEPT ![job[p].gen] = p]
        BY <3>1 DEF Locks, LockObject, RelockObject
      <4>2. job[p].gen # g
        BY <2>2, <4>1, ConstantsAssumption
      <4> QED
        BY <1>0, <2>2, <4>1, <4>2
    <3>2. CASE WriteMarker(p)
      <4>1. marker[g] # p
        BY <1>4, <2>2, ConstantsAssumption
      <4> QED
        BY <1>0, <2>2, <3>2, <4>1 DEF WriteMarker
    <3>3. CASE Releases(p)
      <4>1. job[p].gen # g
        <5>1. CASE pc[p] \in LockedPcs
          BY <1>4, <2>1, <5>1, MarkersDiffer DEF OneObjectWriter
        <5>2. CASE pc[p] = "clear"
          <6>1. guard = p /\ ~(job[q].kind # "legacy")
            BY <1>4, <2>1, <5>2, Places
          <6>2. Guardless(q)
            BY <2>1, <6>1 DEF Guardless, LockedPcs
          <6>3. ~LockedAt(q, job[p].gen)
            BY <5>2, <6>2 DEF MarkerInv, Clears, NoGuardless
          <6> QED
            BY <2>1, <6>3 DEF LockedAt
        <5> QED
          BY <3>3, <5>1, <5>2 DEF Releases
      <4> QED
        BY <1>0, <2>2, <3>3, <4>1 DEF Releases
    <3> QED
      BY <3>1, <3>2, <3>3, StepMovesMarker
  <2> QED
    BY <2>1, <2>3 DEF MarkerInv, OwnsMarker
<1> QED
  BY <1>1, <1>2, <1>3, <1>4

-----------------------------------------------------------------------------
(* Recovery removes the marker of the dead *)

\* Only reading a marker and finding its owner dead lead to its removal.
LEMMA StepReachesClear ==
  ASSUME IInv, NEW p \in Proc, StepOf(p), pc'[p] \in {"owner", "clear"}
  PROVE  InspectMarker(p) \/ OwnerDead(p)
<1>0. pc \in [Proc -> Pcs]
  BY DEF IInv, TypeOK
<1>1. ASSUME NEW to, pc' = [pc EXCEPT ![p] = to], to \notin {"owner", "clear"}
      PROVE  FALSE
  BY <1>0, <1>1
<1>2. ~Exit(p)
  BY <1>1 DEF Exit
<1>3. ASSUME NEW to, Goto(p, to), to \notin {"owner", "clear"}
      PROVE  FALSE
  BY <1>1, <1>3 DEF Goto
<1>4. \A w, c : ~Publish(p, w, c)
  BY <1>3 DEF Publish
<1>5. ~StartCommand(p)
  BY <1>1 DEF StartCommand, StartConvert, StartRecover, StartLegacy, Start
<1>6. ~(AcquireGuard(p) \/ GuardRefused(p) \/ CommandFails(p) \/ Crash(p))
  BY <1>1, <1>2 DEF AcquireGuard, GuardRefused, CommandFails, Crash
<1>7. ~PublishStep(p)
  BY <1>2, <1>3 DEF PublishStep, StageCatalog, ReplaceCatalog, PublishFails,
     PublishReturnsOk, PublishReturnsErr
<1>8. ~ConvertStep(p)
  BY <1>3, <1>4 DEF ConvertStep, BeginRun, SkipDuplicate, MissingInput, HashSource,
     FinishRun, RecordSource, ReloadCatalog
<1>9. ~FragmentStep(p)
  BY <1>2, <1>3 DEF FragmentStep, PlanFragments, LockObject, WriteMarker, ReuseObject,
     OpenStage, WriteFragments, RenameStage, DropLock, AttemptFails
<1>10. ~(Goto(p, "dirs") \/ Goto(p, "relock") \/ Goto(p, "remark") \/ Goto(p, "sweep"))
  BY <1>3
<1>11. RecoverStep(p) => InspectMarker(p) \/ OwnerDead(p)
  BY <1>2, <1>4, <1>10 DEF RecoverStep, ScanObjects, OwnerUnverifiable,
     OwnerActive, ClearMarker, RelockObject, SweepStaging, SweepFails, InterruptRun
<1> QED
  BY <1>5, <1>6, <1>7, <1>8, <1>9, <1>11 DEF StepOf, Step

LEMMA InspectClears ==
  ASSUME IInv, NEW p \in Proc, InspectMarker(p), pc'[p] \in {"owner", "clear"}
  PROVE  Clears(p)'
<1>0. /\ marker \in [Generation -> {NoDir, Unlocked} \cup Proc \cup Pid]
      /\ job[p] \in Job /\ job \in [Proc -> Job]
  BY DEF IInv, TypeOK
<1>1. PICK g \in job[p].dirs :
        /\ marker[g] \notin Proc
        /\ IF marker[g] = Unlocked
           THEN job' = [job EXCEPT ![p] = [@ EXCEPT !.gen = g]] /\ Goto(p, "relock")
           ELSE /\ job' = [job EXCEPT ![p] = [@ EXCEPT !.gen = g, !.owner = marker[g]]]
                /\ Goto(p, "owner")
  BY DEF InspectMarker
<1>2. g \in Generation /\ marker[g] # NoDir
  BY <1>0, <1>1, JobParts DEF IInv, Local
<1>3. marker[g] # Unlocked
  BY <1>1, StepGoes
<1>4. marker[g] \in Pid
  BY <1>0, <1>1, <1>2, <1>3
<1> DEFINE r == [job[p] EXCEPT !.gen = g, !.owner = marker[g]]
<1>5. job'[p] = r /\ pc'[p] = "owner" /\ marker' = marker
  BY <1>0, <1>1, <1>3, StepGoes DEF InspectMarker
<1>6. r.gen = g /\ r.owner = marker[g]
  BY <1>0 DEF Job
<1> HIDE DEF r
<1> QED
  BY <1>4, <1>5, <1>6 DEF Clears

LEMMA DeadClears ==
  ASSUME IInv, MarkerInv, NEW p \in Proc, OwnerDead(p), NoGuardless => NoGuardless'
  PROVE  Clears(p)'
<1> DEFINE g == job[p].gen
<1>1. pc[p] = "owner" /\ ~Alive(job[p].owner) /\ job' = job /\ marker' = marker
  BY DEF OwnerDead
<1>2. CASE NoGuardless
  BY <1>2 DEF Clears
<1>3. CASE ~NoGuardless
  <2>1. marker[g] = job[p].owner /\ job[p].owner \in Pid
    BY <1>1, <1>3 DEF MarkerInv, Clears
  <2>2. ASSUME NEW q \in Proc, LockedAt(q, g) PROVE FALSE
    <3>1. marker[g] \in {q, pid[q]}
      BY <2>2 DEF LockedAt, MarkerInv, OwnsMarker
    <3>2. marker[g] = pid[q]
      BY <2>1, <3>1, ConstantsAssumption
    <3> QED
      BY <1>1, <2>1, <3>2 DEF Alive
  <2>3. ASSUME NEW q \in Proc PROVE ~LockedAt(q, g)'
    <3>1. pc'[q] = pc[q] \/ pc'[q] = "clear"
      BY DEF OwnerDead, Goto, IInv, TypeOK
    <3> QED
      BY <1>1, <2>2, <3>1 DEF LockedAt, LockedPcs
  <2> QED
    BY <1>1, <2>1, <2>3 DEF Clears
<1> QED
  BY <1>2, <1>3

\* While one process is about to remove a marker, the others leave the marker
\* alone, or the guardless writer it belonged to has just gone.
LEMMA OthersKeepClears ==
  ASSUME IInv, MarkerInv, NEW p \in Proc, StepOf(p), NEW q \in Proc \ {p},
         pc[q] \in {"owner", "clear"}, ~NoGuardless
  PROVE  Clears(q)'
<1> DEFINE g == job[q].gen
<1>0. marker \in [Generation -> {NoDir, Unlocked} \cup Proc \cup Pid]
  BY DEF IInv, TypeOK
<1>1. pc'[q] = pc[q] /\ job'[q] = job[q]
  BY StepIsLocal
<1>2. /\ g \in Generation /\ guard = q /\ guard # p
      /\ marker[g] = job[q].owner /\ job[q].owner \in Pid
      /\ pc[q] = "clear" => \A r \in Proc : ~LockedAt(r, g)
  BY Places DEF MarkerInv, Clears
<1>3. \A r \in Proc \ {p} : LockedAt(r, g)' => LockedAt(r, g)
  BY <1>1, StepIsLocal DEF LockedAt
<1>4. ASSUME marker'[g] = marker[g], LockedAt(p, g)' => LockedAt(p, g)
      PROVE  Clears(q)'
  BY <1>1, <1>2, <1>3, <1>4 DEF Clears
<1>5. CASE Locks(p)
  <2>1. /\ marker[job[p].gen] \in {NoDir, Unlocked} /\ job' = job
        /\ marker' = [marker EXCEPT ![job[p].gen] = p]
    BY <1>5 DEF Locks, LockObject, RelockObject
  <2>2. job[p].gen # g
    BY <1>2, <2>1, ConstantsAssumption
  <2>3. marker'[g] = marker[g] /\ ~LockedAt(p, g)'
    BY <1>0, <1>2, <2>1, <2>2 DEF LockedAt
  <2> QED
    BY <1>4, <2>3
<1>6. CASE WriteMarker(p)
  <2>1. marker[g] # p
    BY <1>2, ConstantsAssumption
  <2>2. marker'[g] = marker[g]
    BY <1>0, <1>2, <1>6, <2>1 DEF WriteMarker
  <2>3. LockedAt(p, g)' => LockedAt(p, g)
    BY <1>6 DEF WriteMarker, LockedAt, LockedPcs
  <2> QED
    BY <1>4, <2>2, <2>3
<1>7. CASE ~Locks(p) /\ ~WriteMarker(p)
  <2>1. LockedAt(p, g)' => LockedAt(p, g)
    BY <1>7, StepReachesLocked DEF LockedAt
  <2>2. CASE marker' = marker
    BY <1>4, <2>1, <2>2
  <2>3. CASE Releases(p) /\ job[p].gen # g
    <3>1. marker'[g] = marker[g]
      BY <1>0, <1>2, <2>3 DEF Releases
    <3> QED
      BY <1>4, <2>1, <3>1
  <2>4. CASE Releases(p) /\ job[p].gen = g
    <3>1. pc[p] \in LockedPcs \cup {"clear"} /\ job[p].kind = "legacy"
      BY <1>2, <2>4, Places DEF Releases
    <3>2. Guardless(p) /\ Exit(p)
      BY <2>4, <3>1 DEF Guardless, LockedPcs, Releases
    <3>3. budget["legacy"] = 0 /\ \A r \in Proc \ {p} : ~Guardless(r)
      BY <3>2 DEF MarkerInv, FewGuardless
    <3>4. ~Guardless(p)'
      BY <3>2, StepGoes DEF Guardless
    <3>5. \A r \in Proc \ {p} : ~Guardless(r)'
      BY <3>3, StepIsLocal DEF Guardless
    <3>6. ~StartLegacy(p)
      BY <3>2 DEF StartLegacy, Start, Guardless
    <3>7. budget'["legacy"] = 0
      BY <3>3, <3>6, LegacyBudget
    <3> QED
      BY <3>4, <3>5, <3>7 DEF Clears, NoGuardless
  <2> QED
    BY <1>7, <2>2, <2>3, <2>4, StepMovesMarker
<1> QED
  BY <1>5, <1>6, <1>7

LEMMA StepKeepsClears ==
  ASSUME IInv, MarkerInv, NEW p \in Proc, StepOf(p), NEW q \in Proc
  PROVE  Clears(q)'
<1>0. NoGuardless => NoGuardless'
  BY StepKeepsFew DEF MarkerInv
<1>1. CASE pc'[q] \notin {"owner", "clear"} \/ NoGuardless
  BY <1>0, <1>1 DEF Clears
<1>2. CASE q = p /\ pc'[p] \in {"owner", "clear"}
  BY <1>0, <1>2, StepReachesClear, InspectClears, DeadClears
<1>3. CASE q # p /\ pc'[q] \in {"owner", "clear"} /\ ~NoGuardless
  BY <1>3, StepIsLocal, OthersKeepClears
<1> QED
  BY <1>1, <1>2, <1>3

-----------------------------------------------------------------------------
(* Whose stage it is *)

\* A stage is written, renamed, abandoned with its attempt, orphaned by a kill
\* or swept by recovery.
LEMMA StepMovesStage ==
  ASSUME IInv, NEW p \in Proc, StepOf(p)
  PROVE  \/ staging' = staging
         \/ OpenStage(p)
         \/ /\ pc[p] \in LockedPcs /\ pc'[p] # pc[p]
            /\ staging' = [staging EXCEPT ![job[p].gen] = @ \ {p}]
         \/ Crash(p) \/ SweepStaging(p)
<1>1. StartCommand(p) => staging' = staging
  BY DEF StartCommand, StartConvert, StartRecover, StartLegacy, Start
<1>2. PublishStep(p) => staging' = staging
  BY DEF PublishStep, StageCatalog, ReplaceCatalog, PublishFails
<1>3. ConvertStep(p) => staging' = staging
  BY DEF ConvertStep, BeginRun, SkipDuplicate, MissingInput, HashSource,
         FinishRun, RecordSource, ReloadCatalog
<1>4. AcquireGuard(p) \/ GuardRefused(p) \/ CommandFails(p) => staging' = staging
  BY DEF AcquireGuard, GuardRefused, CommandFails
<1>5. RecoverStep(p) => staging' = staging \/ SweepStaging(p)
  BY DEF RecoverStep, ScanObjects, InspectMarker, OwnerUnverifiable, OwnerDead,
         OwnerActive, ClearMarker, RelockObject, SweepFails, InterruptRun
<1>6. RenameStage(p) => /\ pc[p] \in LockedPcs /\ pc'[p] # pc[p]
                        /\ staging' = [staging EXCEPT ![job[p].gen] = @ \ {p}]
  BY StepGoes DEF RenameStage, LockedPcs
<1>7. AttemptFails(p) => \/ staging' = staging
                         \/ /\ pc[p] \in LockedPcs /\ pc'[p] # pc[p]
                            /\ staging' = [staging EXCEPT ![job[p].gen] = @ \ {p}]
  BY StepGoes DEF AttemptFails
<1>8. FragmentStep(p) /\ ~OpenStage(p) /\ ~RenameStage(p) /\ ~AttemptFails(p)
        => staging' = staging
  BY DEF FragmentStep, PlanFragments, LockObject, WriteMarker, ReuseObject,
         WriteFragments, DropLock
<1> QED
  BY <1>1, <1>2, <1>3, <1>4, <1>5, <1>6, <1>7, <1>8 DEF StepOf, Step

\* A process with a stage writes it, renames it or gives it up.
LEMMA StageStep ==
  ASSUME IInv, NEW p \in Proc, StepOf(p), pc[p] \in {"write", "rename"}
  PROVE  WriteFragments(p) \/ RenameStage(p) \/ AttemptFails(p) \/ Crash(p)
<1>1. ~StartCommand(p) /\ ~AcquireGuard(p) /\ ~GuardRefused(p) /\ ~CommandFails(p)
  BY DEF StartCommand, StartConvert, StartRecover, StartLegacy, Start, AcquireGuard,
     GuardRefused, CommandFails
<1>2. ~PublishStep(p)
  BY DEF PublishStep, StageCatalog, ReplaceCatalog, PublishFails
<1>3. ~ConvertStep(p)
  BY DEF ConvertStep, BeginRun, SkipDuplicate, MissingInput, HashSource,
         FinishRun, RecordSource, ReloadCatalog, HasInput
<1>4. ~RecoverStep(p)
  BY DEF RecoverStep, ScanObjects, InspectMarker, OwnerUnverifiable, OwnerDead,
         OwnerActive, ClearMarker, RelockObject, SweepStaging, SweepFails, InterruptRun
<1>5. FragmentStep(p) => WriteFragments(p) \/ RenameStage(p) \/ AttemptFails(p)
  BY DEF FragmentStep, PlanFragments, LockObject, WriteMarker, ReuseObject,
         OpenStage, DropLock
<1> QED
  BY <1>1, <1>2, <1>3, <1>4, <1>5 DEF StepOf, Step

\* Nobody gives another process a stage, and only a sweep behind the same marker
\* takes one away.
LEMMA OthersKeepStages ==
  ASSUME IInv, MarkerInv, NEW p \in Proc, StepOf(p), NEW q \in Proc \ {p}, NEW g \in Generation
  PROVE  q \in staging'[g] <=> q \in staging[g]
<1>0. staging \in [Generation -> SUBSET (Proc \cup {Orphan})] /\ Orphan \notin Proc
  BY ConstantsAssumption DEF IInv, TypeOK
<1>1. CASE SweepStaging(p)
  <2>1. /\ pc[p] \in LockedPcs
        /\ staging' = [staging EXCEPT ![job[p].gen] = {}]
    BY <1>1 DEF SweepStaging, LockedPcs
  <2>2. q \in staging[g] => g # job[p].gen
    BY <2>1, MarkersDiffer DEF MarkerInv, OwnStage, OneObjectWriter, LockedPcs
  <2> QED
    BY <1>0, <2>1, <2>2
<1>2. CASE OpenStage(p)
  BY <1>0, <1>2 DEF OpenStage
<1>3. CASE staging' = [staging EXCEPT ![job[p].gen] = @ \ {p}]
  BY <1>0, <1>3
<1>4. CASE Crash(p)
  BY <1>0, <1>4 DEF Crash, Orphaned
<1> QED
  BY <1>1, <1>2, <1>3, <1>4, StepMovesStage

LEMMA StepKeepsOwnStage ==
  ASSUME IInv, MarkerInv, NEW p \in Proc, StepOf(p), NEW q \in Proc
  PROVE  OwnStage(q)'
<1>0. staging \in [Generation -> SUBSET (Proc \cup {Orphan})] /\ Orphan \notin Proc
  BY ConstantsAssumption DEF IInv, TypeOK
<1>1. CASE q # p
  BY <1>1, OthersKeepStages, StepIsLocal DEF MarkerInv, OwnStage
<1>2. CASE q = p
  <2> SUFFICES ASSUME NEW g \in Generation, p \in staging'[g]
               PROVE  pc'[p] \in {"write", "rename"} /\ job'[p].gen = g
    BY <1>2 DEF OwnStage
  <2>1. CASE OpenStage(p)
    <3>1. pc[p] = "open" /\ pc'[p] = "write" /\ job' = job
          /\ staging' = [staging EXCEPT ![job[p].gen] = @ \cup {p}]
      BY <2>1, StepGoes DEF OpenStage
    <3>2. p \notin staging[g]
      BY <3>1 DEF MarkerInv, OwnStage
    <3> QED
      BY <1>0, <3>1, <3>2
  <2>2. CASE ~OpenStage(p)
    <3>1. ~Crash(p)
      BY <1>0 DEF Crash, Orphaned
    <3>2. p \in staging[g]
      BY <1>0, <2>2, <3>1, StepMovesStage DEF SweepStaging
    <3>3. pc[p] \in {"write", "rename"} /\ job[p].gen = g
      BY <3>2 DEF MarkerInv, OwnStage
    <3>4. ~RenameStage(p)
      BY <1>0, <3>3 DEF RenameStage
    <3>5. ~AttemptFails(p)
      BY <1>0, <3>3 DEF AttemptFails, LockedPcs
    <3>6. WriteFragments(p)
      BY <3>1, <3>3, <3>4, <3>5, StageStep
    <3> QED
      BY <3>3, <3>6, StepGoes DEF WriteFragments
  <2> QED
    BY <2>1, <2>2
<1> QED
  BY <1>1, <1>2

-----------------------------------------------------------------------------
(* The inductive invariant *)

LEMMA MarkerInvInit == Budget["legacy"] <= 1 /\ Init => MarkerInv
BY DEF Init, MarkerInv, FewGuardless, PidsDiffer, Guardless, OwnsMarker, Clears, OwnStage,
   LockedPcs

LEMMA MarkerInvStep == IInv /\ MarkerInv /\ [Next]_vars => MarkerInv'
<1> SUFFICES ASSUME IInv, MarkerInv, [Next]_vars PROVE MarkerInv'
  OBVIOUS
<1>1. ASSUME NEW p \in Proc, StepOf(p) PROVE MarkerInv'
  <2>1. FewGuardless' /\ PidsDiffer'
    BY <1>1, StepKeepsFew, StepKeepsPids DEF MarkerInv
  <2>2. ASSUME NEW q \in Proc PROVE OwnsMarker(q)'
    BY <1>1, StepKeepsOwned DEF OwnsMarker
  <2> QED
    BY <1>1, <2>1, <2>2, StepKeepsClears, StepKeepsOwnStage DEF MarkerInv
<1>2. ASSUME UNCHANGED <<marker, staging, pc, pid, job>>, budget'["legacy"] = budget["legacy"]
      PROVE  MarkerInv'
  BY <1>2 DEF MarkerInv, FewGuardless, PidsDiffer, Guardless, NoGuardless, LockedAt,
     OwnsMarker, Clears, OwnStage
<1>3. CASE UNCHANGED vars
  BY <1>2, <1>3
<1>4. ASSUME NEW s \in Source, EditSource(s) PROVE MarkerInv'
  BY <1>2, <1>4 DEF EditSource, Spend, IInv, TypeOK
<1>5. ASSUME NEW g \in Generation, NEW c \in Content, DamageObject(g, c) PROVE MarkerInv'
  BY <1>2, <1>5 DEF DamageObject, Spend, IInv, TypeOK
<1> HIDE DEF vars
<1> QED
  BY <1>1, <1>3, <1>4, <1>5 DEF Next, StepOf

LEMMA MarkersHold == Budget["legacy"] <= 1 => (Spec => [](IInv /\ MarkerInv))
<1> SUFFICES ASSUME Budget["legacy"] <= 1 PROVE Spec => [](IInv /\ MarkerInv)
  OBVIOUS
<1>1. Init => MarkerInv
  BY MarkerInvInit
<1> HIDE DEF vars
<1>2. Init /\ [][Next]_vars /\ []IInv => []MarkerInv
  BY <1>1, MarkerInvStep, PTL
<1> QED
  BY <1>2, InvariantHolds, PTL DEF Spec

\* With at most one writer that does not know the kernel lock, no two live
\* processes work behind the marker of one object directory: converters and
\* recoveries exclude each other by the guard, and recovery removes a marker only
\* after nobody works behind it any more.
THEOREM OneWriterPerObject == Budget["legacy"] <= 1 => (Spec => []OneObjectWriter)
<1> SUFFICES ASSUME Budget["legacy"] <= 1 PROVE Spec => []OneObjectWriter
  OBVIOUS
<1>1. Spec => [](IInv /\ MarkerInv)
  BY MarkersHold
<1> HIDE DEF vars
<1> QED
  BY <1>1, MarkersDiffer, PTL

\* Under the same bound no step of another process removes the staging directory of
\* a live one: recovery sweeps behind the marker, which a live writer still owns.
THEOREM LiveStagesSpared == Budget["legacy"] <= 1 => (Spec => RecoverySparesLiveStages)
<1> SUFFICES ASSUME Budget["legacy"] <= 1 PROVE Spec => RecoverySparesLiveStages
  OBVIOUS
<1>1. ASSUME IInv, MarkerInv, [Next]_vars, NEW p \in Proc, NEW g \in Generation,
             p \in staging[g], p \notin staging'[g], pc'[p] = pc[p]
      PROVE  FALSE
  <2>0. staging \in [Generation -> SUBSET (Proc \cup {Orphan})]
    BY <1>1 DEF IInv, TypeOK
  <2>1. PICK q \in Proc : StepOf(q)
    BY <1>1 DEF Next, StepOf, EditSource, DamageObject
  <2>2. q = p
    BY <1>1, <2>1, OthersKeepStages
  <2>3. pc[p] \in {"write", "rename"}
    BY <1>1 DEF MarkerInv, OwnStage
  <2>4. ~Crash(p)
    BY <1>1, <2>3 DEF Crash, Exit, IInv, TypeOK
  <2>5. ~OpenStage(p) /\ ~SweepStaging(p)
    BY <2>3 DEF OpenStage, SweepStaging
  <2> QED
    BY <1>1, <2>0, <2>1, <2>2, <2>4, <2>5, StepMovesStage
<1>2. IInv /\ MarkerInv /\ [Next]_vars
        => [\A p \in Proc, g \in Generation :
              p \in staging[g] /\ p \notin staging'[g] => pc'[p] # pc[p]]_vars
  BY <1>1
<1>3. Spec => [](IInv /\ MarkerInv)
  BY MarkersHold
<1> HIDE DEF vars
<1> QED
  BY <1>2, <1>3, PTL DEF Spec, RecoverySparesLiveStages
=============================================================================
