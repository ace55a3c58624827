------------------------ MODULE OutputCommands_proofs ------------------------
(***************************************************************************)
(* What is proved of the commands that replace a file, for any number of   *)
(* commands, sources, contents and arguments: the conversions, then the    *)
(* directory lock, then the sanity reports, then all of them together.     *)
(*                                                                         *)
(* What is at an output path says nothing of the temp files that may still *)
(* be renamed to it, so OutputIsComplete and DigestNamesContent are not    *)
(* inductive.  OutputInv adds, for each command, that only a writer        *)
(* between create and rename owns temp files, that they are for its own    *)
(* path, and that from commit on they hold what the writer counted, which  *)
(* for a directory command is what the name of the path says.  A step of   *)
(* one command only takes temp files away from the others, so that nothing *)
(* has to be said of two of them.                                          *)
(***************************************************************************)
EXTENDS OutputCommands, DataFacts

CommittedPcs == {"commit", "rename", "remanifest", "manifest"}
OwningPcs == {"write", "commit", "rename"}

CommandOK(p) ==
  /\ job[p].kind = "single" => job[p].path \in Path /\ job[p].path.digest = None
  /\ pc[p] \in WritePcs \cup {"probe"} => job[p].path \in Path /\ job[p].kind # "none"
  /\ pc[p] = "probe" => job[p].kind = "single"
  /\ pc[p] \in {"plan", "lock", "file"} => job[p].kind = "directory"
  /\ pc[p] \in WritePcs /\ job[p].kind = "directory" =>
       job[p].path.digest = job[p].plan[job[p].path.source]
  /\ pc[p] \in CommittedPcs =>
       /\ job[p].holds \in Version \cup {Empty}
       /\ job[p].path.digest # None => job[p].holds = job[p].path.digest

TempsOK(p) ==
  /\ Mine(p) # {} => pc[p] \in OwningPcs
  /\ \A t \in Mine(p) : /\ t.path = job[p].path
                        /\ pc[p] \in CommittedPcs => t.holds = job[p].holds

OutputInv ==
  /\ TypeOK /\ OutputIsComplete /\ DigestNamesContent
  /\ \A p \in Proc : CommandOK(p) /\ TempsOK(p)

-----------------------------------------------------------------------------
(* Temp files.                                                             *)

LEMMA AbandonedTemps ==
  ASSUME temps \subseteq Temp, NEW p \in Proc
  PROVE  /\ Abandoned(p) \subseteq Temp
         /\ \A q \in Proc : {t \in Abandoned(p) : t.owner = q} \subseteq
                              IF q = p THEN {} ELSE Mine(q)
<1>1. \A t \in Mine(p) : t \in Temp /\ [t EXCEPT !.owner = Orphan] \in Temp
                         /\ [t EXCEPT !.owner = Orphan].owner = Orphan
  BY DEF Mine, Temp
<1>2. \A q \in Proc : q # Orphan
  BY OutputAssumption
<1>3. ASSUME NEW t \in Abandoned(p)
      PROVE  t \in Temp /\ (t.owner = Orphan \/ (t \in temps /\ t.owner # p))
  <2>1. CASE t \in temps \ Mine(p)
    BY <2>1 DEF Mine
  <2>2. CASE t \in {[u EXCEPT !.owner = Orphan] : u \in Mine(p)}
    BY <2>2, <1>1
  <2> QED
    BY <2>1, <2>2 DEF Abandoned
<1>4. Abandoned(p) \subseteq Temp
  BY <1>3
<1>5. ASSUME NEW q \in Proc, NEW t \in Abandoned(p), t.owner = q
      PROVE  q # p /\ t \in Mine(q)
  BY <1>2, <1>3, <1>5 DEF Mine
<1> QED
  BY <1>4, <1>5

Held(p, v) == (temps \ Mine(p)) \cup {[t EXCEPT !.holds = v] : t \in Mine(p)}

LEMMA HeldTemps ==
  ASSUME temps \subseteq Temp, NEW p \in Proc, NEW v \in Version \cup {Empty}
  PROVE  /\ Held(p, v) \subseteq Temp
         /\ \A q \in Proc \ {p} : {t \in Held(p, v) : t.owner = q} \subseteq Mine(q)
         /\ \A t \in {u \in Held(p, v) : u.owner = p} :
              t.holds = v /\ \E s \in Mine(p) : t.path = s.path
<1>1. \A t \in Mine(p) : LET u == [t EXCEPT !.holds = v]
                         IN u \in Temp /\ u.owner = p /\ u.holds = v /\ u.path = t.path
  BY DEF Mine, Temp
<1>2. ASSUME NEW t \in Held(p, v)
      PROVE  /\ t \in Temp
             /\ t.owner # p => t \in temps
             /\ t.owner = p => t.holds = v /\ \E s \in Mine(p) : t.path = s.path
  <2>1. CASE t \in temps \ Mine(p)
    BY <2>1 DEF Mine
  <2>2. CASE t \in {[u EXCEPT !.holds = v] : u \in Mine(p)}
    BY <2>2, <1>1
  <2> QED
    BY <2>1, <2>2 DEF Held
<1>3. \A q \in Proc \ {p} : {t \in Held(p, v) : t.owner = q} \subseteq Mine(q)
  BY <1>2 DEF Mine
<1> QED
  BY <1>2, <1>3

-----------------------------------------------------------------------------
(* A step of one command leaves the others alone.                          *)

OnlyMoves(p) ==
  \A q \in Proc \ {p} : pc'[q] = pc[q] /\ job'[q] = job[q] /\ Mine(q)' \subseteq Mine(q)

LEMMA OthersKeep ==
  ASSUME OutputInv, NEW p \in Proc, OnlyMoves(p)
  PROVE  \A q \in Proc \ {p} : CommandOK(q)' /\ TempsOK(q)'
<1> SUFFICES ASSUME NEW q \in Proc \ {p} PROVE CommandOK(q)' /\ TempsOK(q)'
  OBVIOUS
<1>1. CommandOK(q) /\ TempsOK(q)
  BY DEF OutputInv
<1>2. pc'[q] = pc[q] /\ job'[q] = job[q] /\ Mine(q)' \subseteq Mine(q)
  BY DEF OnlyMoves
<1>3. CommandOK(q)'
  BY <1>1, <1>2 DEF CommandOK
<1>4. TempsOK(q)'
  BY <1>1, <1>2 DEF TempsOK
<1> QED
  BY <1>3, <1>4

\* Returning: the command is idle, owns nothing and has no job.
LEMMA ExitOK ==
  ASSUME OutputInv, NEW p \in Proc, Goto(p, "idle"), job' = [job EXCEPT ![p] = NoJob],
         \A q \in Proc : Mine(q)' \subseteq IF q = p THEN {} ELSE Mine(q)
  PROVE  /\ pc' \in [Proc -> Pcs] /\ job' \in [Proc -> Job]
         /\ \A q \in Proc : CommandOK(q)' /\ TempsOK(q)'
<1>1. NoJob \in Job
  BY DEF NoJob, Job
<1>2. pc \in [Proc -> Pcs] /\ job \in [Proc -> Job]
  BY DEF OutputInv, TypeOK
<1>3. pc' = [pc EXCEPT ![p] = "idle"]
  BY DEF Goto
<1>4. pc'[p] = "idle" /\ job'[p] = NoJob /\ NoJob.kind = "none"
  BY <1>2, <1>3 DEF NoJob
<1>5. OnlyMoves(p)
  BY <1>2, <1>3 DEF OnlyMoves
<1>6. CommandOK(p)'
  BY <1>4 DEF CommandOK, WritePcs, CommittedPcs
<1>7. TempsOK(p)'
  BY <1>4 DEF TempsOK
<1>8. "idle" \in Pcs
  BY DEF Pcs
<1> QED
  BY <1>1, <1>2, <1>3, <1>5, <1>6, <1>7, <1>8, OthersKeep

-----------------------------------------------------------------------------
(* The steps of a command.                                                 *)

LEMMA StartSingleOK == ASSUME OutputInv, NEW p \in Proc, StartSingle(p) PROVE OutputInv'
<1> USE DEF StartSingle, Goto, Spend
<1>0. job' \in [Proc -> Job]
  <2>1. PICK s \in Source, overwrite \in BOOLEAN :
          job' = [job EXCEPT ![p] = [NoJob EXCEPT !.kind = "single", !.overwrite = overwrite,
                                       !.path = [source |-> s, digest |-> None]]]
    OBVIOUS
  <2>2. [source |-> s, digest |-> None] \in Path
    BY DEF Path
  <2> DEFINE path == [source |-> s, digest |-> None]
  <2>3. [NoJob EXCEPT !.kind = "single", !.overwrite = overwrite, !.path = path] \in Job
    <3>1. NoJob \in Job
      BY DEF NoJob, Job
    <3>2. path \in Path
      BY <2>2
    <3> HIDE DEF path
    <3>3. [NoJob EXCEPT !.kind = "single"] \in Job
      BY <3>1 DEF Job
    <3>4. [NoJob EXCEPT !.kind = "single", !.overwrite = overwrite] \in Job
      BY <3>3 DEF Job
    <3> QED
      BY <3>2, <3>4 DEF Job
  <2> QED
    BY <2>1, <2>3 DEF OutputInv, TypeOK
<1>1. TypeOK'
  BY <1>0, OutputAssumption DEF OutputInv, TypeOK, Pcs, WritePcs, BudgetKeys
<1>2. OnlyMoves(p)
  BY DEF OutputInv, TypeOK, OnlyMoves, Mine
<1>3. CommandOK(p)'
  BY DEF OutputInv, TypeOK, CommandOK, Pcs, WritePcs, CommittedPcs, Job, NoJob, Path
<1>4. TempsOK(p)'
  BY DEF OutputInv, TypeOK, TempsOK, Mine, CommittedPcs, OwningPcs
<1>5. OutputIsComplete' /\ DigestNamesContent'
  BY DEF OutputInv, OutputIsComplete, DigestNamesContent
<1> QED
  BY <1>1, <1>2, <1>3, <1>4, <1>5, OthersKeep DEF OutputInv

LEMMA ProbeOutputOK == ASSUME OutputInv, NEW p \in Proc, ProbeOutput(p) PROVE OutputInv'
<1> USE DEF ProbeOutput, Goto, Spend
<1>0. job' \in [Proc -> Job]
  <2> DEFINE b == ~job[p].overwrite /\ output[job[p].path] # None
  <2>1. b \in BOOLEAN /\ job[p] \in Job
    BY DEF OutputInv, TypeOK
  <2>2. [job[p] EXCEPT !.found = b] \in Job
    BY <2>1 DEF Job
  <2>3. job' = [job EXCEPT ![p] = [job[p] EXCEPT !.found = b]]
    BY DEF OutputInv, TypeOK
  <2> QED
    BY <2>2, <2>3 DEF OutputInv, TypeOK
<1>1. TypeOK'
  BY <1>0, OutputAssumption DEF OutputInv, TypeOK, Pcs, WritePcs, BudgetKeys
<1>2. OnlyMoves(p)
  BY DEF OutputInv, TypeOK, OnlyMoves, Mine
<1>3. CommandOK(p)'
  BY DEF OutputInv, TypeOK, CommandOK, Pcs, WritePcs, CommittedPcs, Job
<1>4. TempsOK(p)'
  BY DEF OutputInv, TypeOK, TempsOK, Mine, CommittedPcs, OwningPcs
<1>5. OutputIsComplete' /\ DigestNamesContent'
  BY DEF OutputInv, OutputIsComplete, DigestNamesContent
<1> QED
  BY <1>1, <1>2, <1>3, <1>4, <1>5, OthersKeep DEF OutputInv

LEMMA StartDirectoryOK == ASSUME OutputInv, NEW p \in Proc, StartDirectory(p) PROVE OutputInv'
<1> USE DEF StartDirectory, Goto, Spend
<1>0. job' \in [Proc -> Job]
  <2>1. PICK b \in Batches, overwrite \in BOOLEAN :
          job' = [job EXCEPT ![p] = [NoJob EXCEPT !.kind = "directory",
                                       !.overwrite = overwrite, !.todo = b]]
    OBVIOUS
  <2>2. b \in Seq(Source)
    BY OutputAssumption
  <2>3. [NoJob EXCEPT !.kind = "directory", !.overwrite = overwrite, !.todo = b] \in Job
    BY <2>2 DEF NoJob, Job
  <2> QED
    BY <2>1, <2>3 DEF OutputInv, TypeOK
<1>1. TypeOK'
  BY <1>0, OutputAssumption DEF OutputInv, TypeOK, Pcs, WritePcs, BudgetKeys
<1>2. OnlyMoves(p)
  BY DEF OutputInv, TypeOK, OnlyMoves, Mine
<1>3. CommandOK(p)'
  BY DEF OutputInv, TypeOK, CommandOK, Pcs, WritePcs, CommittedPcs, Job, NoJob
<1>4. TempsOK(p)'
  BY DEF OutputInv, TypeOK, TempsOK, Mine, CommittedPcs, OwningPcs
<1>5. OutputIsComplete' /\ DigestNamesContent'
  BY DEF OutputInv, OutputIsComplete, DigestNamesContent
<1> QED
  BY <1>1, <1>2, <1>3, <1>4, <1>5, OthersKeep DEF OutputInv

LEMMA PlanSourcesOK == ASSUME OutputInv, NEW p \in Proc, PlanSources(p) PROVE OutputInv'
<1> USE DEF PlanSources, Goto, Spend
<1>0. job' \in [Proc -> Job]
  <2>1. content \in [Source -> Version \cup {None}] /\ job[p] \in Job
    BY DEF OutputInv, TypeOK
  <2>2. [job[p] EXCEPT !.plan = content] \in Job
    BY <2>1 DEF Job
  <2>3. job' = [job EXCEPT ![p] = [job[p] EXCEPT !.plan = content]]
    BY DEF OutputInv, TypeOK
  <2> QED
    BY <2>2, <2>3 DEF OutputInv, TypeOK
<1>1. TypeOK'
  BY <1>0, OutputAssumption DEF OutputInv, TypeOK, Pcs, WritePcs, BudgetKeys
<1>2. OnlyMoves(p)
  BY DEF OutputInv, TypeOK, OnlyMoves, Mine
<1>3. CommandOK(p)'
  BY DEF OutputInv, TypeOK, CommandOK, Pcs, WritePcs, CommittedPcs, Job
<1>4. TempsOK(p)'
  BY DEF OutputInv, TypeOK, TempsOK, Mine, CommittedPcs, OwningPcs
<1>5. OutputIsComplete' /\ DigestNamesContent'
  BY DEF OutputInv, OutputIsComplete, DigestNamesContent
<1> QED
  BY <1>1, <1>2, <1>3, <1>4, <1>5, OthersKeep DEF OutputInv

LEMMA LockDirectoryOK == ASSUME OutputInv, NEW p \in Proc, LockDirectory(p) PROVE OutputInv'
<1> USE DEF LockDirectory, Goto, Spend
<1>1. TypeOK'
  BY DEF OutputInv, TypeOK, CommandOK, Pcs, WritePcs
<1>2. OnlyMoves(p)
  BY DEF OutputInv, TypeOK, OnlyMoves, Mine
<1>3. CommandOK(p)'
  BY DEF OutputInv, TypeOK, CommandOK, Pcs, WritePcs, CommittedPcs, Job
<1>4. TempsOK(p)'
  BY DEF OutputInv, TypeOK, TempsOK, Mine, CommittedPcs, OwningPcs
<1>5. OutputIsComplete' /\ DigestNamesContent'
  BY DEF OutputInv, OutputIsComplete, DigestNamesContent
<1> QED
  BY <1>1, <1>2, <1>3, <1>4, <1>5, OthersKeep DEF OutputInv

LEMMA NextFileOK == ASSUME OutputInv, NEW p \in Proc, NextFile(p) PROVE OutputInv'
<1> USE DEF NextFile, Goto, Spend
<1>0. job' \in [Proc -> Job]
  <2> DEFINE f == PlannedPath(p, Head(job[p].todo))
  <2>1. job[p] \in Job
    BY DEF OutputInv, TypeOK
  <2>2. job[p].todo \in Seq(Source) /\ job[p].todo # <<>>
          /\ job[p].plan \in [Source -> Version \cup {None}]
    BY <2>1 DEF Job
  <2>3. Head(job[p].todo) \in Source /\ Tail(job[p].todo) \in Seq(Source)
    BY <2>2
  <2>4. f \in Path
    BY <2>2, <2>3 DEF PlannedPath, Path
  <2>5. [job[p] EXCEPT !.path = f, !.todo = Tail(@)] \in Job
    BY <2>1, <2>3, <2>4 DEF Job
  <2>6. job' = [job EXCEPT ![p] = [job[p] EXCEPT !.path = f, !.todo = Tail(@)]]
    BY DEF OutputInv, TypeOK
  <2> QED
    BY <2>5, <2>6 DEF OutputInv, TypeOK
<1>1. TypeOK'
  BY <1>0, OutputAssumption DEF OutputInv, TypeOK, Pcs, WritePcs, BudgetKeys
<1>2. OnlyMoves(p)
  BY DEF OutputInv, TypeOK, OnlyMoves, Mine
<1>3. CommandOK(p)'
  <2> PICK f, s : s = Head(job[p].todo) /\ f = PlannedPath(p, s)
    OBVIOUS
  <2>1. /\ pc[p] = "file" /\ job[p].kind = "directory" /\ job[p] \in Job /\ job'[p] \in Job
        /\ pc'[p] = "exists" /\ job' = [job EXCEPT ![p].path = f, ![p].todo = Tail(@)]
    BY <1>0 DEF OutputInv, TypeOK, CommandOK
  <2>2. job'[p].kind = "directory" /\ job'[p].path = f /\ job'[p].plan = job[p].plan
    BY <2>1 DEF Job, OutputInv, TypeOK
  <2>3. f.source = s /\ f.digest = job[p].plan[s]
    BY DEF PlannedPath
  <2>4. f \in Path
    <3>1. job[p].todo \in Seq(Source) /\ job[p].todo # <<>> /\ job[p].plan \in [Source -> Version \cup {None}]
      BY <2>1 DEF Job
    <3>2. s \in Source
      BY <3>1
    <3> QED
      BY <3>1, <3>2 DEF PlannedPath, Path
  <2> QED
    BY <2>1, <2>2, <2>3, <2>4 DEF CommandOK, WritePcs, CommittedPcs
<1>4. TempsOK(p)'
  BY DEF OutputInv, TypeOK, TempsOK, Mine, CommittedPcs, OwningPcs
<1>5. OutputIsComplete' /\ DigestNamesContent'
  BY DEF OutputInv, OutputIsComplete, DigestNamesContent
<1> QED
  BY <1>1, <1>2, <1>3, <1>4, <1>5, OthersKeep DEF OutputInv

LEMMA BeginWriteOK == ASSUME OutputInv, NEW p \in Proc, BeginWrite(p) PROVE OutputInv'
<1> USE DEF BeginWrite, Goto, Spend
<1>1. TypeOK'
  BY DEF OutputInv, TypeOK, CommandOK, Pcs, WritePcs
<1>2. OnlyMoves(p)
  BY DEF OutputInv, TypeOK, OnlyMoves, Mine
<1>3. CommandOK(p)'
  BY DEF OutputInv, TypeOK, CommandOK, Pcs, WritePcs, CommittedPcs, Job
<1>4. TempsOK(p)'
  BY DEF OutputInv, TypeOK, TempsOK, Mine, CommittedPcs, OwningPcs
<1>5. OutputIsComplete' /\ DigestNamesContent'
  BY DEF OutputInv, OutputIsComplete, DigestNamesContent
<1> QED
  BY <1>1, <1>2, <1>3, <1>4, <1>5, OthersKeep DEF OutputInv

LEMMA CleanTempsOK == ASSUME OutputInv, NEW p \in Proc, CleanTemps(p) PROVE OutputInv'
<1> USE DEF CleanTemps, Goto, Spend
<1>1. TypeOK'
  BY DEF OutputInv, TypeOK, CommandOK, Pcs, WritePcs
<1>2. OnlyMoves(p)
  BY DEF OutputInv, TypeOK, OnlyMoves, Mine
<1>3. CommandOK(p)'
  BY DEF OutputInv, TypeOK, CommandOK, Pcs, WritePcs, CommittedPcs, Job
<1>4. TempsOK(p)'
  BY DEF OutputInv, TypeOK, TempsOK, Mine, CommittedPcs, OwningPcs
<1>5. OutputIsComplete' /\ DigestNamesContent'
  BY DEF OutputInv, OutputIsComplete, DigestNamesContent
<1> QED
  BY <1>1, <1>2, <1>3, <1>4, <1>5, OthersKeep DEF OutputInv

LEMMA CreateTempOK == ASSUME OutputInv, NEW p \in Proc, CreateTemp(p) PROVE OutputInv'
<1> USE DEF CreateTemp, Goto, Spend
<1>1. TypeOK'
  BY DEF OutputInv, TypeOK, CommandOK, Pcs, WritePcs, Temp, Job
<1>2. OnlyMoves(p)
  BY DEF OutputInv, TypeOK, OnlyMoves, Mine
<1>3. CommandOK(p)'
  BY DEF OutputInv, TypeOK, CommandOK, Pcs, WritePcs, CommittedPcs, Job, Temp
<1>4. TempsOK(p)'
  BY DEF OutputInv, TypeOK, TempsOK, Mine, CommittedPcs, OwningPcs
<1>5. OutputIsComplete' /\ DigestNamesContent'
  BY DEF OutputInv, OutputIsComplete, DigestNamesContent
<1> QED
  BY <1>1, <1>2, <1>3, <1>4, <1>5, OthersKeep DEF OutputInv

LEMMA FilesDoneOK == ASSUME OutputInv, NEW p \in Proc, FilesDone(p) PROVE OutputInv'
<1> USE DEF FilesDone, Exit, Spend
<1>1. temps' \subseteq Temp /\ \A q \in Proc : Mine(q)' \subseteq IF q = p THEN {} ELSE Mine(q)
  BY DEF OutputInv, TypeOK, TempsOK, Mine, OwningPcs
<1>2. /\ pc' \in [Proc -> Pcs] /\ job' \in [Proc -> Job]
      /\ \A q \in Proc : CommandOK(q)' /\ TempsOK(q)'
  BY <1>1, ExitOK
<1>3. TypeOK'
  BY <1>1, <1>2 DEF OutputInv, TypeOK, BudgetKeys
<1>4. OutputIsComplete' /\ DigestNamesContent'
  BY DEF OutputInv, OutputIsComplete, DigestNamesContent
<1> QED
  BY <1>2, <1>3, <1>4 DEF OutputInv

LEMMA DirectoryFailsOK == ASSUME OutputInv, NEW p \in Proc, DirectoryFails(p) PROVE OutputInv'
<1> USE DEF DirectoryFails, Exit, Spend
<1>1. temps' \subseteq Temp /\ \A q \in Proc : Mine(q)' \subseteq IF q = p THEN {} ELSE Mine(q)
  BY DEF OutputInv, TypeOK, TempsOK, Mine, OwningPcs
<1>2. /\ pc' \in [Proc -> Pcs] /\ job' \in [Proc -> Job]
      /\ \A q \in Proc : CommandOK(q)' /\ TempsOK(q)'
  BY <1>1, ExitOK
<1>3. TypeOK'
  BY <1>1, <1>2 DEF OutputInv, TypeOK, BudgetKeys
<1>4. OutputIsComplete' /\ DigestNamesContent'
  BY DEF OutputInv, OutputIsComplete, DigestNamesContent
<1> QED
  BY <1>2, <1>3, <1>4 DEF OutputInv

LEMMA WriteFailsOK == ASSUME OutputInv, NEW p \in Proc, WriteFails(p) PROVE OutputInv'
<1> USE DEF WriteFails, Exit, Spend
<1>1. temps' \subseteq Temp /\ \A q \in Proc : Mine(q)' \subseteq IF q = p THEN {} ELSE Mine(q)
  BY DEF OutputInv, TypeOK, TempsOK, Mine, OwningPcs
<1>2. /\ pc' \in [Proc -> Pcs] /\ job' \in [Proc -> Job]
      /\ \A q \in Proc : CommandOK(q)' /\ TempsOK(q)'
  BY <1>1, ExitOK
<1>3. TypeOK'
  BY <1>1, <1>2 DEF OutputInv, TypeOK, BudgetKeys
<1>4. OutputIsComplete' /\ DigestNamesContent'
  BY DEF OutputInv, OutputIsComplete, DigestNamesContent
<1> QED
  BY <1>2, <1>3, <1>4 DEF OutputInv

LEMMA WriterFailsOK == ASSUME OutputInv, NEW p \in Proc, WriterFails(p) PROVE OutputInv'
<1> USE DEF WriterFails, Exit, Spend
<1>1. temps' \subseteq Temp /\ \A q \in Proc : Mine(q)' \subseteq IF q = p THEN {} ELSE Mine(q)
  BY AbandonedTemps DEF OutputInv, TypeOK, Mine
<1>2. /\ pc' \in [Proc -> Pcs] /\ job' \in [Proc -> Job]
      /\ \A q \in Proc : CommandOK(q)' /\ TempsOK(q)'
  BY <1>1, ExitOK
<1>3. TypeOK'
  BY <1>1, <1>2 DEF OutputInv, TypeOK, BudgetKeys
<1>4. OutputIsComplete' /\ DigestNamesContent'
  BY DEF OutputInv, OutputIsComplete, DigestNamesContent
<1> QED
  BY <1>2, <1>3, <1>4 DEF OutputInv

LEMMA CrashOK == ASSUME OutputInv, NEW p \in Proc, Crash(p) PROVE OutputInv'
<1> USE DEF Crash, Exit, Spend
<1>1. temps' \subseteq Temp /\ \A q \in Proc : Mine(q)' \subseteq IF q = p THEN {} ELSE Mine(q)
  BY AbandonedTemps DEF OutputInv, TypeOK, Mine
<1>2. /\ pc' \in [Proc -> Pcs] /\ job' \in [Proc -> Job]
      /\ \A q \in Proc : CommandOK(q)' /\ TempsOK(q)'
  BY <1>1, ExitOK
<1>3. TypeOK'
  BY <1>1, <1>2 DEF OutputInv, TypeOK, BudgetKeys
<1>4. OutputIsComplete' /\ DigestNamesContent'
  BY DEF OutputInv, OutputIsComplete, DigestNamesContent
<1> QED
  BY <1>2, <1>3, <1>4 DEF OutputInv

\* Where a directory command goes on with its next source.
LEMMA FileDoneOK ==
  ASSUME OutputInv, NEW p \in Proc, FileDone(p), pc[p] \in WritePcs \ OwningPcs, temps' = temps
  PROVE  /\ pc' \in [Proc -> Pcs] /\ job' \in [Proc -> Job]
         /\ dirLock' \in Proc \cup {Orphan, None}
         /\ \A q \in Proc : CommandOK(q)' /\ TempsOK(q)'
<1>1. CommandOK(p) /\ TempsOK(p) /\ TypeOK
  BY DEF OutputInv
<1>2. \A q \in Proc : Mine(q)' = Mine(q)
  BY DEF Mine
<1>3. Mine(p) = {}
  BY <1>1 DEF TempsOK
<1>4. CASE job[p].kind = "directory"
  <2>1. pc' = [pc EXCEPT ![p] = "file"] /\ job' = job /\ dirLock' = dirLock
    BY <1>4 DEF FileDone, Goto
  <2>2. pc' \in [Proc -> Pcs] /\ pc'[p] = "file" /\ OnlyMoves(p)
    BY <1>1, <1>2, <2>1 DEF TypeOK, OnlyMoves, Pcs
  <2>3. CommandOK(p)'
    BY <1>1, <1>4, <2>1, <2>2 DEF CommandOK, WritePcs, CommittedPcs
  <2>4. TempsOK(p)'
    BY <1>2, <1>3 DEF TempsOK
  <2> QED
    BY <1>1, <2>1, <2>2, <2>3, <2>4, OthersKeep DEF TypeOK
<1>5. CASE job[p].kind # "directory"
  <2>1. Exit(p)
    BY <1>5 DEF FileDone
  <2>2. \A q \in Proc : Mine(q)' \subseteq IF q = p THEN {} ELSE Mine(q)
    BY <1>2, <1>3
  <2>3. dirLock' \in Proc \cup {Orphan, None}
    BY <1>1, <2>1 DEF Exit, TypeOK
  <2> QED
    BY <2>1, <2>2, <2>3, ExitOK DEF Exit
<1> QED
  BY <1>4, <1>5

LEMMA ReturnSummaryOK == ASSUME OutputInv, NEW p \in Proc, ReturnSummary(p) PROVE OutputInv'
<1>1. "exists" \in WritePcs \ OwningPcs
  BY DEF WritePcs, OwningPcs
<1>2. /\ pc' \in [Proc -> Pcs] /\ job' \in [Proc -> Job]
      /\ dirLock' \in Proc \cup {Orphan, None}
      /\ \A q \in Proc : CommandOK(q)' /\ TempsOK(q)'
  BY <1>1, FileDoneOK DEF ReturnSummary
<1>3. TypeOK'
  BY <1>2 DEF OutputInv, TypeOK, ReturnSummary
<1>4. OutputIsComplete' /\ DigestNamesContent'
  BY DEF OutputInv, OutputIsComplete, DigestNamesContent, ReturnSummary
<1> QED
  BY <1>2, <1>3, <1>4 DEF OutputInv

LEMMA RenameManifestOK == ASSUME OutputInv, NEW p \in Proc, RenameManifest(p) PROVE OutputInv'
<1>1. "manifest" \in WritePcs \ OwningPcs /\ "manifest" \in CommittedPcs
  BY DEF WritePcs, OwningPcs, CommittedPcs
<1>2. /\ pc' \in [Proc -> Pcs] /\ job' \in [Proc -> Job]
      /\ dirLock' \in Proc \cup {Orphan, None}
      /\ \A q \in Proc : CommandOK(q)' /\ TempsOK(q)'
  BY <1>1, FileDoneOK DEF RenameManifest
<1>3. /\ job[p].path \in Path /\ job[p].holds \in Version \cup {Empty}
      /\ job[p].path.digest # None => job[p].holds = job[p].path.digest
      /\ manifest' = [manifest EXCEPT ![job[p].path] = job[p].holds]
  BY <1>1 DEF OutputInv, CommandOK, RenameManifest
<1>4. TypeOK'
  BY <1>2, <1>3 DEF OutputInv, TypeOK, RenameManifest
<1>5. OutputIsComplete'
  BY DEF OutputInv, OutputIsComplete, RenameManifest
<1>6. DigestNamesContent'
  BY <1>3 DEF OutputInv, TypeOK, DigestNamesContent, RenameManifest
<1> QED
  BY <1>2, <1>4, <1>5, <1>6 DEF OutputInv

\* A directory command only goes on if the bytes are those of its plan, which name the path.
LEMMA WriteTempOK == ASSUME OutputInv, NEW p \in Proc, WriteTemp(p) PROVE OutputInv'
<1> DEFINE v == IF job[p].found THEN Empty ELSE content[job[p].path.source]
<1>1. CommandOK(p) /\ TempsOK(p) /\ TypeOK /\ pc[p] = "write"
  BY DEF OutputInv, WriteTemp
<1>2. job[p].path \in Path /\ job[p].path.source \in Source
        /\ job[p].kind \in {"single", "directory"}
  BY <1>1 DEF CommandOK, WritePcs, Path, TypeOK, Job
<1>3. v \in Version \cup {Empty}
  BY <1>1, <1>2 DEF TypeOK
<1>4. job[p].path.digest # None => v = job[p].path.digest
  BY <1>1, <1>2 DEF CommandOK, WriteTemp, WritePcs
<1>5. /\ temps' = Held(p, v) /\ job' = [job EXCEPT ![p] = [job[p] EXCEPT !.holds = v]]
      /\ pc' = [pc EXCEPT ![p] = "commit"]
      /\ UNCHANGED <<content, output, manifest, dirLock, budget>>
  BY <1>1 DEF WriteTemp, Held, Goto, TypeOK
<1> HIDE DEF v
<1>6. job[p] \in Job /\ [job[p] EXCEPT !.holds = v] \in Job
  BY <1>1, <1>3, ZenonT(40) DEF TypeOK, Job
<1>7. TypeOK'
  BY <1>1, <1>3, <1>5, <1>6, HeldTemps DEF TypeOK, Pcs, WritePcs
<1>8. OnlyMoves(p)
  BY <1>1, <1>3, <1>5, HeldTemps DEF OnlyMoves, TypeOK, Mine
<1>9. /\ job'[p].path = job[p].path /\ job'[p].kind = job[p].kind /\ job'[p].plan = job[p].plan
      /\ job'[p].holds = v /\ pc'[p] = "commit"
  BY <1>1, <1>5, <1>6 DEF TypeOK, Job
<1>10. CommandOK(p)'
  BY <1>1, <1>2, <1>3, <1>4, <1>9 DEF CommandOK, WritePcs, CommittedPcs
<1>11. ASSUME NEW t \in Mine(p)' PROVE t.path = job[p].path /\ t.holds = v
  BY <1>1, <1>3, <1>5, HeldTemps DEF Mine, TypeOK, TempsOK
<1>12. TempsOK(p)'
  BY <1>9, <1>11 DEF TempsOK, OwningPcs
<1>13. OutputIsComplete' /\ DigestNamesContent'
  BY <1>5 DEF OutputInv, OutputIsComplete, DigestNamesContent
<1> QED
  BY <1>7, <1>8, <1>10, <1>12, <1>13, OthersKeep DEF OutputInv

LEMMA RemoveOutputOK == ASSUME OutputInv, NEW p \in Proc, RemoveOutput(p) PROVE OutputInv'
<1> USE DEF RemoveOutput, Goto
<1>1. TypeOK'
  BY DEF OutputInv, TypeOK, CommandOK, Pcs, WritePcs
<1>2. OnlyMoves(p)
  BY DEF OutputInv, TypeOK, OnlyMoves, Mine
<1>3. CommandOK(p)'
  BY DEF OutputInv, TypeOK, CommandOK, WritePcs, CommittedPcs
<1>4. TempsOK(p)'
  BY DEF OutputInv, TypeOK, TempsOK, Mine, CommittedPcs, OwningPcs
<1>5. OutputIsComplete'
  BY OutputAssumption DEF OutputInv, TypeOK, OutputIsComplete
<1>6. DigestNamesContent'
  BY DEF OutputInv, TypeOK, DigestNamesContent
<1> QED
  BY <1>1, <1>2, <1>3, <1>4, <1>5, <1>6, OthersKeep DEF OutputInv

LEMMA RemoveManifestOK == ASSUME OutputInv, NEW p \in Proc, RemoveManifest(p) PROVE OutputInv'
<1> USE DEF RemoveManifest, Goto
<1>1. TypeOK'
  BY DEF OutputInv, TypeOK, CommandOK, Pcs, WritePcs
<1>2. OnlyMoves(p)
  BY DEF OutputInv, TypeOK, OnlyMoves, Mine
<1>3. CommandOK(p)'
  BY DEF OutputInv, TypeOK, CommandOK, WritePcs, CommittedPcs
<1>4. TempsOK(p)'
  BY DEF OutputInv, TypeOK, TempsOK, Mine, CommittedPcs, OwningPcs
<1>5. OutputIsComplete'
  BY OutputAssumption DEF OutputInv, TypeOK, OutputIsComplete
<1>6. DigestNamesContent'
  BY DEF OutputInv, TypeOK, DigestNamesContent
<1> QED
  BY <1>1, <1>2, <1>3, <1>4, <1>5, <1>6, OthersKeep DEF OutputInv

LEMMA RenameTempOK == ASSUME OutputInv, NEW p \in Proc, RenameTemp(p) PROVE OutputInv'
<1> USE DEF RenameTemp, Goto
<1>0. PICK t \in Mine(p) : output' = [output EXCEPT ![t.path] = t.holds]
  OBVIOUS
<1>7. /\ t.path = job[p].path /\ t.path \in Path /\ t.holds \in Version \cup {Empty}
      /\ t.path.digest # None => t.holds = t.path.digest
  BY <1>0 DEF OutputInv, CommandOK, TempsOK, WritePcs, CommittedPcs
<1>1. TypeOK'
  BY <1>0, <1>7 DEF OutputInv, TypeOK, CommandOK, Pcs, WritePcs
<1>2. OnlyMoves(p)
  BY DEF OutputInv, TypeOK, OnlyMoves, Mine
<1>3. CommandOK(p)'
  BY DEF OutputInv, TypeOK, CommandOK, WritePcs, CommittedPcs
<1>4. TempsOK(p)'
  BY DEF OutputInv, TypeOK, TempsOK, Mine, CommittedPcs, OwningPcs
<1>5. OutputIsComplete'
  BY <1>0, <1>7, OutputAssumption DEF OutputInv, TypeOK, OutputIsComplete
<1>6. DigestNamesContent'
  BY <1>0, <1>7 DEF OutputInv, TypeOK, DigestNamesContent
<1> QED
  BY <1>1, <1>2, <1>3, <1>4, <1>5, <1>6, OthersKeep DEF OutputInv

LEMMA RemoveStaleLockOK == ASSUME OutputInv, RemoveStaleLock PROVE OutputInv'
<1>1. \A p \in Proc : CommandOK(p)' /\ TempsOK(p)'
  BY DEF OutputInv, RemoveStaleLock, CommandOK, TempsOK, Mine
<1> QED
  BY <1>1 DEF OutputInv, TypeOK, RemoveStaleLock, OutputIsComplete, DigestNamesContent

LEMMA EditSourceOK == ASSUME OutputInv, NEW s \in Source, EditSource(s) PROVE OutputInv'
<1>1. \A p \in Proc : CommandOK(p)' /\ TempsOK(p)'
  BY DEF OutputInv, EditSource, CommandOK, TempsOK, Mine
<1>2. TypeOK'
  BY DEF OutputInv, TypeOK, EditSource, Spend, BudgetKeys
<1> QED
  BY <1>1, <1>2 DEF OutputInv, EditSource, OutputIsComplete, DigestNamesContent

-----------------------------------------------------------------------------
LEMMA OutputInvInit == Init => OutputInv
<1> SUFFICES ASSUME Init PROVE OutputInv
  OBVIOUS
<1>1. NoJob \in Job /\ NoJob.kind = "none"
  BY DEF NoJob, Job
<1>2. TypeOK
  BY <1>1, OutputAssumption DEF Init, TypeOK, Pcs
<1>3. \A p \in Proc : CommandOK(p) /\ TempsOK(p)
  BY <1>1 DEF Init, CommandOK, TempsOK, Mine, WritePcs, CommittedPcs
<1>4. OutputIsComplete /\ DigestNamesContent
  BY OutputAssumption DEF Init, OutputIsComplete, DigestNamesContent
<1> QED
  BY <1>2, <1>3, <1>4 DEF OutputInv

LEMMA OutputInvStep == OutputInv /\ [Next]_vars => OutputInv'
<1> SUFFICES ASSUME OutputInv, [Next]_vars PROVE OutputInv'
  OBVIOUS
<1>1. ASSUME NEW p \in Proc, StartSingle(p) \/ StartDirectory(p) \/ ProbeOutput(p) \/ Crash(p)
      PROVE  OutputInv'
  BY <1>1, StartSingleOK, StartDirectoryOK, ProbeOutputOK, CrashOK
<1>2. ASSUME NEW p \in Proc, DirectoryStep(p) PROVE OutputInv'
  BY <1>2, PlanSourcesOK, LockDirectoryOK, NextFileOK, FilesDoneOK, DirectoryFailsOK
     DEF DirectoryStep
<1>3. ASSUME NEW p \in Proc, WriteStep(p) PROVE OutputInv'
  BY <1>3, ReturnSummaryOK, BeginWriteOK, CleanTempsOK, CreateTempOK, WriteTempOK,
     WriteFailsOK, RemoveOutputOK, RenameTempOK, RemoveManifestOK, RenameManifestOK,
     WriterFailsOK DEF WriteStep
<1>4. CASE UNCHANGED vars
  <2>1. \A p \in Proc : CommandOK(p)' /\ TempsOK(p)'
    BY <1>4 DEF OutputInv, vars, CommandOK, TempsOK, Mine
  <2> QED
    BY <1>4, <2>1 DEF OutputInv, vars, TypeOK, OutputIsComplete, DigestNamesContent
<1> QED
  BY <1>1, <1>2, <1>3, <1>4, RemoveStaleLockOK, EditSourceOK DEF Next

\* The invariant holds in every reachable state.
THEOREM OutputInvariant == Spec => []OutputInv
<1> QED
  BY OutputInvInit, OutputInvStep, PTL DEF Spec

\* Every variable keeps its type.
THEOREM OutputTypes == Spec => []TypeOK
<1>1. OutputInv => TypeOK
  BY DEF OutputInv
<1> QED
  BY <1>1, OutputInvariant, PTL

\* No output path ever holds a file whose writing has not finished, whatever is killed,
\* fails, or cleans up after another command (records_to_parquet_path_atomic).
THEOREM OutputsComplete == Spec => []OutputIsComplete
<1>1. OutputInv => OutputIsComplete
  BY DEF OutputInv
<1> QED
  BY <1>1, OutputInvariant, PTL

\* A path named by a digest holds, and its manifest counts, the rows of that content,
\* however the sources are edited meanwhile (files_to_partitioned_parquet_dir).
THEOREM DigestsName == Spec => []DigestNamesContent
<1>1. OutputInv => DigestNamesContent
  BY DEF OutputInv
<1> QED
  BY <1>1, OutputInvariant, PTL

-----------------------------------------------------------------------------
(***************************************************************************)
(* The lock of the directory.                                              *)
(*                                                                         *)
(* A path with a digest is written by directory commands only, and these   *)
(* hold the lock file from their first file on; so nobody else removes,    *)
(* renames or cleans up there.                                             *)
(***************************************************************************)
LockOK(p) ==
  job[p].kind = "directory" =>
    /\ pc[p] \in {"lock", "file"} \cup WritePcs => job[p].plan \in [Source -> Version]
    /\ pc[p] \in {"file"} \cup WritePcs => dirLock = p
    /\ pc[p] \in WritePcs => job[p].path.digest # None
    /\ pc[p] = "rename" => output[job[p].path] = None

LockInv == OutputInv /\ \A p \in Proc : LockOK(p)

\* What a step of p does not do to another command, and where it writes.
KeepsAway(p) ==
  /\ \A q \in Proc \ {p} : pc'[q] = pc[q] /\ job'[q] = job[q] /\ (dirLock = q => dirLock' = q)
  /\ \A f \in Path : output'[f] # output[f] =>
       pc[p] \in {"commit", "rename"} /\ f = job[p].path
  /\ \A q \in Proc \ {p} : \A t \in Mine(q) :
       t \notin temps' => pc[p] = "clean" /\ t.path = job[p].path

OwnStep(p) ==
  \/ StartSingle(p) \/ StartDirectory(p) \/ ProbeOutput(p)
  \/ DirectoryStep(p) \/ WriteStep(p) \/ Crash(p)

LEMMA StepsKeepAway ==
  ASSUME OutputInv, NEW p \in Proc, OwnStep(p)
  PROVE  KeepsAway(p)
<1> USE DEF OutputInv, TypeOK, KeepsAway, Goto, Exit, FileDone, Mine, Abandoned
<1>1. p \notin {Orphan, None} /\ \A q \in Proc : q # Orphan /\ q # None
  BY OutputAssumption
<1>2. CASE StartSingle(p) \/ StartDirectory(p) \/ ProbeOutput(p)
  BY <1>2 DEF StartSingle, StartDirectory, ProbeOutput
<1>3. CASE PlanSources(p) \/ LockDirectory(p) \/ NextFile(p) \/ FilesDone(p) \/ DirectoryFails(p)
  BY <1>1, <1>3 DEF PlanSources, LockDirectory, NextFile, FilesDone, DirectoryFails
<1>4. CASE ReturnSummary(p) \/ BeginWrite(p) \/ CleanTemps(p) \/ CreateTemp(p)
  BY <1>4 DEF ReturnSummary, BeginWrite, CleanTemps, CreateTemp
<1>5. CASE WriteTemp(p) \/ WriteFails(p) \/ WriterFails(p) \/ Crash(p)
  BY <1>1, <1>5 DEF WriteTemp, WriteFails, WriterFails, Crash
<1>6. CASE RemoveOutput(p) \/ RemoveManifest(p) \/ RenameManifest(p)
  BY <1>6 DEF RemoveOutput, RemoveManifest, RenameManifest
<1>7. CASE RenameTemp(p)
  <2>1. PICK t \in Mine(p) : output' = [output EXCEPT ![t.path] = t.holds]
    BY <1>7 DEF RenameTemp
  <2>2. t.path = job[p].path /\ pc[p] = "rename"
    BY <1>7, <2>1 DEF RenameTemp, TempsOK
  <2>3. \A f \in Path : output'[f] # output[f] => f = job[p].path
    BY <2>1, <2>2
  <2> QED
    BY <1>7, <2>2, <2>3 DEF RenameTemp
<1> QED
  BY <1>2, <1>3, <1>4, <1>5, <1>6, <1>7 DEF OwnStep, DirectoryStep, WriteStep

\* Two directory commands are not both past the lock.
LEMMA OtherPathsStay ==
  ASSUME LockInv, NEW p \in Proc, KeepsAway(p), NEW q \in Proc \ {p}, LockOK(q)
  PROVE  LockOK(q)'
<1> SUFFICES ASSUME job[q].kind = "directory", pc[q] \in {"lock", "file"} \cup WritePcs
              PROVE  LockOK(q)'
  BY DEF KeepsAway, LockOK, WritePcs
<1>1. /\ pc'[q] = pc[q] /\ job'[q] = job[q] /\ (dirLock = q => dirLock' = q)
      /\ job[q].plan \in [Source -> Version]
  BY DEF KeepsAway, LockOK
<1>2. CASE pc[q] = "rename"
  <2>1. job[q].path \in Path /\ dirLock = q /\ job[q].path.digest # None
          /\ output[job[q].path] = None
    BY <1>2 DEF LockInv, OutputInv, CommandOK, LockOK, WritePcs
  <2>2. output'[job[q].path] = None
    <3> SUFFICES ASSUME output'[job[q].path] # output[job[q].path] PROVE FALSE
      BY <2>1
    <3>1. pc[p] \in {"commit", "rename"} /\ job[q].path = job[p].path
      BY <2>1 DEF KeepsAway
    <3>2. job[p].kind \in {"none", "single", "directory"} /\ CommandOK(p) /\ LockOK(p)
      BY DEF LockInv, OutputInv, TypeOK, Job
    <3>3. job[p].kind = "directory"
      BY <2>1, <3>1, <3>2 DEF CommandOK, WritePcs
    <3>4. dirLock = p
      BY <3>1, <3>2, <3>3 DEF LockOK, WritePcs
    <3> QED
      BY <2>1, <3>4
  <2> QED
    BY <1>1, <1>2, <2>1, <2>2 DEF LockOK
<1>3. CASE pc[q] # "rename"
  BY <1>1, <1>3 DEF LockOK
<1> QED
  BY <1>2, <1>3

LEMMA OwnLockHolds ==
  ASSUME LockInv, NEW p \in Proc, OwnStep(p)
  PROVE  LockOK(p)'
<1> USE DEF LockInv, OutputInv, TypeOK, LockOK, Goto
<1>0. LockOK(p) /\ CommandOK(p) /\ NoJob.kind = "none" /\ p # None /\ job[p] \in Job
  BY OutputAssumption DEF NoJob
<1>1. CASE StartSingle(p) \/ StartDirectory(p)
  BY <1>1 DEF StartSingle, StartDirectory, NoJob, WritePcs
<1>2. CASE ProbeOutput(p)
  BY <1>0, <1>2 DEF ProbeOutput, CommandOK, Job
<1>3. CASE PlanSources(p)
  BY <1>3 DEF PlanSources, Job, WritePcs
<1>4. CASE LockDirectory(p)
  BY <1>4 DEF LockDirectory, WritePcs
<1>5. CASE NextFile(p)
  <2>1. /\ job[p].todo # <<>> /\ pc[p] = "file" /\ pc'[p] = "exists" /\ dirLock' = dirLock
        /\ job'[p].kind = job[p].kind /\ job'[p].plan = job[p].plan
        /\ job'[p].path = PlannedPath(p, Head(job[p].todo))
    BY <1>5 DEF NextFile, Job
  <2>2. Head(job[p].todo) \in Source
    BY <2>1 DEF Job
  <2>3. PlannedPath(p, Head(job[p].todo)).digest = job[p].plan[Head(job[p].todo)]
    BY DEF PlannedPath
  <2> QED
    BY <1>0, <2>1, <2>2, <2>3, OutputAssumption
<1>6. CASE FilesDone(p) \/ DirectoryFails(p) \/ WriteFails(p) \/ WriterFails(p) \/ Crash(p)
  BY <1>0, <1>6 DEF FilesDone, DirectoryFails, WriteFails, WriterFails, Crash, Exit
<1>7. CASE BeginWrite(p) \/ CleanTemps(p) \/ CreateTemp(p) \/ RemoveManifest(p)
  BY <1>0, <1>7 DEF BeginWrite, CleanTemps, CreateTemp, RemoveManifest, WritePcs
<1>8. CASE WriteTemp(p)
  BY <1>0, <1>8 DEF WriteTemp, WritePcs, Job
<1>9. CASE RemoveOutput(p)
  BY <1>0, <1>9 DEF RemoveOutput, WritePcs, CommandOK
<1>10. CASE RenameTemp(p)
  BY <1>0, <1>10 DEF RenameTemp, WritePcs
<1>11. CASE ReturnSummary(p) \/ RenameManifest(p)
  BY <1>0, <1>11 DEF ReturnSummary, RenameManifest, FileDone, Exit, WritePcs
<1> QED
  BY <1>1, <1>2, <1>3, <1>4, <1>5, <1>6, <1>7, <1>8, <1>9, <1>10, <1>11
  DEF OwnStep, DirectoryStep, WriteStep

LEMMA LockInvStep == LockInv /\ [Next]_vars => LockInv'
<1> SUFFICES ASSUME LockInv, [Next]_vars PROVE LockInv'
  OBVIOUS
<1>1. OutputInv'
  BY OutputInvStep DEF LockInv
<1>2. ASSUME NEW p \in Proc, OwnStep(p) PROVE \A q \in Proc : LockOK(q)'
  BY <1>2, StepsKeepAway, OtherPathsStay, OwnLockHolds DEF LockInv
<1>3. ASSUME NEW q \in Proc, RemoveStaleLock \/ (\E s \in Source : EditSource(s)) \/ UNCHANGED vars
      PROVE  LockOK(q)'
  BY <1>3, OutputAssumption DEF LockInv, LockOK, RemoveStaleLock, EditSource, vars
<1> QED
  BY <1>1, <1>2, <1>3 DEF LockInv, Next, OwnStep

LEMMA LockInvariant == Spec => []LockInv
<1>1. Init => LockInv
  BY OutputInvInit DEF Init, LockInv, LockOK, NoJob, WritePcs
<1> QED
  BY <1>1, LockInvStep, PTL DEF Spec

\* In a directory of partitions a committed file is only taken away by the command that
\* holds the lock file, and only if that was told to overwrite: for a command that was not,
\* what it found at a path stays there (files_to_partitioned_parquet_dir, commit_temp_file).
THEOREM DirectoriesKeepCommitted == Spec => DirectoryKeepsCommitted
<1> DEFINE Kept ==
      \A f \in Path : f.digest # None /\ output[f] # None /\ output'[f] # output[f] =>
        \E p \in Proc : dirLock = p /\ job[p].path = f /\ job[p].overwrite
<1>1. LockInv /\ [Next]_vars => [Kept]_vars
  <2> SUFFICES ASSUME LockInv, Next, NEW f \in Path,
                      f.digest # None, output[f] # None, output'[f] # output[f]
               PROVE  \E p \in Proc : dirLock = p /\ job[p].path = f /\ job[p].overwrite
    OBVIOUS
  <2>1. PICK p \in Proc : OwnStep(p)
    BY DEF Next, OwnStep, RemoveStaleLock, EditSource
  <2>2. pc[p] \in {"commit", "rename"} /\ f = job[p].path
    BY <2>1, StepsKeepAway DEF KeepsAway, LockInv
  <2>3. CommandOK(p) /\ LockOK(p) /\ job[p].kind \in {"none", "single", "directory"}
    BY DEF LockInv, OutputInv, TypeOK, Job
  <2>4. job[p].kind = "directory"
    BY <2>2, <2>3 DEF CommandOK, WritePcs
  <2>5. dirLock = p /\ pc[p] # "rename"
    BY <2>2, <2>3, <2>4 DEF LockOK, WritePcs
  <2>6. RemoveOutput(p)
    BY <2>1, <2>2, <2>5 DEF OwnStep, DirectoryStep, WriteStep, StartSingle, StartDirectory,
       ProbeOutput,
       PlanSources, LockDirectory, NextFile, FilesDone, DirectoryFails, ReturnSummary, BeginWrite,
       CleanTemps, CreateTemp, WriteTemp, WriteFails, RenameTemp, RemoveManifest, RenameManifest,
       WriterFails, Crash
  <2>7. job[p].overwrite
    BY <2>2, <2>6 DEF RemoveOutput, Keeps
  <2> QED
    BY <2>2, <2>5, <2>7
<1> QED
  BY <1>1, LockInvariant, PTL DEF Spec, DirectoryKeepsCommitted

\* While a directory command writes, commits and renames, no cleanup of another one takes
\* its temp file away: the lock file keeps those that clean up the same names out
\* (cleanup_orphaned_temp_files).
THEOREM LockKeepsTemps == Spec => LockedTempsSurvive
<1> DEFINE Survives ==
      \A p \in Proc :
        job[p].kind = "directory" /\ pc[p] \in {"write", "commit", "rename"} /\ Mine(p) # {}
          => Mine(p)' # {} \/ pc'[p] # pc[p]
<1>1. LockInv /\ [Next]_vars => [Survives]_vars
  <2> SUFFICES ASSUME LockInv, Next, NEW p \in Proc, job[p].kind = "directory",
                      pc[p] \in {"write", "commit", "rename"}, NEW t \in Mine(p), pc'[p] = pc[p]
               PROVE  t \in Mine(p)'
    BY Zenon
  <2>1. CASE \E q \in Proc \ {p} : OwnStep(q)
    <3>1. PICK q \in Proc \ {p} : OwnStep(q)
      BY <2>1
    <3>2. KeepsAway(q)
      BY <3>1, StepsKeepAway DEF LockInv
    <3>3. ~(pc[q] = "clean" /\ t.path = job[q].path)
      <4> SUFFICES ASSUME pc[q] = "clean", t.path = job[q].path PROVE FALSE
        OBVIOUS
      <4>1. LockOK(p) /\ LockOK(q) /\ CommandOK(q) /\ TempsOK(p)
            /\ job[q].kind \in {"none", "single", "directory"}
        BY DEF LockInv, OutputInv, TypeOK, Job
      <4>2. dirLock = p /\ job[q].path.digest # None
        BY <4>1 DEF LockOK, TempsOK, WritePcs
      <4>3. job[q].kind = "directory"
        BY <4>1, <4>2 DEF CommandOK, WritePcs
      <4> QED
        BY <4>1, <4>2, <4>3 DEF LockOK, WritePcs
    <3>4. t \in temps' /\ t.owner = p
      BY <3>2, <3>3 DEF KeepsAway, Mine
    <3> QED
      BY <3>4 DEF Mine
  <2>2. CASE OwnStep(p)
    <3>1. pc'[p] # pc[p]
      BY <2>2 DEF LockInv, OutputInv, TypeOK, Goto, Exit, OwnStep, DirectoryStep, WriteStep,
         StartSingle,
         StartDirectory, ProbeOutput, PlanSources, LockDirectory, NextFile, FilesDone,
            DirectoryFails,
         ReturnSummary, BeginWrite, CleanTemps, CreateTemp, WriteTemp, WriteFails, RenameTemp,
         RemoveOutput, RemoveManifest, RenameManifest, WriterFails, Crash
    <3> QED
      BY <3>1
  <2>3. CASE RemoveStaleLock \/ \E s \in Source : EditSource(s)
    BY <2>3 DEF RemoveStaleLock, EditSource, Mine
  <2> QED
    BY <2>1, <2>2, <2>3 DEF Next, OwnStep
<1> QED
  BY <1>1, LockInvariant, PTL DEF Spec, LockedTempsSurvive

-----------------------------------------------------------------------------
(* Sanity reports.  ReportsKept speaks of what is announced; ReportInv adds *)
(* what a command that still runs has brought about: no name is used twice, *)
(* what it has scanned is what its generation holds, its charge is the size *)
(* of the generation and of its copy, and until it replaces the page no     *)
(* page names it.                                                           *)
RunningSteps == {"copy", "scan", "write", "publish", "replace"}
Steps == RunningSteps \cup {"idle", "sync", "drop"}
Outcomes == {"none", "running", "published", "summarised", "failed", "unsynced", "killed"}
StageRecord == [at : Steps, of : Name \cup {NoReport}, mode : {"html", "text"}, next : Nat,
                copied : Body \cup {NoReport}, scanned : SUBSET Body, used : Nat]
Report == [of : Name, says : SUBSET Body]

ReportTypeOK ==
  /\ directory \in [Name -> Generation \cup {NoReport}]
  /\ page \in Report \cup {NoReport} /\ summary \in Report \cup {NoReport}
  /\ copies \subseteq Name /\ cancelFile \in BOOLEAN
  /\ outcome \in [Name -> Outcomes]
  /\ stage \in [Checker -> StageRecord]
  /\ troubles \in [ReportKeys -> Nat] /\ troubles["command"] <= ReportBudget["command"]

\* How many commands were started: their names are 1..Started.
Started == ReportBudget["command"] - troubles["command"]

\* The files of a generation after n pages.
FilesAfter == <<{"record_fields"}, {"record_fields", "summary"},
                {"record_fields", "summary", "report"},
                {"record_fields", "summary", "report", "checks"}>>

Shows(what, n) == what # NoReport /\ what.of = n

NameOK(n) ==
  /\ outcome[n] = "none" <=> n > Started
  /\ outcome[n] = "none" => directory[n] = NoReport /\ n \notin copies
  /\ outcome[n] = "published" => Whole(n, directory[n].archived)
  /\ directory[n] # NoReport => IsFiniteSet(directory[n].archived)
  /\ SizeOf(n) + Cardinality(copies \cap {n}) <= DiskLimit

\* What a command has scanned, written and charged is what is in its generation.
GenerationOK(w) ==
  LET n == stage[w].of  at == stage[w].at  d == directory[n] IN
  /\ at # "scan" => d.archived = stage[w].scanned
  /\ at = "scan" => stage[w].copied \in Body /\ d.archived = stage[w].scanned \cup {stage[w].copied}
  /\ at \in {"copy", "scan"} => d.files = FilesAfter[1]
  /\ at = "write" => \E k \in 1..4 : d.files = FilesAfter[k]
  /\ at \in {"publish", "replace", "sync"} /\ stage[w].mode = "html" => Whole(n, stage[w].scanned)
  /\ n \in copies <=> at = "replace"
  /\ stage[w].used = SizeOf(n) + (IF at \in {"replace", "sync"} THEN 1 ELSE 0)
  /\ stage[w].used <= DiskLimit

StageOK(w) ==
  LET n == stage[w].of  at == stage[w].at IN
  at # "idle" =>
    /\ n \in Name /\ directory[n] # NoReport
    /\ at # "drop" => outcome[n] = "running" /\ GenerationOK(w)
    /\ at \in RunningSteps => ~Shows(page, n) /\ ~Shows(summary, n)
    /\ at = "sync" /\ stage[w].mode = "text" => ~Shows(page, n)
    /\ at = "drop" => outcome[n] \in {"failed", "unsynced", "summarised"}
    /\ at = "drop" /\ outcome[n] # "unsynced" => ~Shows(page, n)

Alone(w, v) == ~At(w, "idle") /\ ~At(v, "idle") /\ w # v => stage[w].of # stage[v].of

ShownOK(what) == what # NoReport => outcome[what.of] \notin {"none", "failed"}
PageOK == page # NoReport => Whole(page.of, page.says) \/ outcome[page.of] = "unsynced"

ReportInv ==
  /\ ReportTypeOK
  /\ \A n \in Name : NameOK(n)
  /\ \A w \in Checker : StageOK(w) /\ \A v \in Checker : Alone(w, v)
  /\ ShownOK(page) /\ ShownOK(summary) /\ PageOK

LEMMA ReportInvImplies == ReportInv => ReportsKept
  BY DEF ReportInv, ReportsKept, PageOK, NameOK, ShownOK

-----------------------------------------------------------------------------
(* Sizes.                                                                  *)
LEMMA FilesCount ==
  /\ IsFiniteSet(Files)
  /\ \A k \in 1..4 : /\ IsFiniteSet(FilesAfter[k]) /\ Cardinality(FilesAfter[k]) = k
                     /\ Parts[k] \notin FilesAfter[k]
                     /\ FilesAfter[k] \cup {Parts[k]} = IF k = 4 THEN Files ELSE FilesAfter[k + 1]
<1>1. IsFiniteSet(FilesAfter[1]) /\ Cardinality(FilesAfter[1]) = 1
  BY FS_Singleton DEF FilesAfter
<1>2. ASSUME NEW k \in 1..4
      PROVE  /\ Parts[k] \notin FilesAfter[k]
             /\ FilesAfter[k] \cup {Parts[k]} = IF k = 4 THEN Files ELSE FilesAfter[k + 1]
  <2>1. k = 1 \/ k = 2 \/ k = 3 \/ k = 4
    OBVIOUS
  <2> QED
    BY <2>1 DEF FilesAfter, Parts, Files
<1>3. ASSUME NEW k \in 1..4, IsFiniteSet(FilesAfter[k]), Cardinality(FilesAfter[k]) = k
      PROVE  /\ IsFiniteSet(FilesAfter[k] \cup {Parts[k]})
             /\ Cardinality(FilesAfter[k] \cup {Parts[k]}) = k + 1
  BY <1>2, <1>3, FS_AddElement
<1>4. \A k \in 1..4 : IsFiniteSet(FilesAfter[k]) /\ Cardinality(FilesAfter[k]) = k
  <2>1. IsFiniteSet(FilesAfter[2]) /\ Cardinality(FilesAfter[2]) = 2
    BY <1>1, <1>2, <1>3
  <2>2. IsFiniteSet(FilesAfter[3]) /\ Cardinality(FilesAfter[3]) = 3
    BY <2>1, <1>2, <1>3
  <2>3. IsFiniteSet(FilesAfter[4]) /\ Cardinality(FilesAfter[4]) = 4
    BY <2>2, <1>2, <1>3
  <2> QED
    BY <1>1, <2>1, <2>2, <2>3
<1>5. IsFiniteSet(Files)
  BY <1>2, <1>3, <1>4
<1> QED
  BY <1>2, <1>4, <1>5

\* The size of a generation in parts: its files and its copies.
LEMMA SizeIsSum ==
  ASSUME NEW g \in Generation, IsFiniteSet(g.archived)
  PROVE  /\ IsFiniteSet(g.files) /\ Cardinality(g.files) \in Nat
         /\ SumFunctionOnSet(Size, g.archived) \in Nat
<1>1. g.files \subseteq Files /\ g.archived \subseteq Body
  BY DEF Generation
<1>2. IsFiniteSet(g.files)
  BY <1>1, FilesCount, FS_Subset
<1>3. \A b \in g.archived : Size[b] \in Nat
  BY <1>1, ReportAssumption
<1> QED
  BY <1>2, <1>3, SumNat, FS_CardinalityType

LEMMA SizeIsNat == ASSUME ReportInv, NEW n \in Name PROVE SizeOf(n) \in Nat
<1>1. NameOK(n) /\ directory[n] \in Generation \cup {NoReport}
  BY DEF ReportInv, ReportTypeOK
<1> QED
  BY <1>1, SizeIsSum DEF SizeOf, NameOK

LEMMA SizeGrows ==
  ASSUME NEW g \in Generation, IsFiniteSet(g.archived), NEW b \in Body, b \notin g.archived
  PROVE  /\ IsFiniteSet(g.archived \cup {b})
         /\ SumFunctionOnSet(Size, g.archived \cup {b}) =
              SumFunctionOnSet(Size, g.archived) + Size[b]
<1> DEFINE A == g.archived
<1>1. A \subseteq Body
  BY DEF Generation
<1>2. \A x \in A : Size[x] = Size[x] /\ Size[x] \in Nat
  BY <1>1, ReportAssumption
<1>3. Size[b] \in Nat
  BY ReportAssumption
<1> DEFINE B == A \cup {b}
<1>4. IsFiniteSet(B) /\ B \ {b} = A
  BY FS_AddElement
<1>5. \A x \in B : Size[x] \in Nat
  BY <1>2, <1>3
<1> HIDE DEF A, B
<1>6. SumFunctionOnSet(Size, B) = Size[b] + SumFunctionOnSet(Size, B \ {b})
  BY <1>4, <1>5, SumTake DEF B
<1>7. SumFunctionOnSet(Size, A) \in Nat
  BY SizeIsSum DEF A
<1>8. IsFiniteSet(B) /\ SumFunctionOnSet(Size, B) = SumFunctionOnSet(Size, A) + Size[b]
  <2> DEFINE total(t) == SumFunctionOnSet(Size, t)
  <2>1. total(B) = Size[b] + total(A)
    BY <1>4, <1>6, Zenon
  <2>2. total(A) \in Nat
    BY <1>7
  <2> HIDE DEF total
  <2>3. total(B) = total(A) + Size[b]
    BY <1>3, <2>1, <2>2
  <2> QED
    BY <1>4, <2>3 DEF total
<1> QED
  BY <1>8 DEF A, B

LEMMA CopiesCount ==
  ASSUME NEW n
  PROVE  /\ n \in copies => Cardinality(copies \cap {n}) = 1
         /\ n \notin copies => Cardinality(copies \cap {n}) = 0
<1>1. n \in copies => copies \cap {n} = {n}
  OBVIOUS
<1>2. n \notin copies => copies \cap {n} = {}
  OBVIOUS
<1> QED
  BY <1>1, <1>2, FS_Singleton, FS_EmptySet

-----------------------------------------------------------------------------
(* What a step of one command leaves alone.                                *)
OnlyTouches(w, n) ==
  /\ \A v \in Checker \ {w} : stage'[v] = stage[v] /\ (At(v, "idle") \/ stage[v].of # n)
  /\ stage'[w].at = "idle" \/ stage'[w].of = n
  /\ \A m \in Name \ {n} : /\ directory'[m] = directory[m] /\ outcome'[m] = outcome[m]
                           /\ m \in copies' <=> m \in copies
                           /\ m > Started' <=> m > Started
  /\ page' \in {page, NoReport} \/ page'.of = n
  /\ summary' \in {summary, NoReport} \/ summary'.of = n

LEMMA OtherNamesStay ==
  ASSUME ReportInv, NEW w \in Checker, NEW n \in Name, OnlyTouches(w, n), NEW m \in Name \ {n}
  PROVE  NameOK(m)'
<1>1. /\ directory'[m] = directory[m] /\ outcome'[m] = outcome[m]
      /\ m \in copies' <=> m \in copies
      /\ m > Started' <=> m > Started
  BY DEF OnlyTouches
<1>2. copies' \cap {m} = copies \cap {m}
  BY <1>1
<1> QED
  BY <1>1, <1>2 DEF ReportInv, NameOK, SizeOf, Whole

LEMMA OtherStagesStay ==
  ASSUME ReportInv, NEW w \in Checker, NEW n \in Name, OnlyTouches(w, n), NEW v \in Checker \ {w}
  PROVE  StageOK(v)'
<1> SUFFICES ASSUME ~At(v, "idle") PROVE StageOK(v)'
  BY DEF OnlyTouches, StageOK, At
<1> DEFINE m == stage[v].of
<1>1. stage'[v] = stage[v] /\ m # n /\ StageOK(v) /\ m \in Name /\ stage[v].at # "idle"
  BY DEF OnlyTouches, ReportInv, StageOK, At
<1>2. directory'[m] = directory[m] /\ outcome'[m] = outcome[m] /\ (m \in copies' <=> m \in copies)
  BY <1>1 DEF OnlyTouches
<1>3. (Shows(page, m)' => Shows(page, m)) /\ (Shows(summary, m)' => Shows(summary, m))
  BY <1>1 DEF OnlyTouches, Shows
<1>4. SizeOf(m)' = SizeOf(m)
  BY <1>1, <1>2 DEF SizeOf
<1>5. stage[v].at # "drop" => GenerationOK(v)'
  <2>1. stage[v].at # "drop" => GenerationOK(v)
    BY <1>1 DEF StageOK
  <2>2. Whole(m, stage[v].scanned)' <=> Whole(m, stage[v].scanned)
    BY <1>1, <1>2 DEF Whole
  <2> QED
    BY <1>1, <1>2, <1>4, <2>1, <2>2 DEF GenerationOK
<1> QED
  BY <1>1, <1>2, <1>3, <1>5 DEF StageOK

\* A page or a summary of another name says what it said.
LEMMA OtherPagesStay ==
  ASSUME ReportInv, NEW w \in Checker, NEW n \in Name, OnlyTouches(w, n)
  PROVE  /\ ~Shows(page, n)' => ShownOK(page)' /\ PageOK'
         /\ ~Shows(summary, n)' => ShownOK(summary)'
<1>1. page \in Report \cup {NoReport} /\ summary \in Report \cup {NoReport}
  BY DEF ReportInv, ReportTypeOK
<1>2. ASSUME ~Shows(page, n)', page' # NoReport
      PROVE  ShownOK(page)' /\ PageOK'
  <2>1. page' = page /\ page.of \in Name \ {n}
    BY <1>1, <1>2 DEF OnlyTouches, Shows, Report
  <2>2. directory'[page.of] = directory[page.of] /\ outcome'[page.of] = outcome[page.of]
    BY <2>1 DEF OnlyTouches
  <2> QED
    BY <1>2, <2>1, <2>2 DEF ReportInv, ShownOK, PageOK, Whole
<1>3. ASSUME ~Shows(summary, n)', summary' # NoReport
      PROVE  ShownOK(summary)'
  <2>1. summary' = summary /\ summary.of \in Name \ {n}
    BY <1>1, <1>3 DEF OnlyTouches, Shows, Report
  <2>2. outcome'[summary.of] = outcome[summary.of]
    BY <2>1 DEF OnlyTouches
  <2> QED
    BY <1>3, <2>1, <2>2 DEF ReportInv, ShownOK
<1> QED
  BY <1>2, <1>3 DEF ShownOK, PageOK

LEMMA StepKeeps ==
  ASSUME ReportInv, NEW w \in Checker, NEW n \in Name, OnlyTouches(w, n),
         ReportTypeOK', NameOK(n)', StageOK(w)',
         ShownOK(page)', ShownOK(summary)', PageOK'
  PROVE  ReportInv'
<1>1. \A m \in Name : NameOK(m)'
  BY OtherNamesStay
<1>2. \A v \in Checker : StageOK(v)'
  BY OtherStagesStay
<1>3. \A u, v \in Checker : Alone(u, v)'
  BY DEF ReportInv, Alone, OnlyTouches, At
<1> QED
  BY <1>1, <1>2, <1>3 DEF ReportInv

-----------------------------------------------------------------------------
(* The steps of a command.                                                 *)
LEMMA AtWork ==
  ASSUME ReportInv, NEW w \in Checker, ~At(w, "idle")
  PROVE  \E n \in Name :
           /\ n = stage[w].of /\ NameOK(n) /\ StageOK(w) /\ stage[w] \in StageRecord
           /\ directory[n] \in Generation /\ IsFiniteSet(directory[n].archived)
           /\ ~At(w, "drop") => outcome[n] = "running" /\ GenerationOK(w)
           /\ stage[w].at \in RunningSteps => ~Shows(page, n) /\ ~Shows(summary, n)
<1> DEFINE n == stage[w].of
<1>1. StageOK(w) /\ n \in Name /\ stage[w] \in StageRecord /\ directory[n] # NoReport
  BY DEF ReportInv, ReportTypeOK, StageOK, At
<1>2. NameOK(n) /\ directory[n] \in Generation
  BY <1>1 DEF ReportInv, ReportTypeOK
<1>3. ~At(w, "drop") => outcome[n] = "running" /\ GenerationOK(w)
  BY <1>1 DEF StageOK, At
<1>4. stage[w].at \in RunningSteps => ~Shows(page, n) /\ ~Shows(summary, n)
  BY <1>1 DEF StageOK, At
<1> HIDE DEF n
<1>5. IsFiniteSet(directory[n].archived)
  BY <1>1, <1>2 DEF NameOK
<1> QED
  BY <1>1, <1>2, <1>3, <1>4, <1>5 DEF n

\* What a step changes, but for the page, belongs to the command.
Moves(w, n) ==
  /\ \A v \in Checker \ {w} : stage'[v] = stage[v]
  /\ stage'[w].at = "idle" \/ stage'[w].of = n
  /\ \A m \in Name \ {n} : directory'[m] = directory[m] /\ outcome'[m] = outcome[m]
  /\ copies' = copies \/ copies' = copies \cup {n} \/ copies' = copies \ {n}
  /\ troubles'["command"] = troubles["command"]

LEMMA MovesTouch ==
  ASSUME ReportInv, NEW w \in Checker, ~At(w, "idle"), NEW n, n = stage[w].of, Moves(w, n),
         page' \in {page, NoReport} \/ page'.of = n, summary' \in {summary,
            NoReport} \/ summary'.of = n
  PROVE  OnlyTouches(w, n)
<1>1. n \in Name
  BY AtWork
<1>2. ASSUME NEW v \in Checker \ {w} PROVE At(v, "idle") \/ stage[v].of # n
  BY DEF ReportInv, Alone
<1>3. \A m \in Name \ {n} : m \in copies' <=> m \in copies
  BY DEF Moves
<1>4. Started' = Started
  BY DEF Started, Moves
<1> QED
  BY <1>2, <1>3, <1>4 DEF OnlyTouches, Moves

\* A step before the replacement: nothing shows the name yet.
LEMMA RunningStep ==
  ASSUME ReportInv, NEW w \in Checker, stage[w].at \in RunningSteps, NEW n, n = stage[w].of,
         Moves(w, n), page' = page, summary' = summary, ReportTypeOK', NameOK(n)', StageOK(w)'
  PROVE  ReportInv'
<1>1. ~At(w, "idle")
  BY DEF At, RunningSteps
<1>2. n \in Name /\ ~Shows(page, n)' /\ ~Shows(summary, n)'
  BY <1>1, AtWork DEF Shows
<1>3. OnlyTouches(w, n)
  BY <1>1, MovesTouch
<1> QED
  BY <1>2, <1>3, OtherPagesStay, StepKeeps

LEMMA StageFields ==
  ASSUME NEW s \in [Checker -> StageRecord], NEW w \in Checker
  PROVE  /\ \A at \in Steps : [s EXCEPT ![w].at = at] \in [Checker -> StageRecord]
         /\ \A k \in Nat : [s EXCEPT ![w].used = k] \in [Checker -> StageRecord]
         /\ \A k \in Nat : [s EXCEPT ![w].next = k] \in [Checker -> StageRecord]
         /\ \A b \in Body : [s EXCEPT ![w].copied = b] \in [Checker -> StageRecord]
         /\ \A bs \in SUBSET Body : [s EXCEPT ![w].scanned = bs] \in [Checker -> StageRecord]
  BY DEF StageRecord

LEMMA CopyInputOK == ASSUME ReportInv, NEW w \in Checker, CopyInput(w) PROVE ReportInv'
<1>1. At(w, "copy") /\ ~At(w, "idle") /\ ~At(w, "drop") /\ stage[w].at \in RunningSteps
  BY DEF CopyInput, At, RunningSteps
<1>2. PICK n \in Name :
        /\ n = stage[w].of /\ NameOK(n) /\ StageOK(w) /\ stage[w] \in StageRecord
        /\ directory[n] \in Generation /\ IsFiniteSet(directory[n].archived)
        /\ outcome[n] = "running" /\ GenerationOK(w)
        /\ ~Shows(page, n) /\ ~Shows(summary, n)
  BY <1>1, AtWork
<1> DEFINE g == directory[n]
<1>3. PICK b \in Body :
        /\ stage[w].used + Size[b] <= DiskLimit
        /\ directory' = [directory EXCEPT ![n].archived = @ \cup {b}]
        /\ stage' = [stage EXCEPT ![w].next = @ + 1,
                       ![w].at = IF b \in g.archived THEN "copy" ELSE "scan",
                       ![w].copied = b,
                       ![w].used = IF b \in g.archived THEN @ ELSE @ + Size[b]]
  BY <1>2 DEF CopyInput, Charged, Own
<1>4. /\ page' = page /\ summary' = summary /\ copies' = copies /\ cancelFile' = cancelFile
      /\ outcome' = outcome /\ troubles' = troubles
  BY DEF CopyInput
<1> DEFINE h == [g EXCEPT !.archived = @ \cup {b}]
           fresh == b \notin g.archived
<1>5. stage \in [Checker -> StageRecord] /\ directory \in [Name -> Generation \cup {NoReport}]
  BY DEF ReportInv, ReportTypeOK
<1>6. /\ h \in Generation /\ h # NoReport /\ h.archived = g.archived \cup {b}
      /\ h.files = g.files /\ directory' = [directory EXCEPT ![n] = h]
  BY <1>2, <1>3, <1>5, NoReportAssumption DEF Generation
<1>7. /\ stage'[w].of = n /\ stage'[w].copied = b /\ stage'[w].scanned = stage[w].scanned
      /\ stage'[w].at = IF fresh THEN "scan" ELSE "copy"
      /\ stage'[w].used = IF fresh THEN stage[w].used + Size[b] ELSE stage[w].used
      /\ \A v \in Checker \ {w} : stage'[v] = stage[v]
  BY <1>2, <1>3, <1>5 DEF StageRecord
<1>8. stage' \in [Checker -> StageRecord]
  <2>1. Size[b] \in Nat /\ {"copy", "scan"} \subseteq Steps
    BY ReportAssumption DEF Steps, RunningSteps
  <2> DEFINE at == IF b \in g.archived THEN "copy" ELSE "scan"
             used == IF b \in g.archived THEN stage[w].used ELSE stage[w].used + Size[b]
             s1 == [stage EXCEPT ![w].next = stage[w].next + 1]
             s2 == [s1 EXCEPT ![w].at = at]
             s3 == [s2 EXCEPT ![w].copied = b]
             s4 == [s3 EXCEPT ![w].used = used]
  <2>2. at \in Steps /\ used \in Nat /\ stage[w].next + 1 \in Nat
    BY <1>5, <2>1 DEF StageRecord
  <2>3. s1 \in [Checker -> StageRecord]
    BY <1>5, <2>2, StageFields
  <2>4. s2 \in [Checker -> StageRecord]
    BY <2>2, <2>3, StageFields
  <2>5. s3 \in [Checker -> StageRecord]
    BY <2>4, StageFields
  <2>6. s4 \in [Checker -> StageRecord]
    BY <2>2, <2>5, StageFields
  <2>7. stage' = s4
    BY <1>3, <1>5 DEF StageRecord
  <2> QED
    BY <2>6, <2>7
<1>a. ReportTypeOK' /\ directory'[n] = h /\ Moves(w, n)
  BY <1>2, <1>4, <1>5, <1>6, <1>7, <1>8 DEF ReportInv, ReportTypeOK, Moves
<1>9. /\ IsFiniteSet(h.archived)
      /\ SizeOf(n)' = IF fresh THEN SizeOf(n) + Size[b] ELSE SizeOf(n)
      /\ SizeOf(n) \in Nat /\ Size[b] \in Nat
  <2> DEFINE total(t) == SumFunctionOnSet(Size, t)
             files == Cardinality(g.files)
  <2>1. files \in Nat /\ total(g.archived) \in Nat /\ g # NoReport /\ Size[b] \in Nat
    BY <1>2, SizeIsSum, NoReportAssumption, ReportAssumption
  <2>2. fresh => IsFiniteSet(g.archived \cup {b})
          /\ total(g.archived \cup {b}) = total(g.archived) + Size[b]
    BY <1>2, SizeGrows
  <2>3. ~fresh => g.archived \cup {b} = g.archived
    OBVIOUS
  <2>4. SizeOf(n) = files + total(g.archived)
    BY <2>1 DEF SizeOf
  <2>5. SizeOf(n)' = files + total(g.archived \cup {b})
    BY <1>6, <1>a DEF SizeOf
  <2> HIDE DEF total, files, fresh, h
  <2>6. fresh => files + total(g.archived \cup {b}) = (files + total(g.archived)) + Size[b]
    BY <2>1, <2>2
  <2>7. ~fresh => files + total(g.archived \cup {b}) = files + total(g.archived)
    BY <2>3
  <2>8. IsFiniteSet(g.archived \cup {b})
    BY <1>2, <2>2, <2>3
  <2>9. files + total(g.archived) \in Nat
    BY <2>1
  <2> QED
    BY <1>6, <2>1, <2>4, <2>5, <2>6, <2>7, <2>8, <2>9
<1> HIDE DEF h, fresh
<1>10. n \notin copies /\ stage[w].used = SizeOf(n) /\ stage[w].used <= DiskLimit
  BY <1>1, <1>2, <1>9 DEF GenerationOK, At
<1>11. SizeOf(n)' <= DiskLimit /\ stage'[w].used = SizeOf(n)'
  BY <1>3, <1>7, <1>9, <1>10
<1>12. NameOK(n)'
  <2>1. Cardinality(copies \cap {n}) = 0 /\ Started' = Started
    BY <1>4, <1>10, CopiesCount DEF Started
  <2>2. SizeOf(n)' + 0 <= DiskLimit
    BY <1>9, <1>11, ReportAssumption
  <2> QED
    BY <1>2, <1>4, <1>6, <1>7, <1>a, <1>9, <2>1, <2>2 DEF NameOK
<1>13. StageOK(w)'
  <2>1. directory'[n].archived = IF fresh THEN stage[w].scanned \cup {b} ELSE stage[w].scanned
    BY <1>1, <1>2, <1>6, <1>7, <1>a, ZenonT(40) DEF GenerationOK, At, fresh
  <2>2. directory'[n].files = FilesAfter[1]
    BY <1>1, <1>2, <1>6, <1>7, <1>a DEF GenerationOK, At
  <2>3. stage'[w].used = SizeOf(n)' + 0
    BY <1>9, <1>11
  <2>4. GenerationOK(w)'
    BY <1>4, <1>5, <1>6, <1>7, <1>a, <1>10, <1>11, <2>1, <2>2, <2>3 DEF GenerationOK
  <2> QED
    BY <1>2, <1>4, <1>6, <1>7, <1>a, <2>4 DEF StageOK, Shows, RunningSteps
<1> QED
  BY <1>1, <1>2, <1>4, <1>a, <1>12, <1>13, RunningStep

\* The generation is as it was.
LEMMA SameSize ==
  ASSUME NEW n, directory'[n] = directory[n]
  PROVE  SizeOf(n)' = SizeOf(n) /\ \A says : Whole(n, says)' <=> Whole(n, says)
<1>1. SizeOf(n)' = SizeOf(n)
  BY DEF SizeOf
<1>2. ASSUME NEW says PROVE Whole(n, says)' <=> Whole(n, says)
  BY DEF Whole
<1> QED
  BY <1>1, <1>2

LEMMA SameNameOK ==
  ASSUME NEW n, NameOK(n), directory'[n] = directory[n], outcome' = outcome, copies' = copies,
         troubles' = troubles
  PROVE  NameOK(n)'
<1>1. SizeOf(n)' = SizeOf(n)
        /\ (Whole(n, directory[n].archived)' <=> Whole(n, directory[n].archived))
  BY SameSize DEF Whole
<1> QED
  BY <1>1 DEF NameOK, Started

LEMMA ScanArchivedOK == ASSUME ReportInv, NEW w \in Checker, ScanArchived(w) PROVE ReportInv'
<1>1. At(w, "scan") /\ ~At(w, "idle") /\ ~At(w, "drop") /\ stage[w].at \in RunningSteps
  BY DEF ScanArchived, At, RunningSteps
<1>2. PICK n \in Name :
        /\ n = stage[w].of /\ NameOK(n) /\ StageOK(w) /\ stage[w] \in StageRecord
        /\ directory[n] \in Generation /\ outcome[n] = "running" /\ GenerationOK(w)
        /\ ~Shows(page, n) /\ ~Shows(summary, n)
  BY <1>1, AtWork
<1>3. stage[w].copied \in Body /\ directory[n].archived = stage[w].scanned \cup {stage[w].copied}
  BY <1>1, <1>2 DEF GenerationOK, At
<1>4. /\ page' = page /\ summary' = summary /\ copies' = copies /\ cancelFile' = cancelFile
      /\ outcome' = outcome /\ troubles' = troubles /\ directory' = directory
      /\ stage' = [stage EXCEPT ![w].at = "copy", ![w].scanned = @ \cup {stage[w].copied}]
  BY DEF ScanArchived
<1>5. stage \in [Checker -> StageRecord]
  BY DEF ReportInv, ReportTypeOK
<1>6. /\ stage'[w].of = n /\ stage'[w].scanned = directory[n].archived /\ stage'[w].at = "copy"
      /\ stage'[w].used = stage[w].used
      /\ \A v \in Checker \ {w} : stage'[v] = stage[v]
  BY <1>2, <1>3, <1>4, <1>5 DEF StageRecord
<1>7. stage' \in [Checker -> StageRecord]
  <2> DEFINE s1 == [stage EXCEPT ![w].at = "copy"]
  <2>1. s1 \in [Checker -> StageRecord]
    BY <1>5, StageFields DEF Steps, RunningSteps
  <2>2. stage[w].scanned \cup {stage[w].copied} \in SUBSET Body
    BY <1>2, <1>3 DEF StageRecord
  <2>3. stage' = [s1 EXCEPT ![w].scanned = stage[w].scanned \cup {stage[w].copied}]
    BY <1>4, <1>5 DEF StageRecord
  <2> QED
    BY <2>1, <2>2, <2>3, StageFields
<1>8. ReportTypeOK' /\ Moves(w, n)
  BY <1>4, <1>6, <1>7 DEF ReportInv, ReportTypeOK, Moves
<1>9. NameOK(n)' /\ SizeOf(n)' = SizeOf(n)
  BY <1>2, <1>4, SameNameOK, SameSize
<1>10. StageOK(w)'
  <2>1. GenerationOK(w)'
    BY <1>1, <1>2, <1>4, <1>6, <1>9 DEF GenerationOK, At
  <2> QED
    BY <1>2, <1>4, <1>6, <2>1, NoReportAssumption DEF StageOK, Shows, RunningSteps
<1> QED
  BY <1>1, <1>2, <1>4, <1>8, <1>9, <1>10, RunningStep

LEMMA FinishEvidenceOK == ASSUME ReportInv, NEW w \in Checker, FinishEvidence(w) PROVE ReportInv'
<1>1. At(w, "copy") /\ ~At(w, "idle") /\ ~At(w, "drop") /\ stage[w].at \in RunningSteps
  BY DEF FinishEvidence, At, RunningSteps
<1>2. PICK n \in Name :
        /\ n = stage[w].of /\ NameOK(n) /\ StageOK(w) /\ stage[w] \in StageRecord
        /\ directory[n] \in Generation /\ outcome[n] = "running" /\ GenerationOK(w)
        /\ ~Shows(page, n) /\ ~Shows(summary, n)
  BY <1>1, AtWork
<1> DEFINE at == IF stage[w].mode = "html" THEN "write" ELSE "publish"
<1>3. /\ page' = page /\ summary' = summary /\ copies' = copies /\ cancelFile' = cancelFile
      /\ outcome' = outcome /\ troubles' = troubles /\ directory' = directory
      /\ stage' = [stage EXCEPT ![w].at = at]
  BY DEF FinishEvidence, Step
<1>4. stage \in [Checker -> StageRecord]
  BY DEF ReportInv, ReportTypeOK
<1>5. /\ stage'[w].of = n /\ stage'[w].scanned = stage[w].scanned /\ stage'[w].at = at
      /\ stage'[w].used = stage[w].used /\ stage'[w].mode = stage[w].mode
      /\ \A v \in Checker \ {w} : stage'[v] = stage[v]
  BY <1>2, <1>3, <1>4 DEF StageRecord
<1>6. stage' \in [Checker -> StageRecord]
  BY <1>3, <1>4, StageFields DEF Steps, RunningSteps
<1>7. ReportTypeOK' /\ Moves(w, n)
  BY <1>2, <1>3, <1>5, <1>6 DEF ReportInv, ReportTypeOK, Moves
<1>8. NameOK(n)' /\ SizeOf(n)' = SizeOf(n)
  BY <1>2, <1>3, SameNameOK, SameSize
<1>9. StageOK(w)'
  <2>1. GenerationOK(w)'
    BY <1>1, <1>2, <1>3, <1>5, <1>8 DEF GenerationOK, At
  <2> QED
    BY <1>2, <1>3, <1>5, <2>1, NoReportAssumption DEF StageOK, Shows, RunningSteps
<1> QED
  BY <1>1, <1>2, <1>3, <1>7, <1>8, <1>9, RunningStep

LEMMA StageCopyOK == ASSUME ReportInv, NEW w \in Checker, StageCopy(w) PROVE ReportInv'
<1>1. At(w, "publish") /\ ~At(w, "idle") /\ ~At(w, "drop") /\ stage[w].at \in RunningSteps
  BY DEF StageCopy, At, RunningSteps
<1>2. PICK n \in Name :
        /\ n = stage[w].of /\ NameOK(n) /\ StageOK(w) /\ stage[w] \in StageRecord
        /\ directory[n] \in Generation /\ IsFiniteSet(directory[n].archived)
        /\ outcome[n] = "running" /\ GenerationOK(w)
        /\ ~Shows(page, n) /\ ~Shows(summary, n)
  BY <1>1, AtWork
<1>3. /\ page' = page /\ summary' = summary /\ copies' = copies \cup {n} /\ cancelFile' = cancelFile
      /\ outcome' = outcome /\ troubles' = troubles /\ directory' = directory
      /\ stage[w].used + 1 <= DiskLimit
      /\ stage' = [stage EXCEPT ![w].used = @ + 1, ![w].at = "replace"]
  BY <1>2 DEF StageCopy, Charged
<1>4. stage \in [Checker -> StageRecord]
  BY DEF ReportInv, ReportTypeOK
<1>5. /\ stage'[w].of = n /\ stage'[w].scanned = stage[w].scanned /\ stage'[w].at = "replace"
      /\ stage'[w].used = stage[w].used + 1 /\ stage'[w].mode = stage[w].mode
      /\ \A v \in Checker \ {w} : stage'[v] = stage[v]
  BY <1>2, <1>3, <1>4 DEF StageRecord
<1>6. stage' \in [Checker -> StageRecord]
  <2> DEFINE s1 == [stage EXCEPT ![w].used = stage[w].used + 1]
  <2>1. s1 \in [Checker -> StageRecord]
    BY <1>2, <1>4, StageFields, SMTT(30) DEF StageRecord
  <2>2. stage' = [s1 EXCEPT ![w].at = "replace"]
    BY <1>3, <1>4 DEF StageRecord
  <2> QED
    BY <2>1, <2>2, StageFields DEF Steps, RunningSteps
<1>7. ReportTypeOK' /\ Moves(w, n)
  BY <1>2, <1>3, <1>5, <1>6 DEF ReportInv, ReportTypeOK, Moves
<1>8. SizeOf(n)' = SizeOf(n) /\ \A says : Whole(n, says)' <=> Whole(n, says)
  BY <1>3, SameSize
<1>9. SizeOf(n) \in Nat
  BY <1>2, SizeIsSum DEF SizeOf
<1>10. stage[w].used = SizeOf(n) /\ SizeOf(n) + 1 <= DiskLimit
  BY <1>1, <1>2, <1>3, <1>9 DEF GenerationOK, At
<1>11. NameOK(n)'
  <2>1. (Cardinality(copies \cap {n}) = 1)'
    BY <1>3, FS_Singleton
  <2> QED
    BY <1>2, <1>3, <1>8, <1>10, <2>1 DEF NameOK, Started
<1>12. StageOK(w)'
  <2>1. stage'[w].used = SizeOf(n)' + 1 /\ stage'[w].used <= DiskLimit
    BY <1>5, <1>8, <1>10
  <2>2. GenerationOK(w)'
    BY <1>1, <1>2, <1>3, <1>5, <1>8, <2>1, SMTT(30) DEF GenerationOK, At
  <2> QED
    BY <1>2, <1>3, <1>5, <2>2, NoReportAssumption DEF StageOK, Shows, RunningSteps
<1> QED
  BY <1>1, <1>2, <1>3, <1>7, <1>11, <1>12, RunningStep

LEMMA WritePartOK == ASSUME ReportInv, NEW w \in Checker, WritePart(w) PROVE ReportInv'
<1>1. At(w, "write") /\ ~At(w, "idle") /\ ~At(w, "drop") /\ stage[w].at \in RunningSteps
  BY DEF WritePart, At, RunningSteps
<1>2. PICK n \in Name :
        /\ n = stage[w].of /\ NameOK(n) /\ StageOK(w) /\ stage[w] \in StageRecord
        /\ directory[n] \in Generation /\ IsFiniteSet(directory[n].archived)
        /\ outcome[n] = "running" /\ GenerationOK(w)
        /\ ~Shows(page, n) /\ ~Shows(summary, n)
  BY <1>1, AtWork
<1> DEFINE g == directory[n]
<1>3. PICK k \in 1..4 : g.files = FilesAfter[k]
  BY <1>1, <1>2 DEF GenerationOK, At
<1>4. /\ Cardinality(g.files) = k /\ Parts[k] \notin g.files
      /\ g.files \cup {Parts[k]} = IF k = 4 THEN Files ELSE FilesAfter[k + 1]
      /\ IsFiniteSet(g.files) /\ Parts[k] \in Files
      /\ Parts[k] = "manifest" <=> k = 4
  BY <1>3, FilesCount DEF Parts, Files
<1> DEFINE files == g.files \cup {Parts[k]}
           listed == IF k = 4 THEN g.files \cup g.archived ELSE g.listed
           h == [g EXCEPT !.files = files, !.listed = listed]
<1>5. /\ page' = page /\ summary' = summary /\ copies' = copies /\ cancelFile' = cancelFile
      /\ outcome' = outcome /\ troubles' = troubles
  BY DEF WritePart
<1>6. /\ directory' = [directory EXCEPT ![n].files = @ \cup {Parts[k]},
                         ![n].listed = IF Parts[k] = "manifest" THEN g.files \cup g.archived ELSE @]
      /\ stage' = [stage EXCEPT ![w].used = @ + 1,
                     ![w].at = IF Parts[k] = "manifest" THEN "publish" ELSE @]
      /\ stage[w].used + 1 <= DiskLimit
  BY <1>2, <1>4 DEF WritePart, Charged, Own
<1>7. stage \in [Checker -> StageRecord] /\ directory \in [Name -> Generation \cup {NoReport}]
  BY DEF ReportInv, ReportTypeOK
<1>8. /\ h \in Generation /\ h.archived = g.archived /\ h.files = files /\ h.listed = listed
      /\ directory' = [directory EXCEPT ![n] = h]
  <2>1. files \subseteq Files /\ listed \subseteq Files \cup Body
    BY <1>2, <1>4 DEF Generation
  <2> HIDE DEF files, listed
  <2>2. h \in Generation /\ h.archived = g.archived /\ h.files = files /\ h.listed = listed
    BY <1>2, <2>1 DEF Generation
  <2>3. directory' = [directory EXCEPT ![n] = h]
    BY <1>2, <1>4, <1>6, <1>7 DEF files, listed, Generation
  <2> QED
    BY <2>2, <2>3
<1>9. /\ stage'[w].of = n /\ stage'[w].scanned = stage[w].scanned
      /\ stage'[w].at = IF k = 4 THEN "publish" ELSE "write"
      /\ stage'[w].used = stage[w].used + 1 /\ stage'[w].mode = stage[w].mode
      /\ \A v \in Checker \ {w} : stage'[v] = stage[v]
  BY <1>1, <1>2, <1>4, <1>6, <1>7 DEF StageRecord, At
<1>10. stage' \in [Checker -> StageRecord]
  <2> DEFINE s1 == [stage EXCEPT ![w].used = stage[w].used + 1]
             at == IF k = 4 THEN "publish" ELSE "write"
  <2>1. s1 \in [Checker -> StageRecord]
    BY <1>2, <1>7, StageFields, SMTT(30) DEF StageRecord
  <2>2. stage' = [s1 EXCEPT ![w].at = at]
    BY <1>1, <1>4, <1>6, <1>7 DEF StageRecord, At
  <2>3. at \in Steps
    BY DEF Steps, RunningSteps
  <2> HIDE DEF s1, at
  <2> QED
    BY <2>1, <2>2, <2>3, StageFields
<1> HIDE DEF h
<1>11. directory'[n] = h /\ h # NoReport
  BY <1>2, <1>7, <1>8, NoReportAssumption
<1>12. ReportTypeOK' /\ Moves(w, n)
  BY <1>2, <1>5, <1>7, <1>8, <1>9, <1>10, <1>11 DEF ReportInv, ReportTypeOK, Moves
<1>13. /\ SizeOf(n) \in Nat /\ SizeOf(n)' = SizeOf(n) + 1
       /\ stage[w].used = SizeOf(n) /\ n \notin copies
  <2> DEFINE total == SumFunctionOnSet(Size, g.archived)
             old == Cardinality(g.files)
  <2>1. total \in Nat /\ old \in Nat /\ Cardinality(files) = old + 1
    BY <1>2, <1>4, SizeIsSum, FS_AddElement
  <2>2. SizeOf(n) = old + total /\ SizeOf(n)' = Cardinality(files) + total
    BY <1>2, <1>8, <1>11, NoReportAssumption DEF SizeOf
  <2> HIDE DEF total, old, files
  <2>3. SizeOf(n) \in Nat /\ SizeOf(n)' = SizeOf(n) + 1
    BY <2>1, <2>2
  <2> QED
    BY <1>1, <1>2, <2>3 DEF GenerationOK, At
<1>14. NameOK(n)'
  <2>1. Cardinality(copies \cap {n}) = 0
    BY <1>13, CopiesCount
  <2>2. SizeOf(n)' + 0 <= DiskLimit
    BY <1>6, <1>13
  <2> QED
    BY <1>2, <1>5, <1>8, <1>11, <2>1, <2>2 DEF NameOK, Started
<1>15. StageOK(w)'
  <2>1. h.archived = stage[w].scanned
    BY <1>1, <1>2, <1>8 DEF GenerationOK, At
  <2>2. k = 4 => Whole(n, stage[w].scanned)'
    <3>1. k = 4 => listed = (Files \ {"manifest"}) \cup g.archived
      BY <1>4
    <3> QED
      BY <1>4, <1>8, <1>9, <1>11, <2>1, <3>1, ZenonT(40) DEF Whole
  <2>3. k # 4 => \E j \in 1..4 : h.files = FilesAfter[j]
    BY <1>4, <1>8
  <2>4. stage'[w].used = SizeOf(n)' + 0 /\ stage'[w].used <= DiskLimit
    BY <1>6, <1>9, <1>13
  <2>5. GenerationOK(w)'
    BY <1>5, <1>9, <1>11, <1>13, <2>1, <2>2, <2>3, <2>4 DEF GenerationOK
  <2> QED
    BY <1>2, <1>5, <1>9, <1>11, <2>5 DEF StageOK, Shows, RunningSteps
<1> QED
  BY <1>1, <1>2, <1>5, <1>12, <1>14, <1>15, RunningStep

\* Leaving a name as it is, perhaps without its copy.
LEMMA LeftNameOK ==
  ASSUME NEW n, NameOK(n), SizeOf(n) \in Nat, outcome[n] # "none", directory'[n] = directory[n],
         outcome'[n] \in Outcomes \ {"none", "published"}, n \in copies' => n \in copies,
         Started' = Started
  PROVE  NameOK(n)'
<1>1. SizeOf(n)' = SizeOf(n)
  BY SameSize
<1>2. CASE n \in copies'
  <2>1. Cardinality(copies \cap {n}) = 1 /\ Cardinality(copies \cap {n})' = 1
    <3>1. copies \cap {n} = {n} /\ copies' \cap {n} = {n}
      BY <1>2
    <3> QED
      BY <3>1, FS_Singleton
  <2> QED
    BY <1>1, <2>1 DEF NameOK, Outcomes
<1>3. CASE n \notin copies'
  <2>1. Cardinality(copies \cap {n})' = 0
    <3>1. copies' \cap {n} = {}
      BY <1>3
    <3> QED
      BY <3>1, FS_EmptySet
  <2>2. Cardinality(copies \cap {n}) \in {0, 1}
    BY CopiesCount
  <2>3. SizeOf(n)' + 0 <= DiskLimit
    BY <1>1, <2>2, ReportAssumption DEF NameOK
  <2> QED
    BY <2>1, <2>3 DEF NameOK, Outcomes
<1> QED
  BY <1>2, <1>3

\* A page that says n says the same of it, and the outcome of n is still no failure.
LEMMA KeptPages ==
  ASSUME ReportInv, NEW w \in Checker, NEW n \in Name, OnlyTouches(w, n),
         page' = page, summary' = summary, directory'[n] = directory[n],
         outcome'[n] \notin {"none", "failed"}, outcome[n] # "unsynced"
  PROVE  ShownOK(page)' /\ ShownOK(summary)' /\ PageOK'
<1>1. CASE Shows(page, n)
  <2>1. Whole(n, page.says) /\ page.of = n
    BY <1>1 DEF ReportInv, PageOK, Shows
  <2>2. Whole(n, page.says)'
    BY <2>1 DEF Whole
  <2> QED
    BY <2>1, <2>2, OtherPagesStay DEF ShownOK, PageOK, Shows
<1>2. CASE ~Shows(page, n)
  BY <1>2, OtherPagesStay DEF ShownOK, Shows
<1> QED
  BY <1>1, <1>2

LEMMA ReplaceOutputOK == ASSUME ReportInv, NEW w \in Checker, ReplaceOutput(w) PROVE ReportInv'
<1>1. At(w, "replace") /\ ~At(w, "idle") /\ ~At(w, "drop") /\ stage[w].at \in RunningSteps
  BY DEF ReplaceOutput, At, RunningSteps
<1>2. PICK n \in Name :
        /\ n = stage[w].of /\ NameOK(n) /\ StageOK(w) /\ stage[w] \in StageRecord
        /\ directory[n] \in Generation /\ IsFiniteSet(directory[n].archived)
        /\ outcome[n] = "running" /\ GenerationOK(w)
        /\ ~Shows(page, n) /\ ~Shows(summary, n)
  BY <1>1, AtWork
<1> DEFINE html == stage[w].mode = "html"
           written == [of |-> n, says |-> stage[w].scanned]
<1>3. /\ page' = IF html THEN written ELSE page
      /\ summary' = IF html THEN summary ELSE written
      /\ copies' = copies \ {n} /\ cancelFile' = cancelFile
      /\ outcome' = outcome /\ troubles' = troubles /\ directory' = directory
      /\ stage' = [stage EXCEPT ![w].at = "sync"]
  BY <1>2 DEF ReplaceOutput, Step, Written
<1>4. stage \in [Checker -> StageRecord]
  BY DEF ReportInv, ReportTypeOK
<1>5. /\ stage'[w].of = n /\ stage'[w].scanned = stage[w].scanned /\ stage'[w].at = "sync"
      /\ stage'[w].used = stage[w].used /\ stage'[w].mode = stage[w].mode
      /\ \A v \in Checker \ {w} : stage'[v] = stage[v]
  BY <1>2, <1>3, <1>4 DEF StageRecord
<1>6. stage' \in [Checker -> StageRecord]
  BY <1>3, <1>4, StageFields DEF Steps
<1>7. written \in Report /\ written.of = n /\ written.says = stage[w].scanned
  BY <1>2 DEF StageRecord, Report
<1> HIDE DEF written
<1>8. ReportTypeOK' /\ Moves(w, n)
  BY <1>2, <1>3, <1>5, <1>6, <1>7 DEF ReportInv, ReportTypeOK, Moves
<1>9. OnlyTouches(w, n)
  BY <1>1, <1>2, <1>3, <1>7, <1>8, MovesTouch DEF Shows
<1>10. SizeOf(n)' = SizeOf(n) /\ \A says : Whole(n, says)' <=> Whole(n, says)
  BY <1>3, SameSize
<1>11. NameOK(n)'
  BY <1>2, <1>3, SizeIsNat, LeftNameOK DEF Started, Outcomes
<1>12. html => Whole(n, stage[w].scanned)
  BY <1>1, <1>2 DEF GenerationOK, At
<1>13. StageOK(w)'
  <2>1. GenerationOK(w)'
    BY <1>1, <1>2, <1>3, <1>5, <1>10, <1>12 DEF GenerationOK, At
  <2>2. ~html => ~Shows(page, n)'
    BY <1>2, <1>3 DEF Shows
  <2> QED
    BY <1>2, <1>3, <1>5, <2>1, <2>2, NoReportAssumption DEF StageOK, RunningSteps
<1>14. ShownOK(page)' /\ PageOK'
  <2>1. CASE html
    BY <1>2, <1>3, <1>7, <1>10, <1>12, <2>1 DEF ShownOK, PageOK
  <2>2. CASE ~html
    BY <1>2, <1>3, <1>9, <2>2, OtherPagesStay DEF Shows
  <2> QED
    BY <2>1, <2>2
<1>15. ShownOK(summary)'
  <2>1. CASE ~html
    BY <1>2, <1>3, <1>7, <2>1 DEF ShownOK
  <2>2. CASE html
    BY <1>2, <1>3, <1>9, <2>2, OtherPagesStay DEF Shows
  <2> QED
    BY <2>1, <2>2
<1> QED
  BY <1>8, <1>9, <1>11, <1>13, <1>14, <1>15, StepKeeps

LEMMA NoStageOK == NoStage \in StageRecord /\ NoStage.at = "idle"
  BY DEF NoStage, StageRecord, Steps

\* A command ends, or goes on to remove its generation, which is still there.
LEMMA GivesUp ==
  ASSUME ReportInv, NEW w \in Checker, ~At(w, "idle"), ~At(w, "drop"), NEW n, n = stage[w].of,
         \/ stage' = [stage EXCEPT ![w] = NoStage] /\ outcome' = [outcome EXCEPT ![n] = "killed"]
         \/ /\ stage' = [stage EXCEPT ![w].at = "drop"]
            /\ outcome' = [outcome EXCEPT ![n] = IF At(w, "sync") THEN "unsynced" ELSE "failed"],
         directory' = directory, page' = page, summary' = summary, cancelFile' \in BOOLEAN,
         copies' = copies \/ copies' = copies \ {n},
         troubles' \in [ReportKeys -> Nat], troubles'["command"] = troubles["command"]
  PROVE  ReportInv'
<1>1. /\ n \in Name /\ NameOK(n) /\ StageOK(w) /\ stage[w] \in StageRecord /\ outcome[n] = "running"
      /\ directory[n] \in Generation
      /\ stage[w].at \in RunningSteps => ~Shows(page, n) /\ ~Shows(summary, n)
  BY AtWork
<1>2. stage \in [Checker -> StageRecord] /\ outcome \in [Name -> Outcomes]
  BY DEF ReportInv, ReportTypeOK
<1>3. /\ stage' \in [Checker -> StageRecord] /\ \A v \in Checker \ {w} : stage'[v] = stage[v]
      /\ stage'[w].at = "idle" \/ (stage'[w].at = "drop" /\ stage'[w].of = n)
  <2>1. CASE stage' = [stage EXCEPT ![w] = NoStage]
    BY <1>2, <2>1, NoStageOK
  <2>2. CASE stage' = [stage EXCEPT ![w].at = "drop"]
    <3>1. stage' \in [Checker -> StageRecord]
      BY <1>2, <2>2, StageFields DEF Steps
    <3> QED
      BY <1>1, <1>2, <2>2, <3>1 DEF StageRecord
  <2> QED
    BY <2>1, <2>2
<1>4. /\ outcome' \in [Name -> Outcomes] /\ \A m \in Name \ {n} : outcome'[m] = outcome[m]
      /\ outcome'[n] \in {"killed", "unsynced", "failed"}
      /\ outcome'[n] = "failed" => ~At(w, "sync")
      /\ stage'[w].at = "drop" => outcome'[n] # "killed"
  <2>1. CASE outcome' = [outcome EXCEPT ![n] = "killed"] /\ stage' = [stage EXCEPT ![w] = NoStage]
    BY <1>1, <1>2, <2>1, NoStageOK DEF Outcomes
  <2>2. CASE outcome' = [outcome EXCEPT ![n] = IF At(w, "sync") THEN "unsynced" ELSE "failed"]
    BY <1>1, <1>2, <2>2 DEF Outcomes
  <2> QED
    BY <2>1, <2>2
<1>5. ReportTypeOK' /\ Moves(w, n)
  BY <1>3, <1>4 DEF ReportInv, ReportTypeOK, Moves
<1>6. OnlyTouches(w, n)
  BY <1>5, MovesTouch
<1>7. NameOK(n)'
  BY <1>1, <1>4, SizeIsNat, LeftNameOK DEF Started, Outcomes
<1>8. At(w, "sync") \/ stage[w].at \in RunningSteps
  BY <1>1 DEF StageRecord, Steps, At
<1>9. StageOK(w)'
  <2>1. CASE stage'[w].at = "idle"
    BY <2>1 DEF StageOK
  <2>2. CASE stage'[w].at = "drop"
    <3>1. outcome'[n] # "unsynced" => ~Shows(page, n)
      BY <1>1, <1>4, <1>8, <2>2
    <3> QED
      BY <1>1, <1>3, <1>4, <2>2, <3>1, NoReportAssumption DEF StageOK, Shows, RunningSteps
  <2> QED
    BY <1>3, <2>1, <2>2
<1>10. ShownOK(page)' /\ ShownOK(summary)' /\ PageOK'
  <2>1. CASE At(w, "sync")
    <3>1. outcome'[n] \notin {"none", "failed"} /\ outcome[n] # "unsynced"
      BY <1>1, <1>4, <2>1
    <3> QED
      BY <1>1, <1>6, <3>1, KeptPages
  <2>2. CASE stage[w].at \in RunningSteps
    BY <1>1, <1>6, <2>2, OtherPagesStay DEF Shows
  <2> QED
    BY <1>8, <2>1, <2>2
<1> QED
  BY <1>1, <1>5, <1>6, <1>7, <1>9, <1>10, StepKeeps

LEMMA TakeOK ==
  ASSUME ReportInv, NEW key \in ReportKeys, Take(key)
  PROVE  /\ troubles' \in [ReportKeys -> Nat]
         /\ key # "command" => troubles'["command"] = troubles["command"]
  BY DEF Take, ReportInv, ReportTypeOK, ReportKeys

LEMMA CommandFailsOK == ASSUME ReportInv, NEW w \in Checker, CommandFails(w) PROVE ReportInv'
<1>1. troubles' \in [ReportKeys -> Nat] /\ troubles'["command"] = troubles["command"]
  BY TakeOK DEF CommandFails, ReportKeys
<1>2. cancelFile' \in BOOLEAN
  BY DEF CommandFails, ReportInv, ReportTypeOK
<1> QED
  BY <1>1, <1>2, GivesUp DEF CommandFails, Step

LEMMA CommandStopsOK == ASSUME ReportInv, NEW w \in Checker, CommandStops(w) PROVE ReportInv'
<1>1. ~At(w, "idle") /\ ~At(w, "drop") /\ ~At(w, "sync")
  BY DEF CommandStops, At
<1>2. cancelFile' \in BOOLEAN /\ troubles' \in [ReportKeys -> Nat]
        /\ troubles'["command"] = troubles["command"]
  BY DEF CommandStops, ReportInv, ReportTypeOK
<1>3. outcome' = [outcome EXCEPT ![stage[w].of] = IF At(w, "sync") THEN "unsynced" ELSE "failed"]
  BY <1>1 DEF CommandStops
<1> QED
  BY <1>1, <1>2, <1>3, GivesUp DEF CommandStops, Step

LEMMA SyncDirectoryOK == ASSUME ReportInv, NEW w \in Checker, SyncDirectory(w) PROVE ReportInv'
<1>1. At(w, "sync") /\ ~At(w, "idle") /\ ~At(w, "drop")
  BY DEF SyncDirectory, At
<1>2. PICK n \in Name :
        /\ n = stage[w].of /\ NameOK(n) /\ StageOK(w) /\ stage[w] \in StageRecord
        /\ directory[n] \in Generation /\ outcome[n] = "running" /\ GenerationOK(w)
  BY <1>1, AtWork
<1> DEFINE html == stage[w].mode = "html"
<1>3. /\ page' = page /\ summary' = summary /\ copies' = copies /\ cancelFile' = cancelFile
      /\ troubles' = troubles /\ directory' = directory
      /\ outcome' = [outcome EXCEPT ![n] = IF html THEN "published" ELSE "summarised"]
      /\ stage' = IF html THEN [stage EXCEPT ![w] = NoStage] ELSE [stage EXCEPT ![w].at = "drop"]
  BY <1>2 DEF SyncDirectory, Ended, Step
<1>4. stage \in [Checker -> StageRecord] /\ outcome \in [Name -> Outcomes]
  BY DEF ReportInv, ReportTypeOK
<1>5. stage' \in [Checker -> StageRecord]
  <2>1. CASE html
    BY <1>3, <1>4, <2>1, NoStageOK
  <2>2. CASE ~html
    BY <1>3, <1>4, <2>2, StageFields DEF Steps
  <2> QED
    BY <2>1, <2>2
<1>6. /\ \A v \in Checker \ {w} : stage'[v] = stage[v]
      /\ IF html THEN stage'[w].at = "idle" ELSE stage'[w].at = "drop" /\ stage'[w].of = n
  BY <1>2, <1>3, <1>4, NoStageOK DEF StageRecord
<1>7. /\ outcome' \in [Name -> Outcomes] /\ \A m \in Name \ {n} : outcome'[m] = outcome[m]
      /\ outcome'[n] = IF html THEN "published" ELSE "summarised"
  BY <1>2, <1>3, <1>4 DEF Outcomes
<1>8. ReportTypeOK' /\ Moves(w, n)
  BY <1>2, <1>3, <1>5, <1>6, <1>7 DEF ReportInv, ReportTypeOK, Moves
<1>9. OnlyTouches(w, n)
  BY <1>1, <1>2, <1>3, <1>8, MovesTouch
<1>10. NameOK(n)'
  <2>1. CASE html
    <3>1. Whole(n, directory[n].archived)'
      BY <1>1, <1>2, <1>3, <2>1 DEF GenerationOK, At, Whole
    <3>2. SizeOf(n)' = SizeOf(n)
      BY <1>3, SameSize
    <3> QED
      BY <1>2, <1>3, <1>7, <2>1, <3>1, <3>2 DEF NameOK, Started
  <2>2. CASE ~html
    BY <1>2, <1>3, <1>7, <2>2, SizeIsNat, LeftNameOK DEF Started, Outcomes
  <2> QED
    BY <2>1, <2>2
<1>11. StageOK(w)'
  <2>1. ~html => ~Shows(page, n)
    BY <1>1, <1>2 DEF StageOK, StageRecord, At
  <2> QED
    BY <1>2, <1>3, <1>6, <1>7, <2>1, NoReportAssumption DEF StageOK, Shows, RunningSteps
<1>12. ShownOK(page)' /\ ShownOK(summary)' /\ PageOK'
  <2>1. outcome'[n] \notin {"none", "failed"} /\ outcome[n] # "unsynced"
          /\ directory'[n] = directory[n]
    BY <1>2, <1>3, <1>7
  <2> QED
    BY <1>3, <1>9, <2>1, KeptPages
<1> QED
  BY <1>8, <1>9, <1>10, <1>11, <1>12, StepKeeps

LEMMA DropStageOK == ASSUME ReportInv, NEW w \in Checker, DropStage(w) PROVE ReportInv'
<1>1. At(w, "drop") /\ ~At(w, "idle")
  BY DEF DropStage, At
<1>2. PICK n \in Name : n = stage[w].of /\ NameOK(n) /\ StageOK(w)
  BY <1>1, AtWork
<1>3. /\ page' = page /\ summary' = summary /\ copies' = copies /\ cancelFile' = cancelFile
      /\ troubles' = troubles /\ outcome' = outcome
      /\ directory' = [directory EXCEPT ![n] = NoReport]
      /\ stage' = [stage EXCEPT ![w] = NoStage]
  BY <1>2 DEF DropStage
<1>4. /\ outcome[n] \in {"failed", "unsynced", "summarised"}
      /\ outcome[n] # "unsynced" => ~Shows(page, n)
  BY <1>1, <1>2 DEF StageOK, At
<1>5. /\ stage' \in [Checker -> StageRecord] /\ stage'[w].at = "idle"
      /\ \A v \in Checker \ {w} : stage'[v] = stage[v]
      /\ directory' \in [Name -> Generation \cup {NoReport}] /\ directory'[n] = NoReport
      /\ \A m \in Name \ {n} : directory'[m] = directory[m]
  BY <1>2, <1>3, NoStageOK DEF ReportInv, ReportTypeOK
<1>6. ReportTypeOK' /\ Moves(w, n)
  BY <1>3, <1>5 DEF ReportInv, ReportTypeOK, Moves
<1>7. OnlyTouches(w, n)
  BY <1>1, <1>2, <1>3, <1>6, MovesTouch
<1>8. NameOK(n)'
  <2>1. SizeOf(n)' = 0
    BY <1>5 DEF SizeOf
  <2>2. Cardinality(copies \cap {n})' \in {0, 1}
    BY <1>3, CopiesCount
  <2>3. SizeOf(n)' + Cardinality(copies \cap {n})' <= DiskLimit
    BY <2>1, <2>2, ReportAssumption
  <2> QED
    BY <1>2, <1>3, <1>4, <1>5, <2>3 DEF NameOK, Started
<1>9. StageOK(w)'
  BY <1>5 DEF StageOK
<1>10. ShownOK(page)' /\ ShownOK(summary)' /\ PageOK'
  <2>1. ShownOK(page)' /\ ShownOK(summary)'
    BY <1>3 DEF ReportInv, ShownOK
  <2>2. CASE Shows(page, n)
    BY <1>3, <1>4, <2>1, <2>2 DEF PageOK, Shows
  <2>3. CASE ~Shows(page, n)
    BY <1>2, <1>3, <1>7, <2>1, <2>3, OtherPagesStay DEF Shows
  <2> QED
    BY <2>1, <2>2, <2>3
<1> QED
  BY <1>6, <1>7, <1>8, <1>9, <1>10, StepKeeps

LEMMA KillCommandOK == ASSUME ReportInv, NEW w \in Checker, KillCommand(w) PROVE ReportInv'
<1>1. /\ troubles' \in [ReportKeys -> Nat] /\ troubles'["command"] = troubles["command"]
      /\ ~At(w, "idle") /\ cancelFile' \in BOOLEAN
      /\ page' = page /\ summary' = summary /\ copies' = copies
      /\ stage' = [stage EXCEPT ![w] = NoStage]
  BY TakeOK DEF KillCommand, ReportKeys, ReportInv, ReportTypeOK
<1>2. PICK n \in Name :
        /\ n = stage[w].of /\ NameOK(n) /\ StageOK(w)
        /\ directory[n] \in Generation /\ IsFiniteSet(directory[n].archived)
  BY <1>1, AtWork
<1>3. PICK left \in SUBSET directory[n].files :
        directory' = [directory EXCEPT ![n].files = IF At(w, "drop") THEN left ELSE @]
  BY <1>2 DEF KillCommand, Own
<1>4. outcome' = [outcome EXCEPT ![n] = IF At(w, "drop") THEN @ ELSE "killed"]
  BY <1>2 DEF KillCommand
<1>5. directory \in [Name -> Generation \cup {NoReport}] /\ outcome \in [Name -> Outcomes]
  BY DEF ReportInv, ReportTypeOK
<1>6. CASE ~At(w, "drop")
  <2>1. directory' = directory
    <3>1. directory' = [directory EXCEPT ![n] = [directory[n] EXCEPT !.files = directory[n].files]]
      BY <1>3, <1>6
    <3>2. [directory[n] EXCEPT !.files = directory[n].files] = directory[n]
      BY <1>2, <1>6 DEF Generation
    <3> QED
      BY <1>5, <3>1, <3>2
  <2>2. outcome' = [outcome EXCEPT ![n] = "killed"]
    BY <1>4, <1>6
  <2> QED
    BY <1>1, <1>2, <1>6, <2>1, <2>2, GivesUp
<1>7. CASE At(w, "drop")
  <2> DEFINE g == directory[n]
             h == [g EXCEPT !.files = left]
  <2>1. outcome' = outcome
    BY <1>4, <1>5, <1>7
  <2>2. directory' = [directory EXCEPT ![n] = h]
    BY <1>3, <1>7
  <2>3. /\ outcome[n] \in {"failed", "unsynced", "summarised"}
        /\ outcome[n] # "unsynced" => ~Shows(page, n)
    BY <1>2, <1>7 DEF StageOK, At
  <2>4. /\ h \in Generation /\ h # NoReport /\ h.archived = g.archived
        /\ h.files \subseteq g.files
    BY <1>2, NoReportAssumption DEF Generation
  <2>5. /\ stage' \in [Checker -> StageRecord] /\ stage'[w].at = "idle"
        /\ \A v \in Checker \ {w} : stage'[v] = stage[v]
    BY <1>1, NoStageOK DEF ReportInv, ReportTypeOK
  <2> HIDE DEF h
  <2>6. /\ directory' \in [Name -> Generation \cup {NoReport}] /\ directory'[n] = h
        /\ \A m \in Name \ {n} : directory'[m] = directory[m]
    BY <1>2, <1>5, <2>2, <2>4
  <2>7. ReportTypeOK' /\ Moves(w, n)
    BY <1>1, <1>5, <2>1, <2>5, <2>6 DEF ReportInv, ReportTypeOK, Moves
  <2>8. OnlyTouches(w, n)
    BY <1>1, <1>2, <2>7, MovesTouch
  <2>9. SizeOf(n)' <= SizeOf(n) /\ SizeOf(n)' \in Nat /\ SizeOf(n) \in Nat
    <3> DEFINE total == SumFunctionOnSet(Size, g.archived)
    <3>1. /\ total \in Nat /\ Cardinality(g.files) \in Nat /\ Cardinality(h.files) \in Nat
          /\ Cardinality(h.files) <= Cardinality(g.files)
      BY <1>2, <2>4, SizeIsSum, FS_Subset, FS_CardinalityType
    <3>2. SizeOf(n) = Cardinality(g.files) + total /\ SizeOf(n)' = Cardinality(h.files) + total
      BY <1>2, <2>4, <2>6, NoReportAssumption DEF SizeOf
    <3> HIDE DEF total
    <3> QED
      BY <3>1, <3>2
  <2>10. NameOK(n)'
    <3>1. Cardinality(copies \cap {n})' = Cardinality(copies \cap {n})
      BY <1>1
    <3>2. Cardinality(copies \cap {n}) \in {0, 1}
      BY CopiesCount
    <3>3. SizeOf(n)' + Cardinality(copies \cap {n})' <= DiskLimit
      BY <1>2, <2>9, <3>1, <3>2, ReportAssumption DEF NameOK
    <3> QED
      BY <1>1, <1>2, <2>1, <2>3, <2>4, <2>6, <3>3 DEF NameOK, Started
  <2>11. StageOK(w)'
    BY <2>5 DEF StageOK
  <2>12. ShownOK(page)' /\ ShownOK(summary)' /\ PageOK'
    <3>1. ShownOK(page)' /\ ShownOK(summary)'
      BY <1>1, <2>1 DEF ReportInv, ShownOK
    <3>2. CASE Shows(page, n)
      BY <1>1, <2>1, <2>3, <3>1, <3>2 DEF PageOK, Shows
    <3>3. CASE ~Shows(page, n)
      BY <1>1, <1>2, <2>8, <3>1, <3>3, OtherPagesStay DEF Shows
    <3> QED
      BY <3>2, <3>3
  <2> QED
    BY <1>2, <2>7, <2>8, <2>10, <2>11, <2>12, StepKeeps
<1> QED
  BY <1>6, <1>7

LEMMA StartReportOK == ASSUME ReportInv, NEW w \in Checker, StartReport(w) PROVE ReportInv'
<1> DEFINE b == ReportBudget["command"]
           t == troubles["command"]
<1>1. /\ b \in Nat /\ t \in Nat /\ t <= b /\ t > 0 /\ troubles' \in [ReportKeys -> Nat]
      /\ troubles'["command"] = t - 1
  BY ReportAssumption DEF StartReport, Take, ReportInv, ReportTypeOK, ReportKeys
<1>2. PICK n \in Name : n = Started + 1 /\ Started' = n /\ n = 1 + b - t
  <2> DEFINE n == 1 + b - t
  <2>1. n \in 1..b /\ n = Started + 1 /\ Started' = n
    BY <1>1 DEF Started
  <2> QED
    BY <2>1 DEF Name
<1>3. PICK mode \in {"html", "text"} :
        stage' = [stage EXCEPT ![w] = 
               [NoStage EXCEPT !.at = "copy", !.of = n, !.mode = mode, !.used = 1]]
  BY <1>2 DEF StartReport
<1>4. /\ page' = page /\ summary' = summary /\ copies' = copies /\ cancelFile' = cancelFile
      /\ directory' = [directory EXCEPT ![n] = EmptyDirectory]
      /\ outcome' = [outcome EXCEPT ![n] = "running"]
  BY <1>2 DEF StartReport
<1> DEFINE x == [NoStage EXCEPT !.at = "copy", !.of = n, !.mode = mode, !.used = 1]
<1>5. /\ x \in StageRecord /\ x.at = "copy" /\ x.of = n /\ x.scanned = {} /\ x.used = 1
  BY DEF NoStage, StageRecord, Steps, RunningSteps
<1>6. /\ EmptyDirectory \in Generation /\ EmptyDirectory # NoReport
      /\ EmptyDirectory.archived = {} /\ EmptyDirectory.files = FilesAfter[1]
  BY NoReportAssumption DEF EmptyDirectory, Generation, Files, FilesAfter
<1> HIDE DEF x
<1>7. Started \in Nat /\ Started' > Started
  BY <1>1, <1>2 DEF Started
<1>8. outcome[n] = "none" /\ n \notin copies
  BY <1>2, <1>7 DEF ReportInv, NameOK
<1>9. stage \in [Checker -> StageRecord] /\ outcome \in [Name -> Outcomes]
      /\ directory \in [Name -> Generation \cup {NoReport}]
  BY DEF ReportInv, ReportTypeOK
<1>10. /\ stage' \in [Checker -> StageRecord] /\ stage'[w] = x
       /\ \A v \in Checker \ {w} : stage'[v] = stage[v]
  BY <1>3, <1>5, <1>9 DEF x
<1>11. /\ outcome' \in [Name -> Outcomes] /\ outcome'[n] = "running"
       /\ directory' \in [Name -> Generation \cup {NoReport}] /\ directory'[n] = EmptyDirectory
       /\ \A m \in Name \ {n} : directory'[m] = directory[m] /\ outcome'[m] = outcome[m]
  BY <1>4, <1>6, <1>9 DEF Outcomes
<1>12. ReportTypeOK'
  BY <1>1, <1>4, <1>10, <1>11 DEF ReportInv, ReportTypeOK
<1>13. OnlyTouches(w, n)
  <2>1. ASSUME NEW v \in Checker \ {w}, ~At(v, "idle") PROVE stage[v].of # n
    BY <1>8, <2>1, AtWork DEF ReportInv, StageOK, At
  <2>2. ASSUME NEW m \in Name \ {n} PROVE m > Started' <=> m > Started
    BY <1>1, <1>2, <1>7 DEF Name
  <2> QED
    BY <1>4, <1>5, <1>10, <1>11, <2>1, <2>2 DEF OnlyTouches
<1>14. ~Shows(page, n)' /\ ~Shows(summary, n)'
  BY <1>4, <1>8 DEF Shows, ReportInv, ShownOK
<1>15. SizeOf(n)' = 1
  <2>1. Cardinality(FilesAfter[1]) = 1 /\ SumFunctionOnSet(Size, {}) = 0
    BY FilesCount, SumEmpty
  <2> QED
    BY <1>6, <1>11, <2>1 DEF SizeOf
<1>16. NameOK(n)'
  <2>1. Cardinality(copies \cap {n})' = 0
    BY <1>4, <1>8, CopiesCount
  <2>2. IsFiniteSet(EmptyDirectory.archived)
    BY <1>6, FS_EmptySet
  <2>3. SizeOf(n)' + 0 <= DiskLimit
    BY <1>15, ReportAssumption
  <2>4. ~(n > Started')
    BY <1>2, <1>7
  <2> QED
    BY <1>6, <1>11, <2>1, <2>2, <2>3, <2>4 DEF NameOK
<1>17. StageOK(w)'
  <2>1. /\ stage'[w].of = n /\ stage'[w].at = "copy" /\ stage'[w].scanned = {}
        /\ stage'[w].used = 1 /\ 1 <= DiskLimit /\ n \notin copies'
        /\ directory'[n].archived = {} /\ directory'[n].files = FilesAfter[1]
    BY <1>4, <1>5, <1>6, <1>8, <1>10, <1>11, ReportAssumption
  <2>a. 1 = SizeOf(n)' + 0
    BY <1>15
  <2>2. GenerationOK(w)'
    BY <2>1, <2>a DEF GenerationOK
  <2> QED
    BY <1>6, <1>11, <1>14, <2>1, <2>2 DEF StageOK, RunningSteps
<1> QED
  BY <1>12, <1>13, <1>14, <1>16, <1>17, OtherPagesStay, StepKeeps

\* What is not about the commands is not looked at.
LEMMA RestKeeps ==
  ASSUME ReportInv, directory' = directory, page' = page, summary' = summary, copies' = copies,
         outcome' = outcome, stage' = stage, cancelFile' \in BOOLEAN,
         troubles' \in [ReportKeys -> Nat], troubles'["command"] = troubles["command"]
  PROVE  ReportInv'
<1>1. ReportTypeOK'
  BY DEF ReportInv, ReportTypeOK
<1>2. \A n : SizeOf(n)' = SizeOf(n) /\ \A says : Whole(n, says)' <=> Whole(n, says)
  BY SameSize
<1>3. ASSUME NEW n \in Name PROVE NameOK(n)'
  <2>1. Whole(n, directory[n].archived)' <=> Whole(n, directory[n].archived)
    BY DEF Whole
  <2> QED
    BY <1>2, <2>1 DEF ReportInv, NameOK, Started
<1>4. ASSUME NEW w \in Checker PROVE StageOK(w)'
  <2>1. StageOK(w)
    BY DEF ReportInv
  <2>2. GenerationOK(w) => GenerationOK(w)'
    BY <1>2 DEF GenerationOK
  <2> QED
    BY <2>1, <2>2 DEF StageOK, Shows
<1>5. \A u, v \in Checker : Alone(u, v)'
  BY DEF ReportInv, Alone, At
<1>6. ShownOK(page)' /\ ShownOK(summary)' /\ PageOK'
  BY DEF ReportInv, ShownOK, PageOK, Whole
<1> QED
  BY <1>1, <1>3, <1>4, <1>5, <1>6 DEF ReportInv

LEMMA ReportInvInit == ReportInit => ReportInv
<1> SUFFICES ASSUME ReportInit PROVE ReportInv
  OBVIOUS
<1>1. ReportTypeOK
  <2>1. ReportBudget["command"] \in Nat
    BY ReportAssumption DEF ReportKeys
  <2>2. ReportBudget["command"] <= ReportBudget["command"] /\ {} \subseteq Name
    BY <2>1
  <2>3. stage \in [Checker -> StageRecord]
    BY NoStageOK DEF ReportInit
  <2>4. directory \in [Name -> Generation \cup {NoReport}] /\ outcome \in [Name -> Outcomes]
    BY DEF ReportInit, Outcomes
  <2> QED
    BY <2>2, <2>3, <2>4, ReportAssumption DEF ReportInit, ReportTypeOK
<1>2. ASSUME NEW n \in Name PROVE NameOK(n)
  <2>1. directory[n] = NoReport /\ outcome[n] = "none" /\ n > Started
    BY ReportAssumption DEF ReportInit, Started, Name, ReportKeys
  <2>2. SizeOf(n) = 0 /\ Cardinality(copies \cap {n}) = 0
    BY <2>1, FS_EmptySet DEF ReportInit, SizeOf
  <2> QED
    BY <2>1, <2>2, ReportAssumption DEF NameOK, ReportInit
<1>3. \A w \in Checker : stage[w].at = "idle"
  BY NoStageOK DEF ReportInit
<1> QED
  BY <1>1, <1>2, <1>3 DEF ReportInv, ReportInit, StageOK, Alone, At, ShownOK, PageOK

LEMMA ReportInvStep == ReportInv /\ [ReportNext]_reportVars => ReportInv'
<1> SUFFICES ASSUME ReportInv, [ReportNext]_reportVars PROVE ReportInv'
  OBVIOUS
<1>1. ASSUME NEW w \in Checker, ReportStep(w) PROVE ReportInv'
  BY <1>1, StartReportOK, CopyInputOK, ScanArchivedOK, FinishEvidenceOK, WritePartOK, StageCopyOK,
     ReplaceOutputOK, SyncDirectoryOK, CommandFailsOK, CommandStopsOK, DropStageOK, KillCommandOK
     DEF ReportStep
<1>2. CASE ToggleCancel
  <2>1. troubles' \in [ReportKeys -> Nat] /\ troubles'["command"] = troubles["command"]
    BY <1>2, TakeOK DEF ToggleCancel, ReportKeys
  <2> QED
    BY <1>2, <2>1, RestKeeps DEF ToggleCancel, ReportInv, ReportTypeOK
<1>3. CASE UNCHANGED reportVars
  BY <1>3, RestKeeps DEF reportVars, ReportInv, ReportTypeOK
<1> QED
  BY <1>1, <1>2, <1>3 DEF ReportNext

\* However commands overlap, fail, stop at a limit or are killed: a report that was announced
\* keeps its generation, complete and of the bytes that were scanned; what failed has replaced
\* nothing; and a generation with the copy of its page stays within the disk limit (generate,
\* Stage).
THEOREM ReportsStayKept == ReportSpec => []ReportsKept
<1>1. ReportInv => ReportsKept
  BY ReportInvImplies
<1> QED
  BY <1>1, ReportInvInit, ReportInvStep, PTL DEF ReportSpec

-----------------------------------------------------------------------------
(* All commands.                                                           *)
LEMMA CommandsAreOfBothKinds == CommandSpec => Spec /\ ReportSpec
<1>1. CommandInit => Init /\ ReportInit
  BY DEF CommandInit
<1>2. [CommandNext]_commandVars => [Next]_vars /\ [ReportNext]_reportVars
  BY DEF CommandNext, commandVars
<1> QED
  BY <1>1, <1>2, PTL DEF CommandSpec, Spec, ReportSpec

\* Neither kind of command disturbs what is promised of the other.
THEOREM CommandsKeepAll ==
  CommandSpec => /\ [](OutputIsComplete /\ DigestNamesContent /\ ReportsKept)
                 /\ DirectoryKeepsCommitted /\ LockedTempsSurvive
  BY CommandsAreOfBothKinds, OutputsComplete, DigestsName, ReportsStayKept,
     DirectoriesKeepCommitted, LockKeepsTemps, PTL

=============================================================================
