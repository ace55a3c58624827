------------------------ MODULE CatalogSnapshot_proofs ------------------------
(***************************************************************************)
(* The snapshot commands beside the converters, for every value of the      *)
(* constants.  The argument: a converter sees a snapshot command only as a  *)
(* lock it is refused, so that the two together still are a DatasetCatalog  *)
(* whose guard is free while a client holds it, and everything proved of    *)
(* converters holds beside snapshot commands; and while a client holds the  *)
(* lock no converter replaces _catalog.json, so that what a command read    *)
(* and checked is still true when it publishes.                             *)
(***************************************************************************)
EXTENDS CatalogSnapshot, TLAPS

\* The guard as the converters see it: held by a converter or by nobody.  One that
\* is refused while a snapshot command holds it fails as on any error.
ConverterGuard == IF guard \in Client THEN None ELSE guard

Cat == INSTANCE DatasetCatalog_proofs WITH guard <- ConverterGuard

-----------------------------------------------------------------------------
(* A DatasetCatalog with snapshot commands is a DatasetCatalog *)

LEMMA CatAssumption == Cat!ConstantsAssumption
BY ConstantsAssumption DEF Cat!ConstantsAssumption, BudgetKeys, Cat!BudgetKeys

LEMMA CatNone == Cat!NoneAssumption
BY NoneAssumption DEF Cat!NoneAssumption, Catalog, Entry, Run, Status, ObjectState,
   Cat!Catalog, Cat!Entry, Cat!Run, Cat!Status, Cat!ObjectState

LEMMA GotoMaps == ASSUME NEW p \in Proc, NEW to, Goto(p, to) PROVE Cat!Goto(p, to)
BY DEF Goto, Cat!Goto, ConverterGuard

LEMMA ExitMaps == ASSUME NEW p \in Proc, Exit(p) PROVE Cat!Exit(p)
BY SnapshotAssumption, ConstantsAssumption
   DEF Exit, ConverterGuard, IdleJob, DefaultCatalog, NoEntry,
       Cat!Exit, Cat!IdleJob, Cat!DefaultCatalog, Cat!NoEntry

LEMMA PublishStepMaps == ASSUME NEW p \in Proc, PublishStep(p) PROVE Cat!PublishStep(p)
<1>1. StageCatalog(p) => Cat!StageCatalog(p)
  BY GotoMaps, ExitMaps DEF StageCatalog, Cat!StageCatalog
<1>2. ReplaceCatalog(p) => Cat!ReplaceCatalog(p)
  BY GotoMaps, ExitMaps DEF ReplaceCatalog, PublishReturnsOk, PublishReturnsErr,
     Cat!ReplaceCatalog, Cat!PublishReturnsOk, Cat!PublishReturnsErr
<1>3. PublishFails(p) => Cat!PublishFails(p)
  BY GotoMaps, ExitMaps DEF PublishFails, PublishPcs, PublishReturnsErr,
     Cat!PublishFails, Cat!PublishPcs, Cat!PublishReturnsErr
<1> QED
  BY <1>1, <1>2, <1>3 DEF PublishStep, Cat!PublishStep

LEMMA ConvertStepMaps == ASSUME NEW p \in Proc, ConvertStep(p) PROVE Cat!ConvertStep(p)
<1>1. BeginRun(p) => Cat!BeginRun(p)
  BY GotoMaps, ExitMaps DEF BeginRun, DefaultCatalog, NoEntry, Publish, diskVars,
     Cat!BeginRun, Cat!DefaultCatalog, Cat!NoEntry, Cat!Publish, Cat!diskVars
<1>2. SkipDuplicate(p) => Cat!SkipDuplicate(p)
  BY GotoMaps, ExitMaps DEF SkipDuplicate, HasInput, diskVars, Cat!SkipDuplicate,
     Cat!HasInput, Cat!diskVars
<1>3. MissingInput(p) => Cat!MissingInput(p)
  BY GotoMaps, ExitMaps DEF MissingInput, HasInput, diskVars, Cat!MissingInput,
     Cat!HasInput, Cat!diskVars
<1>4. HashSource(p) => Cat!HashSource(p)
  BY GotoMaps, ExitMaps DEF HashSource, HasInput, SameVersion, Previous, Verifies,
     Object, diskVars, Cat!HashSource, Cat!HasInput, Cat!SameVersion, Cat!Previous,
     Cat!Verifies, Cat!Object, Cat!diskVars
<1>5. FinishRun(p) => Cat!FinishRun(p)
  BY GotoMaps, ExitMaps DEF FinishRun, Publish, diskVars, Cat!FinishRun, Cat!Publish,
     Cat!diskVars
<1>6. RecordSource(p) => Cat!RecordSource(p)
  BY GotoMaps, ExitMaps DEF RecordSource, Publish, diskVars, Cat!RecordSource,
     Cat!Publish, Cat!diskVars
<1>7. ReloadCatalog(p) => Cat!ReloadCatalog(p)
  BY GotoMaps, ExitMaps DEF ReloadCatalog, Publish, diskVars, Cat!ReloadCatalog,
     Cat!Publish, Cat!diskVars
<1> QED
  BY <1>1, <1>2, <1>3, <1>4, <1>5, <1>6, <1>7 DEF ConvertStep, Cat!ConvertStep

LEMMA FragmentStepMaps == ASSUME NEW p \in Proc, FragmentStep(p) PROVE Cat!FragmentStep(p)
<1>1. PlanFragments(p) => Cat!PlanFragments(p)
  BY GotoMaps, ExitMaps DEF PlanFragments, diskVars, Cat!PlanFragments, Cat!diskVars
<1>2. LockObject(p) => Cat!LockObject(p)
  BY GotoMaps, ExitMaps DEF LockObject, Cat!LockObject
<1>3. WriteMarker(p) => Cat!WriteMarker(p)
  BY GotoMaps, ExitMaps DEF WriteMarker, Cat!WriteMarker
<1>4. ReuseObject(p) => Cat!ReuseObject(p)
  BY GotoMaps, ExitMaps DEF ReuseObject, diskVars, Cat!ReuseObject, Cat!diskVars
<1>5. OpenStage(p) => Cat!OpenStage(p)
  BY GotoMaps, ExitMaps DEF OpenStage, Cat!OpenStage
<1>6. WriteFragments(p) => Cat!WriteFragments(p)
  BY GotoMaps, ExitMaps DEF WriteFragments, diskVars, Cat!WriteFragments, Cat!diskVars
<1>7. RenameStage(p) => Cat!RenameStage(p)
  BY GotoMaps, ExitMaps DEF RenameStage, Cat!RenameStage
<1>8. DropLock(p) => Cat!DropLock(p)
  BY GotoMaps, ExitMaps DEF DropLock, Cat!DropLock
<1>9. AttemptFails(p) => Cat!AttemptFails(p)
  BY GotoMaps, ExitMaps DEF AttemptFails, AttemptPcs, FragmentPcs, LockedPcs,
     Cat!AttemptFails, Cat!AttemptPcs, Cat!FragmentPcs, Cat!LockedPcs
<1> QED
  BY <1>1, <1>2, <1>3, <1>4, <1>5, <1>6, <1>7, <1>8, <1>9 DEF FragmentStep,
     Cat!FragmentStep

LEMMA RecoverStepMaps == ASSUME NEW p \in Proc, RecoverStep(p) PROVE Cat!RecoverStep(p)
<1>1. ScanObjects(p) => Cat!ScanObjects(p)
  BY GotoMaps, ExitMaps DEF ScanObjects, Generation, diskVars, Cat!ScanObjects,
     Cat!Generation, Cat!diskVars
<1>2. InspectMarker(p) => Cat!InspectMarker(p)
  BY GotoMaps, ExitMaps DEF InspectMarker, diskVars, Cat!InspectMarker, Cat!diskVars
<1>3. OwnerUnverifiable(p) => Cat!OwnerUnverifiable(p)
  BY GotoMaps, ExitMaps DEF OwnerUnverifiable, diskVars, Cat!OwnerUnverifiable,
     Cat!diskVars
<1>4. OwnerDead(p) => Cat!OwnerDead(p)
  BY GotoMaps, ExitMaps DEF OwnerDead, Alive, diskVars, Cat!OwnerDead, Cat!Alive,
     Cat!diskVars
<1>5. OwnerActive(p) => Cat!OwnerActive(p)
  BY GotoMaps, ExitMaps DEF OwnerActive, Alive, diskVars, Cat!OwnerActive, Cat!Alive,
     Cat!diskVars
<1>6. ClearMarker(p) => Cat!ClearMarker(p)
  BY GotoMaps, ExitMaps DEF ClearMarker, Cat!ClearMarker
<1>7. RelockObject(p) => Cat!RelockObject(p)
  BY GotoMaps, ExitMaps DEF RelockObject, Cat!RelockObject
<1>8. SweepStaging(p) => Cat!SweepStaging(p)
  BY GotoMaps, ExitMaps DEF SweepStaging, Cat!SweepStaging
<1>9. SweepFails(p) => Cat!SweepFails(p)
  BY GotoMaps, ExitMaps DEF SweepFails, Cat!SweepFails
<1>10. InterruptRun(p) => Cat!InterruptRun(p)
  BY GotoMaps, ExitMaps DEF InterruptRun, Publish, Cat!InterruptRun, Cat!Publish
<1> QED
  BY <1>1, <1>2, <1>3, <1>4, <1>5, <1>6, <1>7, <1>8, <1>9, <1>10 DEF RecoverStep,
     Cat!RecoverStep

LEMMA GuardStepMaps ==
  ASSUME NEW p \in Proc, AcquireGuard(p) \/ GuardRefused(p) \/ CommandFails(p)
  PROVE  Cat!AcquireGuard(p) \/ Cat!GuardRefused(p) \/ Cat!CommandFails(p)
<1>1. AcquireGuard(p) => Cat!AcquireGuard(p)
  BY SnapshotAssumption DEF AcquireGuard, diskVars, Cat!AcquireGuard, Cat!diskVars, ConverterGuard
<1>2. GuardRefused(p) => Cat!CommandFails(p)
  BY GotoMaps, ExitMaps DEF GuardRefused, diskVars, CommandFails, Cat!GuardRefused,
     Cat!diskVars, Cat!CommandFails
<1>3. CommandFails(p) => Cat!CommandFails(p)
  BY GotoMaps, ExitMaps DEF CommandFails, diskVars, Cat!CommandFails, Cat!diskVars
<1> QED
  BY <1>1, <1>2, <1>3

LEMMA StartMaps == ASSUME NEW p \in Proc, StartCommand(p) PROVE Cat!StartCommand(p)
<1>1. ASSUME NEW k, NEW at, NEW params, Start(p, k, at, params) PROVE Cat!Start(p, k, at, params)
  BY <1>1 DEF Start, Spend, Alive, diskVars, Cat!Start, Cat!Spend, Cat!Alive,
     Cat!diskVars, ConverterGuard
<1>2. StartConvert(p) => Cat!StartConvert(p)
  BY <1>1 DEF StartConvert, IdleJob, Cat!StartConvert, Cat!IdleJob
<1>3. StartRecover(p) => Cat!StartRecover(p)
  BY <1>1 DEF StartRecover, IdleJob, Cat!StartRecover, Cat!IdleJob
<1>4. StartLegacy(p) => Cat!StartLegacy(p)
  BY <1>1 DEF StartLegacy, IdleJob, Generation, Cat!StartLegacy, Cat!IdleJob, Cat!Generation
<1> QED
  BY <1>2, <1>3, <1>4 DEF StartCommand, Cat!StartCommand

LEMMA ConverterMaps == Next => Cat!Next
<1>1. ASSUME NEW p \in Proc, Step(p) PROVE Cat!Step(p)
  BY <1>1, GuardStepMaps, PublishStepMaps, ConvertStepMaps, FragmentStepMaps, RecoverStepMaps
     DEF Step, Cat!Step
<1>2. ASSUME NEW p \in Proc, Crash(p) PROVE Cat!Crash(p)
  BY <1>2, ExitMaps DEF Crash, Spend, Orphaned, Generation,
     Cat!Crash, Cat!Spend, Cat!Orphaned, Cat!Generation
<1>3. ASSUME NEW s \in Source, EditSource(s) PROVE Cat!EditSource(s)
  BY <1>3 DEF EditSource, Spend, diskVars, Cat!EditSource, Cat!Spend, Cat!diskVars, ConverterGuard
<1>4. ASSUME NEW g \in Generation, NEW c \in Content, DamageObject(g, c)
      PROVE  Cat!DamageObject(g, c)
  BY <1>4 DEF DamageObject, Spend, Cat!DamageObject, Cat!Spend, ConverterGuard
<1>5. Generation = Cat!Generation
  BY DEF Generation, Cat!Generation
<1> QED
  BY <1>1, <1>2, <1>3, <1>4, <1>5, StartMaps DEF Next, Cat!Next

\* A snapshot command changes nothing that a converter sees but who holds the lock.
LEMMA ClientMaps ==
  ASSUME NEW k \in Client, StartSnapshotCommand(k) \/ SnapshotStep(k) \/ SnapshotKill(k),
         UNCHANGED catalogVars
  PROVE  UNCHANGED Cat!vars
<1>1. guard' = guard \/ (guard = None /\ guard' = k) \/ (guard = k /\ guard' = None)
  <2>1. SExit(k) => guard' = IF guard = k THEN None ELSE guard
    BY DEF SExit
  <2>2. StartSnapshotCommand(k) => guard' = guard
    BY DEF StartSnapshotCommand, StartCreate, StartSelect, StartCurrent, StartVerify, StartSnapshot
  <2>3. Created(k) => guard' = IF guard = k THEN None ELSE guard
    BY <2>1 DEF Created
  <2> QED
    BY <2>1, <2>2, <2>3 DEF SnapshotStep, LockForSnapshot, LockRefused, LoadCatalog,
       HashSelection, ReuseSnapshot, StageSnapshot, LinkSnapshot, UnlinkTemp, UnlinkFails,
       SnapshotFails, CheckSelected, StagePointer, ReplacePointer, ReadPointer,
       ResolveSnapshot, SnapshotKill
<1>2. ConverterGuard' = ConverterGuard
  BY <1>1, SnapshotAssumption DEF ConverterGuard
<1> QED
  BY <1>2 DEF catalogVars, diskVars, Cat!vars, Cat!diskVars

LEMMA SnapshotStepMaps == [SnapshotNext]_allVars => [Cat!Next]_Cat!vars
<1>1. CASE Next /\ UNCHANGED snapshotVars
  BY <1>1, ConverterMaps
<1>2. CASE /\ \E k \in Client : StartSnapshotCommand(k) \/ SnapshotStep(k) \/ SnapshotKill(k)
           /\ UNCHANGED catalogVars
  BY <1>2, ClientMaps
<1>3. CASE UNCHANGED allVars
  BY <1>3 DEF allVars, vars, diskVars, Cat!vars, Cat!diskVars, ConverterGuard
<1> QED
  BY <1>1, <1>2, <1>3 DEF SnapshotNext

LEMMA SnapshotInitMaps == SnapshotInit => Cat!Init
BY SnapshotAssumption DEF SnapshotInit, Init, Generation, IdleJob, DefaultCatalog, NoEntry,
   Cat!Init, Cat!Generation, Cat!IdleJob, Cat!DefaultCatalog, Cat!NoEntry, ConverterGuard

\* Snapshot commands implement the converters' own specification: to create, select,
\* read and verify snapshots disturbs no conversion and no recovery, except that one
\* which asks for the lock while a client holds it fails.
THEOREM SnapshotsKeepConverters == SnapshotSpec => Cat!Spec
BY SnapshotInitMaps, SnapshotStepMaps, PTL DEF SnapshotSpec, Cat!Spec

\* So, beside any number of snapshot commands, every entry of the committed catalog
\* still selects a published source directory.
THEOREM CatalogStaysPublished == SnapshotSpec => []CommittedPublished
<1>1. Cat!CommittedPublished => CommittedPublished
  BY DEF CommittedPublished, Object, Cat!CommittedPublished, Cat!Object
<1> QED
  BY <1>1, CatAssumption, CatNone, SnapshotsKeepConverters, Cat!CatalogFollowsFragments, PTL

\* And what a reader of _catalog.json sees is still a history of the abstract store,
\* each version one legal step after the one before.
THEOREM CatalogStaysAStore == SnapshotSpec => Cat!ImplementsStore
BY CatAssumption, CatNone, SnapshotsKeepConverters, Cat!CatalogRefinesStore, PTL

-----------------------------------------------------------------------------
(* What a converter leaves alone *)

\* A converter never takes the lock out of a client's hands.
LEMMA ClientKeepsGuard ==
  ASSUME NEW p \in Proc, StartCommand(p) \/ Step(p) \/ Crash(p), guard \in Client
  PROVE  guard' = guard
<1>1. Exit(p) => guard' = guard
  BY SnapshotAssumption DEF Exit
<1>2. \A to : Goto(p, to) => guard' = guard
  BY DEF Goto
<1>3. StartCommand(p) => guard' = guard
  BY DEF StartCommand, StartConvert, StartRecover, StartLegacy, Start
<1>4. AcquireGuard(p) \/ GuardRefused(p) \/ CommandFails(p) \/ Crash(p) => guard' = guard
  BY <1>1, SnapshotAssumption DEF AcquireGuard, GuardRefused, CommandFails, Crash
<1>5. PublishStep(p) => guard' = guard
  BY <1>1, <1>2 DEF PublishStep, StageCatalog, ReplaceCatalog, PublishFails,
     PublishReturnsOk, PublishReturnsErr
<1>6. ConvertStep(p) => guard' = guard
  BY <1>2 DEF ConvertStep, BeginRun, SkipDuplicate, MissingInput, HashSource, FinishRun,
     RecordSource, ReloadCatalog, Publish
<1>7. FragmentStep(p) => guard' = guard
  BY <1>1, <1>2 DEF FragmentStep, PlanFragments, LockObject, WriteMarker, ReuseObject,
     OpenStage, WriteFragments, RenameStage, DropLock, AttemptFails
<1>8. RecoverStep(p) => guard' = guard
  BY <1>1, <1>2 DEF RecoverStep, ScanObjects, InspectMarker, OwnerUnverifiable, OwnerDead,
     OwnerActive, ClearMarker, RelockObject, SweepStaging, SweepFails, InterruptRun, Publish
<1> QED
  BY <1>3, <1>4, <1>5, <1>6, <1>7, <1>8 DEF Step

\* The file is replaced, and an object directory renamed into place, by one step each.
LEMMA StepsOnDisk ==
  ASSUME NEW p \in Proc, StartCommand(p) \/ Step(p) \/ Crash(p)
  PROVE  /\ file' = file \/ ReplaceCatalog(p)
         /\ objects' = objects \/ RenameStage(p)
<1>1. StartCommand(p) \/ AcquireGuard(p) \/ GuardRefused(p) \/ CommandFails(p) \/ Crash(p)
        => file' = file /\ objects' = objects
  BY DEF StartCommand, StartConvert, StartRecover, StartLegacy, Start, AcquireGuard,
     GuardRefused, CommandFails, Crash, diskVars
<1>2. PublishStep(p) => objects' = objects /\ (file' = file \/ ReplaceCatalog(p))
  BY DEF PublishStep, StageCatalog, ReplaceCatalog, PublishFails
<1>3. ConvertStep(p) => file' = file /\ objects' = objects
  BY DEF ConvertStep, BeginRun, SkipDuplicate, MissingInput, HashSource, FinishRun,
     RecordSource, ReloadCatalog, diskVars
<1>4. FragmentStep(p) => file' = file /\ (objects' = objects \/ RenameStage(p))
  BY DEF FragmentStep, PlanFragments, LockObject, WriteMarker, ReuseObject, OpenStage,
     WriteFragments, RenameStage, DropLock, AttemptFails, diskVars
<1>5. RecoverStep(p) => file' = file /\ objects' = objects
  BY DEF RecoverStep, ScanObjects, InspectMarker, OwnerUnverifiable, OwnerDead, OwnerActive,
     ClearMarker, RelockObject, SweepStaging, SweepFails, InterruptRun, diskVars
<1> QED
  BY <1>1, <1>2, <1>3, <1>4, <1>5 DEF Step

\* What is proved of converters, read in this module's own definitions.
LEMMA CatTypes ==
  ASSUME Cat!IInv
  PROVE  /\ TypeOK \/ guard \in Client
         /\ guard \in Proc \cup Client \cup {None}
         /\ file \in Catalog \cup {None}
         /\ objects \in [Generation -> [Content -> ObjectState]]
         /\ job \in [Proc -> Job] /\ pc \in [Proc -> Pcs]
         /\ \A p \in Proc : pc[p] = "replace" => guard = p
<1>1. Cat!TypeOK
  BY DEF Cat!IInv
<1>2. Catalog = Cat!Catalog /\ Generation = Cat!Generation /\ ObjectState = Cat!ObjectState
  BY DEF Catalog, Entry, Run, Status, ObjectState, Generation, Cat!Catalog, Cat!Entry, Cat!Run,
     Cat!Status, Cat!ObjectState, Cat!Generation
<1>3. Job = Cat!Job /\ Pcs = Cat!Pcs /\ BudgetKeys = Cat!BudgetKeys
  BY <1>2 DEF Job, Kind, Publishing, Cat!Job, Cat!Kind, Cat!Publishing, Pcs, PublishPcs, ConvertPcs,
     AttemptPcs, FragmentPcs, RecoverPcs, Cat!Pcs, Cat!PublishPcs, Cat!ConvertPcs, Cat!AttemptPcs,
     Cat!FragmentPcs, Cat!RecoverPcs, BudgetKeys, Cat!BudgetKeys
<1>4. guard \in Proc \cup Client \cup {None}
  BY <1>1 DEF Cat!TypeOK, ConverterGuard
<1>5. TypeOK \/ guard \in Client
  BY <1>1, <1>2, <1>3 DEF TypeOK, Cat!TypeOK, ConverterGuard
<1>6. ASSUME NEW p \in Proc, pc[p] = "replace" PROVE guard = p
  <2>1. "replace" \in Cat!GuardedPcs /\ "replace" \in Cat!PublishPcs
    BY DEF Cat!GuardedPcs, Cat!Pcs, Cat!PublishPcs
  <2>2. Cat!Local(p) /\ (Cat!HoldsGuard(p) <=> ConverterGuard = p) /\ job[p] \in Cat!Job
    BY <1>1 DEF Cat!IInv, Cat!TypeOK
  <2>3. job[p].kind # "legacy"
    BY <1>6, <2>1, <2>2 DEF Cat!Local, Cat!Job, Cat!Publishing
  <2> QED
    BY <1>6, <2>1, <2>2, <2>3, SnapshotAssumption, ConstantsAssumption
       DEF Cat!HoldsGuard, ConverterGuard
<1> QED
  BY <1>1, <1>2, <1>3, <1>4, <1>5, <1>6 DEF Cat!TypeOK

\* Under a client's lock _catalog.json stays as it is.
LEMMA LockFreezesCatalog ==
  ASSUME Cat!IInv, Next, guard \in Client
  PROVE  guard' = guard /\ file' = file
<1>1. ASSUME NEW p \in Proc, StartCommand(p) \/ Step(p) \/ Crash(p)
      PROVE  guard' = guard /\ file' = file
  <2>1. ~ReplaceCatalog(p)
    BY CatTypes, SnapshotAssumption DEF ReplaceCatalog
  <2> QED
    BY <1>1, <2>1, ClientKeepsGuard, StepsOnDisk
<1>2. ASSUME NEW s \in Source, EditSource(s) PROVE guard' = guard /\ file' = file
  BY <1>2 DEF EditSource, diskVars
<1>3. ASSUME NEW g \in Generation, NEW c \in Content, DamageObject(g, c)
      PROVE  guard' = guard /\ file' = file
  BY <1>3 DEF DamageObject
<1> QED
  BY <1>1, <1>2, <1>3 DEF Next

\* An object directory is published once and may be damaged; it never goes away.
ObjectsOnlyDecay ==
  \A g \in Generation, c \in Content :
    \/ objects'[g][c] = objects[g][c]
    \/ objects[g][c] = "absent"
    \/ objects'[g][c] = "damaged"

LEMMA ConvertersKeepObjects == ASSUME Cat!IInv, Next PROVE ObjectsOnlyDecay
<1>0. objects \in [Generation -> [Content -> ObjectState]]
  BY CatTypes
<1>1. ASSUME NEW p \in Proc, StartCommand(p) \/ Step(p) \/ Crash(p) PROVE ObjectsOnlyDecay
  <2>1. CASE objects' = objects
    BY <2>1 DEF ObjectsOnlyDecay
  <2>2. CASE RenameStage(p)
    <3>1. /\ objects[job[p].gen][job[p].rows] = "absent"
          /\ objects' = [objects EXCEPT ![job[p].gen][job[p].rows] = "intact"]
      BY <2>2 DEF RenameStage
    <3> QED
      BY <1>0, <3>1 DEF ObjectsOnlyDecay
  <2> QED
    BY <1>1, <2>1, <2>2, StepsOnDisk
<1>2. ASSUME NEW s \in Source, EditSource(s) PROVE ObjectsOnlyDecay
  BY <1>2 DEF EditSource, diskVars, ObjectsOnlyDecay
<1>3. ASSUME NEW g \in Generation, NEW c \in Content, DamageObject(g, c) PROVE ObjectsOnlyDecay
  BY <1>0, <1>3 DEF DamageObject, ObjectsOnlyDecay
<1> QED
  BY <1>1, <1>2, <1>3 DEF Next

-----------------------------------------------------------------------------
(* The invariant *)

SnapshotTypes ==
  /\ snapshots \subseteq Catalog
  /\ snapTemps \subseteq Client \cup {Orphan}
  /\ pointer \in Catalog \cup {None}
  /\ pointerTemps \subseteq Client \cup {Orphan}
  /\ chosen \subseteq Catalog
  /\ spc \in [Client -> SnapshotPcs]
  /\ request \in [Client -> Request]
  /\ sbudget \in [SnapshotKeys -> Nat]

\* What a descriptor froze is on disk, as it was or damaged since.
Captured(c) ==
  \A s \in Source : c.sources[s] # None =>
    Object(s, c.sources[s]) \in {c.sources[s].hash, "damaged"} \ {"absent"}

\* What a command knows at each of its steps.
ClientOK(k) ==
  /\ spc[k] \in CreatePcs \cup SelectPcs => guard = k
  /\ spc[k] \in CreatePcs => request[k].kind = "create"
  /\ spc[k] \in SelectPcs => request[k].kind = "select"
  /\ spc[k] = "lock" => request[k].kind \in {"create", "select"}
  /\ request[k].kind = "current" => request[k].id \in chosen \cup {None}
  /\ spc[k] \in {"hash", "target", "link"} =>
       /\ request[k].id = file /\ file # None
       /\ Selectable(request[k].id, request[k].allow)
  /\ spc[k] \in {"target", "link"} => Captured(request[k].id)
  /\ spc[k] \in {"stage", "replace"} =>
       request[k].id \in snapshots /\ Selectable(request[k].id, request[k].allow)

StoreOK ==
  /\ pointer # None => pointer \in chosen
  /\ chosen \subseteq snapshots
  /\ \A c \in snapshots : Captured(c)

SnapInv == SnapshotTypes /\ StoreOK /\ \A k \in Client : ClientOK(k)

USE DEF CreatePcs, SelectPcs, ReadPcs

LEMMA SnapInvInit == SnapshotInit => SnapInv
<1> SUFFICES ASSUME SnapshotInit PROVE SnapInv
  OBVIOUS
<1>1. NoRequest \in Request /\ NoRequest.kind = "none"
  BY DEF NoRequest, Request, SnapshotKind
<1>2. SnapshotTypes
  BY <1>1, SnapshotAssumption DEF SnapshotInit, SnapshotTypes, SnapshotPcs
<1>3. StoreOK
  BY DEF SnapshotInit, StoreOK
<1>4. \A k \in Client : ClientOK(k)
  BY <1>1 DEF SnapshotInit, ClientOK
<1> QED
  BY <1>2, <1>3, <1>4 DEF SnapInv

LEMMA CapturedStays ==
  ASSUME ObjectsOnlyDecay, NEW c \in Catalog, Captured(c) PROVE Captured(c)'
<1> SUFFICES ASSUME NEW s \in Source, c.sources[s] # None
             PROVE  Object(s, c.sources[s])' \in {c.sources[s].hash, "damaged"} \ {"absent"}
  BY DEF Captured
<1> DEFINE e == c.sources[s]
           g == [source |-> s, sha |-> e.sha, opts |-> e.opts]
<1>1. e \in Entry
  BY DEF Catalog
<1>2. g \in Generation /\ e.rows \in Content
  BY <1>1 DEF Entry, Generation
<1>3. objects[g][e.rows] \in {e.hash, "damaged"} \ {"absent"}
  BY DEF Captured, Object
<1> HIDE DEF e, g
<1>4. objects'[g][e.rows] \in {e.hash, "damaged"} \ {"absent"}
  BY <1>2, <1>3 DEF ObjectsOnlyDecay
<1> QED
  BY <1>4 DEF Object, e, g

\* Converters disturb no snapshot command: it holds the lock, or relies on nothing they write.
LEMMA ConverterKeepsSnapInv ==
  ASSUME Cat!IInv, SnapInv, Next, UNCHANGED snapshotVars PROVE SnapInv'
<1>1. ObjectsOnlyDecay
  BY ConvertersKeepObjects
<1>2. UNCHANGED <<snapshots, snapTemps, pointer, pointerTemps, chosen, spc, request, sbudget>>
  BY DEF snapshotVars, snapshotDisk
<1>3. SnapshotTypes'
  BY <1>2 DEF SnapInv, SnapshotTypes
<1>4. StoreOK'
  BY <1>1, <1>2, CapturedStays DEF SnapInv, SnapshotTypes, StoreOK
<1>5. ASSUME NEW k \in Client PROVE ClientOK(k)'
  <2>1. ClientOK(k) /\ request[k] \in Request
    BY DEF SnapInv, SnapshotTypes
  <2>2. spc[k] \in CreatePcs \cup SelectPcs => guard' = guard /\ file' = file
    BY <2>1, LockFreezesCatalog DEF ClientOK
  <2>3. spc[k] \in {"target", "link"} => Captured(request[k].id)'
    <3> SUFFICES ASSUME spc[k] \in {"target", "link"} PROVE Captured(request[k].id)'
      OBVIOUS
    <3>1. request[k].id \in Catalog /\ Captured(request[k].id)
      BY <2>1 DEF ClientOK, Request
    <3>2. PICK c : c = request[k].id
      OBVIOUS
    <3>3. Captured(c)'
      BY <1>1, <3>1, <3>2, CapturedStays
    <3> QED
      BY <1>2, <3>2, <3>3 DEF Captured
  <2> QED
    BY <1>2, <2>1, <2>2, <2>3 DEF ClientOK
<1> QED
  BY <1>3, <1>4, <1>5 DEF SnapInv

-----------------------------------------------------------------------------
(* The steps of a snapshot command *)

\* What client k may change without disturbing the others.
Only(k) ==
  /\ \A j \in Client \ {k} : /\ spc'[j] = spc[j] /\ request'[j] = request[j]
                             /\ guard = j => guard' = j
  /\ UNCHANGED <<file, objects>>
  /\ snapshots \subseteq snapshots' /\ chosen \subseteq chosen'

LEMMA OthersKeepTheirs ==
  ASSUME SnapInv, NEW k \in Client, Only(k), SnapshotTypes', StoreOK', ClientOK(k)'
  PROVE  SnapInv'
<1>1. ASSUME NEW c PROVE Captured(c)' <=> Captured(c)
  BY DEF Only, Captured, Object
<1>2. ASSUME NEW j \in Client \ {k} PROVE ClientOK(j)'
  <2>1. ClientOK(j)
    BY DEF SnapInv
  <2>2. /\ spc'[j] = spc[j] /\ request'[j] = request[j] /\ (guard = j => guard' = j)
        /\ file' = file /\ snapshots \subseteq snapshots' /\ chosen \subseteq chosen'
    BY DEF Only
  <2>3. Captured(request[j].id) => Captured(request[j].id)'
    BY <2>2 DEF Only, Captured, Object
  <2> QED
    BY <2>1, <2>2, <2>3 DEF ClientOK
<1> QED
  BY <1>2 DEF SnapInv

\* Every return, and a kill.
LEMMA SExitOK ==
  ASSUME SnapInv, NEW k \in Client, SExit(k)
  PROVE  /\ spc' \in [Client -> SnapshotPcs] /\ request' \in [Client -> Request]
         /\ \A j \in Client \ {k} : /\ spc'[j] = spc[j] /\ request'[j] = request[j]
                                    /\ guard = j => guard' = j
         /\ ClientOK(k)'
<1>1. NoRequest \in Request /\ NoRequest.kind = "none"
  BY DEF NoRequest, Request, SnapshotKind
<1>2. spc' = [spc EXCEPT ![k] = "idle"] /\ request' = [request EXCEPT ![k] = NoRequest]
  BY DEF SExit
<1>3. spc'[k] = "idle" /\ request'[k] = NoRequest
  BY <1>2 DEF SnapInv, SnapshotTypes
<1>4. ClientOK(k)'
  BY <1>1, <1>3 DEF ClientOK
<1> QED
  BY <1>1, <1>2, <1>4 DEF SExit, SnapInv, SnapshotTypes, SnapshotPcs

LEMMA LockRefusedOK ==
  ASSUME Cat!IInv, CommittedPublished, SnapInv, NEW k \in Client, LockRefused(k), UNCHANGED catalogVars
  PROVE  SnapInv'
<1> USE DEF LockRefused
<1>1. SExit(k)
  OBVIOUS
<1>2. SnapshotTypes'
  BY <1>1, SExitOK DEF SnapInv, SnapshotTypes, Orphaned, SnapshotKeys, snapshotDisk
<1>3. StoreOK'
  BY DEF SnapInv, StoreOK, Captured, Object, catalogVars, diskVars, snapshotDisk
<1>4. Only(k)
  BY <1>1, SExitOK DEF Only, catalogVars, diskVars, snapshotDisk
<1> QED
  BY <1>1, <1>2, <1>3, <1>4, SExitOK, OthersKeepTheirs

LEMMA SnapshotFailsOK ==
  ASSUME Cat!IInv, CommittedPublished, SnapInv, NEW k \in Client, SnapshotFails(k), UNCHANGED catalogVars
  PROVE  SnapInv'
<1> USE DEF SnapshotFails
<1>1. SExit(k)
  OBVIOUS
<1>2. SnapshotTypes'
  BY <1>1, SExitOK DEF SnapInv, SnapshotTypes, Orphaned, SnapshotKeys, snapshotDisk
<1>3. StoreOK'
  BY DEF SnapInv, StoreOK, Captured, Object, catalogVars, diskVars, snapshotDisk
<1>4. Only(k)
  BY <1>1, SExitOK DEF Only, catalogVars, diskVars, snapshotDisk
<1> QED
  BY <1>1, <1>2, <1>3, <1>4, SExitOK, OthersKeepTheirs

LEMMA ResolveSnapshotOK ==
  ASSUME Cat!IInv, CommittedPublished, SnapInv, NEW k \in Client, ResolveSnapshot(k), UNCHANGED catalogVars
  PROVE  SnapInv'
<1> USE DEF ResolveSnapshot
<1>1. SExit(k)
  OBVIOUS
<1>2. SnapshotTypes'
  BY <1>1, SExitOK DEF SnapInv, SnapshotTypes, Orphaned, SnapshotKeys, snapshotDisk
<1>3. StoreOK'
  BY DEF SnapInv, StoreOK, Captured, Object, catalogVars, diskVars, snapshotDisk
<1>4. Only(k)
  BY <1>1, SExitOK DEF Only, catalogVars, diskVars, snapshotDisk
<1> QED
  BY <1>1, <1>2, <1>3, <1>4, SExitOK, OthersKeepTheirs

LEMMA SnapshotKillOK ==
  ASSUME Cat!IInv, CommittedPublished, SnapInv, NEW k \in Client, SnapshotKill(k), UNCHANGED catalogVars
  PROVE  SnapInv'
<1> USE DEF SnapshotKill
<1>1. SExit(k)
  OBVIOUS
<1>2. SnapshotTypes'
  BY <1>1, SExitOK DEF SnapInv, SnapshotTypes, Orphaned, SnapshotKeys, snapshotDisk
<1>3. StoreOK'
  BY DEF SnapInv, StoreOK, Captured, Object, catalogVars, diskVars, snapshotDisk
<1>4. Only(k)
  BY <1>1, SExitOK DEF Only, catalogVars, diskVars, snapshotDisk
<1> QED
  BY <1>1, <1>2, <1>3, <1>4, SExitOK, OthersKeepTheirs

LEMMA UnlinkFailsOK ==
  ASSUME Cat!IInv, CommittedPublished, SnapInv, NEW k \in Client, UnlinkFails(k), UNCHANGED catalogVars
  PROVE  SnapInv'
<1> USE DEF UnlinkFails
<1>1. SExit(k)
  OBVIOUS
<1>2. SnapshotTypes'
  BY <1>1, SExitOK DEF SnapInv, SnapshotTypes, Orphaned, SnapshotKeys, snapshotDisk
<1>3. StoreOK'
  BY DEF SnapInv, StoreOK, Captured, Object, catalogVars, diskVars, snapshotDisk
<1>4. Only(k)
  BY <1>1, SExitOK DEF Only, catalogVars, diskVars, snapshotDisk
<1> QED
  BY <1>1, <1>2, <1>3, <1>4, SExitOK, OthersKeepTheirs

LEMMA LockForSnapshotOK ==
  ASSUME Cat!IInv, CommittedPublished, SnapInv, NEW k \in Client, LockForSnapshot(k), UNCHANGED catalogVars
  PROVE  SnapInv'
<1> USE DEF LockForSnapshot
<1>1. SnapshotTypes'
  BY DEF SnapInv, SnapshotTypes, SnapshotPcs, SGoto, snapshotDisk, Request
<1>2. StoreOK'
  BY DEF SnapInv, StoreOK, Captured, Object, catalogVars, diskVars, snapshotDisk
<1>3. Only(k)
  BY SnapshotAssumption DEF Only, SnapInv, SnapshotTypes, SGoto, catalogVars, diskVars, snapshotDisk
<1>4. ClientOK(k)'
  BY DEF SnapInv, SnapshotTypes, ClientOK, SGoto, Request, catalogVars, diskVars, snapshotDisk
<1> QED
  BY <1>1, <1>2, <1>3, <1>4, OthersKeepTheirs

LEMMA LoadCatalogOK ==
  ASSUME Cat!IInv, CommittedPublished, SnapInv, NEW k \in Client, LoadCatalog(k), UNCHANGED catalogVars
  PROVE  SnapInv'
<1> USE DEF LoadCatalog
<1>0. file \in Catalog
  BY CatTypes
<1>1. SnapshotTypes'
  BY <1>0 DEF SnapInv, SnapshotTypes, SnapshotPcs, SGoto, snapshotDisk, Request
<1>2. StoreOK'
  BY DEF SnapInv, StoreOK, Captured, Object, catalogVars, diskVars, snapshotDisk
<1>3. Only(k)
  BY SnapshotAssumption DEF Only, SnapInv, SnapshotTypes, SGoto, catalogVars, diskVars, snapshotDisk
<1>4. ClientOK(k)'
  BY <1>0 DEF SnapInv, SnapshotTypes, ClientOK, SGoto, Request, catalogVars, diskVars, snapshotDisk
<1> QED
  BY <1>1, <1>2, <1>3, <1>4, OthersKeepTheirs

LEMMA HashSelectionOK ==
  ASSUME Cat!IInv, CommittedPublished, SnapInv, NEW k \in Client, HashSelection(k), UNCHANGED catalogVars
  PROVE  SnapInv'
<1> USE DEF HashSelection
<1>0. Captured(request[k].id)'
  <2>1. request[k].id = file /\ file # None /\ ClientOK(k)
    BY DEF SnapInv, ClientOK
  <2>2. Captured(file)
    BY <2>1 DEF Verified, Verifies, CommittedPublished, Captured
  <2> QED
    BY <2>1, <2>2 DEF Captured, Object, catalogVars, diskVars
<1>1. SnapshotTypes'
  BY DEF SnapInv, SnapshotTypes, SnapshotPcs, SGoto, snapshotDisk, Request
<1>2. StoreOK'
  BY DEF SnapInv, StoreOK, Captured, Object, catalogVars, diskVars, snapshotDisk
<1>3. Only(k)
  BY SnapshotAssumption DEF Only, SnapInv, SnapshotTypes, SGoto, catalogVars, diskVars, snapshotDisk
<1>4. ClientOK(k)'
  BY <1>0 DEF SnapInv, SnapshotTypes, ClientOK, SGoto, Request, catalogVars, diskVars, snapshotDisk
<1> QED
  BY <1>1, <1>2, <1>3, <1>4, OthersKeepTheirs

LEMMA StageSnapshotOK ==
  ASSUME Cat!IInv, CommittedPublished, SnapInv, NEW k \in Client, StageSnapshot(k), UNCHANGED catalogVars
  PROVE  SnapInv'
<1> USE DEF StageSnapshot
<1>0. Captured(request[k].id)'
  BY DEF SnapInv, ClientOK, Captured, Object, catalogVars, diskVars
<1>1. SnapshotTypes'
  BY DEF SnapInv, SnapshotTypes, SnapshotPcs, SGoto, snapshotDisk, Request
<1>2. StoreOK'
  BY DEF SnapInv, StoreOK, Captured, Object, catalogVars, diskVars, snapshotDisk
<1>3. Only(k)
  BY SnapshotAssumption DEF Only, SnapInv, SnapshotTypes, SGoto, catalogVars, diskVars, snapshotDisk
<1>4. ClientOK(k)'
  BY <1>0 DEF SnapInv, SnapshotTypes, ClientOK, SGoto, Request, catalogVars, diskVars, snapshotDisk
<1> QED
  BY <1>1, <1>2, <1>3, <1>4, OthersKeepTheirs

LEMMA LinkSnapshotOK ==
  ASSUME Cat!IInv, CommittedPublished, SnapInv, NEW k \in Client, LinkSnapshot(k), UNCHANGED catalogVars
  PROVE  SnapInv'
<1> USE DEF LinkSnapshot
<1>0. Captured(request[k].id) /\ request[k].id \in Catalog
  BY DEF SnapInv, ClientOK, SnapshotTypes, Request
<1>1. SnapshotTypes'
  BY <1>0 DEF SnapInv, SnapshotTypes, SnapshotPcs, SGoto, snapshotDisk, Request
<1>2. StoreOK'
  BY <1>0 DEF SnapInv, StoreOK, Captured, Object, catalogVars, diskVars, snapshotDisk
<1>3. Only(k)
  BY SnapshotAssumption DEF Only, SnapInv, SnapshotTypes, SGoto, catalogVars, diskVars, snapshotDisk
<1>4. ClientOK(k)'
  BY <1>0 DEF SnapInv, SnapshotTypes, ClientOK, SGoto, Request, catalogVars, diskVars, snapshotDisk
<1> QED
  BY <1>1, <1>2, <1>3, <1>4, OthersKeepTheirs

LEMMA CheckSelectedOK ==
  ASSUME Cat!IInv, CommittedPublished, SnapInv, NEW k \in Client, CheckSelected(k), UNCHANGED catalogVars
  PROVE  SnapInv'
<1> USE DEF CheckSelected
<1>1. SnapshotTypes'
  BY DEF SnapInv, SnapshotTypes, SnapshotPcs, SGoto, snapshotDisk, Request
<1>2. StoreOK'
  BY DEF SnapInv, StoreOK, Captured, Object, catalogVars, diskVars, snapshotDisk
<1>3. Only(k)
  BY SnapshotAssumption DEF Only, SnapInv, SnapshotTypes, SGoto, catalogVars, diskVars, snapshotDisk
<1>4. ClientOK(k)'
  BY DEF SnapInv, SnapshotTypes, ClientOK, SGoto, Request, catalogVars, diskVars, snapshotDisk, VerifySnapshot
<1> QED
  BY <1>1, <1>2, <1>3, <1>4, OthersKeepTheirs

LEMMA StagePointerOK ==
  ASSUME Cat!IInv, CommittedPublished, SnapInv, NEW k \in Client, StagePointer(k), UNCHANGED catalogVars
  PROVE  SnapInv'
<1> USE DEF StagePointer
<1>1. SnapshotTypes'
  BY DEF SnapInv, SnapshotTypes, SnapshotPcs, SGoto, snapshotDisk, Request
<1>2. StoreOK'
  BY DEF SnapInv, StoreOK, Captured, Object, catalogVars, diskVars, snapshotDisk
<1>3. Only(k)
  BY SnapshotAssumption DEF Only, SnapInv, SnapshotTypes, SGoto, catalogVars, diskVars, snapshotDisk
<1>4. ClientOK(k)'
  BY DEF SnapInv, SnapshotTypes, ClientOK, SGoto, Request, catalogVars, diskVars, snapshotDisk
<1> QED
  BY <1>1, <1>2, <1>3, <1>4, OthersKeepTheirs

LEMMA ReadPointerOK ==
  ASSUME Cat!IInv, CommittedPublished, SnapInv, NEW k \in Client, ReadPointer(k), UNCHANGED catalogVars
  PROVE  SnapInv'
<1> USE DEF ReadPointer
<1>1. SnapshotTypes'
  BY DEF SnapInv, SnapshotTypes, SnapshotPcs, SGoto, snapshotDisk, Request
<1>2. StoreOK'
  BY DEF SnapInv, StoreOK, Captured, Object, catalogVars, diskVars, snapshotDisk
<1>3. Only(k)
  BY SnapshotAssumption DEF Only, SnapInv, SnapshotTypes, SGoto, catalogVars, diskVars, snapshotDisk
<1>4. ClientOK(k)'
  BY DEF SnapInv, SnapshotTypes, ClientOK, SGoto, Request, catalogVars, diskVars, snapshotDisk, StoreOK
<1> QED
  BY <1>1, <1>2, <1>3, <1>4, OthersKeepTheirs

\* Ok of create: the command ends, or locks again to select what it created.
LEMMA CreatedOK ==
  ASSUME SnapInv, NEW k \in Client, Created(k)
  PROVE  /\ spc' \in [Client -> SnapshotPcs] /\ request' \in [Client -> Request]
         /\ \A j \in Client \ {k} : /\ spc'[j] = spc[j] /\ request'[j] = request[j]
                                    /\ guard = j => guard' = j
         /\ ClientOK(k)'
<1>1. CASE SExit(k)
  BY <1>1, SExitOK
<1>2. CASE /\ guard' = IF guard = k THEN None ELSE guard
           /\ request' = [request EXCEPT ![k] = [request[k] EXCEPT !.kind = "select", !.thenSelect = FALSE]]
           /\ SGoto(k, "lock")
  <2>1. request[k] \in Request
    BY DEF SnapInv, SnapshotTypes
  <2>2. [request[k] EXCEPT !.kind = "select", !.thenSelect = FALSE] \in Request
    BY <2>1 DEF Request, SnapshotKind
  <2>3. /\ spc' \in [Client -> SnapshotPcs] /\ request' \in [Client -> Request]
        /\ spc'[k] = "lock" /\ request'[k].kind = "select"
    BY <1>2, <2>1, <2>2 DEF SnapInv, SnapshotTypes, SGoto, SnapshotPcs, Request
  <2>4. ClientOK(k)'
    BY <2>3 DEF ClientOK
  <2> QED
    BY <1>2, <2>3, <2>4 DEF SnapInv, SnapshotTypes, SGoto
<1> QED
  BY <1>1, <1>2 DEF Created, SnapInv, SnapshotTypes

LEMMA ReuseSnapshotOK ==
  ASSUME Cat!IInv, CommittedPublished, SnapInv, NEW k \in Client, ReuseSnapshot(k), UNCHANGED catalogVars
  PROVE  SnapInv'
<1> USE DEF ReuseSnapshot
<1>1. SnapshotTypes'
  BY CreatedOK DEF SnapInv, SnapshotTypes, snapshotDisk
<1>2. StoreOK'
  BY DEF SnapInv, StoreOK, Captured, Object, catalogVars, diskVars, snapshotDisk
<1>3. Only(k)
  BY CreatedOK DEF Only, catalogVars, diskVars, snapshotDisk
<1> QED
  BY <1>1, <1>2, <1>3, CreatedOK, OthersKeepTheirs

LEMMA UnlinkTempOK ==
  ASSUME Cat!IInv, CommittedPublished, SnapInv, NEW k \in Client, UnlinkTemp(k), UNCHANGED catalogVars
  PROVE  SnapInv'
<1> USE DEF UnlinkTemp
<1>1. SnapshotTypes'
  BY CreatedOK DEF SnapInv, SnapshotTypes, snapshotDisk
<1>2. StoreOK'
  BY DEF SnapInv, StoreOK, Captured, Object, catalogVars, diskVars, snapshotDisk
<1>3. Only(k)
  BY CreatedOK DEF Only, catalogVars, diskVars, snapshotDisk
<1> QED
  BY <1>1, <1>2, <1>3, CreatedOK, OthersKeepTheirs

LEMMA ReplacePointerOK ==
  ASSUME Cat!IInv, CommittedPublished, SnapInv, NEW k \in Client, ReplacePointer(k), UNCHANGED catalogVars
  PROVE  SnapInv'
<1> USE DEF ReplacePointer
<1>1. SExit(k) /\ request[k].id \in snapshots /\ request[k].id \in Catalog
  BY DEF SnapInv, SnapshotTypes, ClientOK
<1>2. SnapshotTypes'
  BY <1>1, SExitOK DEF SnapInv, SnapshotTypes
<1>3. StoreOK'
  BY <1>1 DEF SnapInv, StoreOK, Captured, Object, catalogVars, diskVars
<1>4. Only(k)
  BY <1>1, SExitOK DEF Only, catalogVars, diskVars
<1> QED
  BY <1>1, <1>2, <1>3, <1>4, SExitOK, OthersKeepTheirs

LEMMA StartSnapshotCommandOK ==
  ASSUME Cat!IInv, CommittedPublished, SnapInv, NEW k \in Client, StartSnapshotCommand(k), UNCHANGED catalogVars
  PROVE  SnapInv'
<1> USE DEF StartSnapshotCommand
<1>0. file \in Catalog \cup {None}
  BY CatTypes
<1>1. PICK key, at, r : /\ StartSnapshot(k, key, at, r) /\ r \in Request
                        /\ key \in SnapshotKeys
                        /\ \/ at = "lock" /\ r.kind \in {"create", "select"}
                           \/ at \in {"pointer", "resolve"} /\ r.kind = "current" /\ r.id = None
                           \/ at \in {"pointer", "resolve"} /\ r.kind = "verify"
  <2>1. NoRequest \in Request
    BY DEF NoRequest, Request, SnapshotKind
  <2>2. KnownIds \subseteq Catalog
    BY <1>0 DEF KnownIds, SnapInv, SnapshotTypes
  <2>3. CASE StartCreate(k)
    <3>1. PICK allow, select \in BOOLEAN :
            StartSnapshot(k, "create", "lock",
              [NoRequest EXCEPT !.kind = "create", !.allow = allow, !.thenSelect = select])
      BY <2>3 DEF StartCreate
    <3> DEFINE r == [NoRequest EXCEPT !.kind = "create", !.allow = allow, !.thenSelect = select]
    <3>2. r \in Request /\ r.kind = "create"
      BY DEF NoRequest, Request, SnapshotKind
    <3> HIDE DEF r
    <3> QED
      BY <3>1, <3>2 DEF SnapshotKeys, r
  <2>4. CASE StartSelect(k)
    <3>1. PICK id \in KnownIds, allow \in BOOLEAN :
            StartSnapshot(k, "select", "lock",
              [NoRequest EXCEPT !.kind = "select", !.id = id, !.allow = allow])
      BY <2>4 DEF StartSelect
    <3> DEFINE r == [NoRequest EXCEPT !.kind = "select", !.id = id, !.allow = allow]
    <3>2. r \in Request /\ r.kind = "select"
      BY <2>2 DEF NoRequest, Request, SnapshotKind
    <3> HIDE DEF r
    <3> QED
      BY <3>1, <3>2 DEF SnapshotKeys, r
  <2>5. CASE StartCurrent(k)
    <3> DEFINE r == [NoRequest EXCEPT !.kind = "current"]
    <3>1. r \in Request /\ r.kind = "current" /\ r.id = None
      BY DEF NoRequest, Request, SnapshotKind
    <3> HIDE DEF r
    <3> QED
      BY <2>5, <3>1 DEF StartCurrent, SnapshotKeys, r
  <2>6. CASE StartVerify(k)
    <3>1. PICK id \in KnownIds :
            StartSnapshot(k, "read", "resolve", [NoRequest EXCEPT !.kind = "verify", !.id = id])
      BY <2>6 DEF StartVerify
    <3> DEFINE r == [NoRequest EXCEPT !.kind = "verify", !.id = id]
    <3>2. r \in Request /\ r.kind = "verify"
      BY <2>2 DEF NoRequest, Request, SnapshotKind
    <3> HIDE DEF r
    <3> QED
      BY <3>1, <3>2 DEF SnapshotKeys, r
  <2> QED
    BY <2>3, <2>4, <2>5, <2>6
<1>2. /\ spc' = [spc EXCEPT ![k] = at] /\ request' = [request EXCEPT ![k] = r]
      /\ sbudget[key] > 0 /\ sbudget' = [sbudget EXCEPT ![key] = sbudget[key] - 1]
      /\ UNCHANGED <<guard, snapshots, snapTemps, pointer, pointerTemps, chosen>>
  BY <1>1 DEF StartSnapshot, SGoto, snapshotDisk
<1>3. sbudget' \in [SnapshotKeys -> Nat]
  BY <1>1, <1>2 DEF SnapInv, SnapshotTypes
<1>4. SnapshotTypes'
  BY <1>1, <1>2, <1>3 DEF SnapInv, SnapshotTypes, SnapshotPcs, ReadPcs
<1>5. StoreOK'
  BY <1>2 DEF SnapInv, StoreOK, Captured, Object, catalogVars, diskVars
<1>6. Only(k)
  BY <1>2 DEF Only, SnapInv, SnapshotTypes, catalogVars, diskVars
<1>7. spc'[k] = at /\ request'[k] = r
  BY <1>2 DEF SnapInv, SnapshotTypes
<1>8. ClientOK(k)'
  BY <1>1, <1>7 DEF ClientOK
<1> QED
  BY <1>4, <1>5, <1>6, <1>8, OthersKeepTheirs

LEMMA SnapInvStep ==
  Cat!IInv /\ CommittedPublished /\ SnapInv /\ [SnapshotNext]_allVars => SnapInv'
<1> SUFFICES ASSUME Cat!IInv, CommittedPublished, SnapInv, [SnapshotNext]_allVars PROVE SnapInv'
  OBVIOUS
<1>1. CASE Next /\ UNCHANGED snapshotVars
  BY <1>1, ConverterKeepsSnapInv
<1>2. ASSUME NEW k \in Client, SnapshotStep(k), UNCHANGED catalogVars PROVE SnapInv'
  BY <1>2, LockForSnapshotOK, LockRefusedOK, LoadCatalogOK, HashSelectionOK, ReuseSnapshotOK,
     StageSnapshotOK, LinkSnapshotOK, UnlinkTempOK, UnlinkFailsOK, SnapshotFailsOK,
     CheckSelectedOK, StagePointerOK, ReplacePointerOK, ReadPointerOK, ResolveSnapshotOK
     DEF SnapshotStep
<1>3. CASE UNCHANGED allVars
  BY <1>3 DEF allVars, vars, diskVars, snapshotVars, snapshotDisk, SnapInv, SnapshotTypes, StoreOK,
     ClientOK, Captured, Object
<1> QED
  BY <1>1, <1>2, <1>3, StartSnapshotCommandOK, SnapshotKillOK DEF SnapshotNext

\* The invariant of the snapshot commands, beside that of the converters.
THEOREM SnapshotInvariant == SnapshotSpec => [](Cat!IInv /\ SnapInv)
<1>1. SnapshotSpec => []Cat!IInv
  BY CatAssumption, CatNone, SnapshotsKeepConverters, Cat!InvariantHolds, PTL
<1> QED
  BY <1>1, SnapInvInit, SnapInvStep, CatalogStaysPublished, PTL DEF SnapshotSpec

\* Every variable of the snapshot commands keeps its type.
THEOREM SnapshotTypesHold == SnapshotSpec => []SnapshotTypeOK
<1>1. Cat!IInv /\ SnapInv => SnapshotTypeOK
  BY CatTypes DEF SnapInv, SnapshotTypes, SnapshotTypeOK
<1> QED
  BY <1>1, SnapshotInvariant, PTL

\* The pointer names a descriptor that exists, whatever is killed between the two
\* files of create_snapshot --select and whatever converters do meanwhile.
THEOREM PointerHasDescriptor == SnapshotSpec => []PointerSelectsSnapshot
<1>1. Cat!IInv /\ SnapInv => PointerSelectsSnapshot
  BY DEF SnapInv, StoreOK, PointerSelectsSnapshot
<1> QED
  BY <1>1, SnapshotInvariant, PTL

\* A reader of the current snapshot resolves what was explicitly selected.
THEOREM CurrentWasSelected == SnapshotSpec => []CurrentNeverFallsBack
<1>1. Cat!IInv /\ SnapInv => CurrentNeverFallsBack
  BY DEF SnapInv, ClientOK, CurrentNeverFallsBack
<1> QED
  BY <1>1, SnapshotInvariant, PTL

\* Only damage from outside can make a published snapshot fail its verification: no
\* conversion, recovery, kill or snapshot command ever removes or rewrites its objects.
THEOREM SnapshotsOutliveConversions == SnapshotSpec => []SnapshotsStayVerifiable
<1>1. Cat!IInv /\ SnapInv => SnapshotsStayVerifiable
  BY DEF SnapInv, StoreOK, Captured, SnapshotsStayVerifiable
<1> QED
  BY <1>1, SnapshotInvariant, PTL

\* A descriptor freezes the catalog that is current when it appears, several steps
\* after it was read: the lock keeps every converter from replacing it meanwhile.
THEOREM SnapshotsAreCurrent == SnapshotSpec => SnapshotCapturesCurrent
<1>1. Cat!IInv /\ SnapInv /\ [SnapshotNext]_allVars =>
        [\A c \in snapshots' \ snapshots : c = file /\ c.run.status # "running"]_allVars
  <2> SUFFICES ASSUME SnapInv, SnapshotNext, NEW c \in snapshots' \ snapshots
               PROVE  c = file /\ c.run.status # "running"
    BY DEF allVars, vars, snapshotVars, snapshotDisk
  <2>1. PICK k \in Client : LinkSnapshot(k)
    BY DEF SnapshotNext, snapshotVars, snapshotDisk, StartSnapshotCommand, StartCreate, StartSelect,
       StartCurrent, StartVerify, StartSnapshot, SnapshotStep, SnapshotKill, LockForSnapshot,
       LockRefused, LoadCatalog, HashSelection, ReuseSnapshot, StageSnapshot, UnlinkTemp,
       UnlinkFails, SnapshotFails, CheckSelected, StagePointer, ReplacePointer, ReadPointer,
       ResolveSnapshot
  <2>2. c = request[k].id /\ c = file /\ Selectable(c, request[k].allow)
    BY <2>1 DEF LinkSnapshot, SnapInv, ClientOK
  <2> QED
    BY <2>2 DEF Selectable, Status
<1> QED
  BY <1>1, SnapshotInvariant, PTL DEF SnapshotSpec, SnapshotCapturesCurrent

\* A snapshot of an incomplete run becomes current only by a command that was itself
\* given --allow-incomplete.
THEOREM IncompleteIsAskedFor == SnapshotSpec => IncompleteNeedsOwnFlag
<1>1. Cat!IInv /\ SnapInv /\ [SnapshotNext]_allVars =>
        [pointer' # pointer =>
           \/ Selectable(pointer', FALSE)
           \/ \E k \in Client : spc[k] = "replace" /\ request[k].allow]_allVars
  <2> SUFFICES ASSUME SnapInv, SnapshotNext, pointer' # pointer
               PROVE  \/ Selectable(pointer', FALSE)
                      \/ \E k \in Client : spc[k] = "replace" /\ request[k].allow
    BY DEF allVars, vars, snapshotVars, snapshotDisk
  <2>1. PICK k \in Client : ReplacePointer(k)
    BY DEF SnapshotNext, snapshotVars, snapshotDisk, StartSnapshotCommand, StartCreate, StartSelect,
       StartCurrent, StartVerify, StartSnapshot, SnapshotStep, SnapshotKill, LockForSnapshot,
       LockRefused, LoadCatalog, HashSelection, ReuseSnapshot, StageSnapshot, LinkSnapshot,
       UnlinkTemp, UnlinkFails, SnapshotFails, CheckSelected, StagePointer, ReadPointer,
       ResolveSnapshot
  <2>2. /\ spc[k] = "replace" /\ pointer' = request[k].id
        /\ Selectable(request[k].id, request[k].allow) /\ request[k].allow \in BOOLEAN
    BY <2>1 DEF ReplacePointer, SnapInv, ClientOK, SnapshotTypes, Request
  <2>3. CASE request[k].allow
    BY <2>2, <2>3
  <2>4. CASE ~request[k].allow
    <3>1. request[k].allow = FALSE
      BY <2>2, <2>4
    <3> QED
      BY <2>2, <3>1
  <2> QED
    BY <2>3, <2>4
<1> QED
  BY <1>1, SnapshotInvariant, PTL DEF SnapshotSpec, IncompleteNeedsOwnFlag

=============================================================================
