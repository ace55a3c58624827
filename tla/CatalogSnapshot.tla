--------------------------- MODULE CatalogSnapshot ---------------------------
(***************************************************************************)
(* Immutable catalog snapshots and the explicit current-snapshot pointer:   *)
(* stdf-parquet/src/snapshot.rs and the commands of stdf-cli/src/snapshot.rs *)
(* that create, select, read and verify them, running beside the converters, *)
(* guardless writers and recoveries of DatasetCatalog on one dataset.       *)
(*                                                                          *)
(* A descriptor is named by the SHA-256 of the catalog it freezes, so the    *)
(* catalog value is its id.                                                 *)
(***************************************************************************)
EXTENDS DatasetCatalog

CONSTANTS
  Client,          \* slots in which a snapshot command may run
  SnapshotBudget   \* how many snapshot commands and kills may happen

SnapshotKeys == {"create", "select", "read", "kill"}

ASSUME SnapshotAssumption ==
  /\ Client \cap (Proc \cup {None, Orphan}) = {}
  /\ SnapshotBudget \in [SnapshotKeys -> Nat]

SnapshotKind == {"none", "create", "select", "current", "verify"}
Request == [kind : SnapshotKind, id : Catalog \cup {None},
            allow : BOOLEAN, thenSelect : BOOLEAN]
NoRequest == [kind |-> "none", id |-> None, allow |-> FALSE, thenSelect |-> FALSE]

VARIABLES
  snapshots,     \* catalogs with a descriptor snapshots/<id>.json
  snapTemps,     \* owners of snapshots/.snapshot-*.tmp files
  pointer,       \* the id in _current_snapshot.json, or None
  pointerTemps,  \* owners of _current_snapshot.json.tmp.* files
  chosen,        \* history: every id the pointer has held
  spc, request,  \* per client: next step and the command's arguments
  sbudget

snapshotDisk == <<snapshots, snapTemps, pointer, pointerTemps, chosen>>
snapshotVars == <<snapshotDisk, spc, request, sbudget>>
catalogVars == <<diskVars, content, pc, pid, cat, job, budget>>
allVars == <<vars, snapshotVars>>

CreatePcs == {"load", "hash", "target", "link", "unlink"}
SelectPcs == {"check", "stage", "replace"}
ReadPcs == {"pointer", "resolve"}
SnapshotPcs == {"idle", "lock"} \cup CreatePcs \cup SelectPcs \cup ReadPcs

SnapshotInit ==
  /\ Init
  /\ snapshots = {} /\ snapTemps = {} /\ chosen = {}
  /\ pointer = None /\ pointerTemps = {}
  /\ spc = [k \in Client |-> "idle"]
  /\ request = [k \in Client |-> NoRequest]
  /\ sbudget = SnapshotBudget

-----------------------------------------------------------------------------
(* Verification, shared by every command *)

\* validate_selection
Selectable(c, allow) ==
  /\ c.run.status \in IF allow THEN Status \ {"running"} ELSE {"complete"}
  /\ allow \/ c.run.failures = {}
  /\ c.sources # NoEntry

\* verify_managed_paths and verify_catalog_data
Verified(c) == \A s \in Source : c.sources[s] # None => Verifies(s, c.sources[s])

\* verify_snapshot: the descriptor exists and its objects are still the captured ones
VerifySnapshot(id) == id \in snapshots /\ Selectable(id, TRUE) /\ Verified(id)

-----------------------------------------------------------------------------
SGoto(k, to) == spc' = [spc EXCEPT ![k] = to]
SExit(k) ==
  /\ spc' = [spc EXCEPT ![k] = "idle"]
  /\ request' = [request EXCEPT ![k] = NoRequest]
  /\ guard' = IF guard = k THEN None ELSE guard

StartSnapshot(k, key, at, r) ==
  /\ spc[k] = "idle" /\ sbudget[key] > 0
  /\ sbudget' = [sbudget EXCEPT ![key] = @ - 1]
  /\ SGoto(k, at)
  /\ request' = [request EXCEPT ![k] = r]
  /\ UNCHANGED <<guard, snapshotDisk>>

\* An id a user can have: of a snapshot of this dataset, or of the catalog it
\* holds now, captured in another copy of the dataset.
KnownIds == snapshots \cup ({file} \ {None})

StartCreate(k) ==
  \E allow, select \in BOOLEAN :
    StartSnapshot(k, "create", "lock",
      [NoRequest EXCEPT !.kind = "create", !.allow = allow, !.thenSelect = select])
StartSelect(k) ==
  \E id \in KnownIds, allow \in BOOLEAN :
    StartSnapshot(k, "select", "lock",
      [NoRequest EXCEPT !.kind = "select", !.id = id, !.allow = allow])
\* current_snapshot, and resolve_snapshot without an id
StartCurrent(k) ==
  StartSnapshot(k, "read", "pointer", [NoRequest EXCEPT !.kind = "current"])
\* verify_snapshot, and resolve_snapshot with an id
StartVerify(k) ==
  \E id \in KnownIds :
    StartSnapshot(k, "read", "resolve", [NoRequest EXCEPT !.kind = "verify", !.id = id])

\* Faulty variant for mutation runs: capture without the writer lock.
LockForSnapshotFreely(k) ==
  /\ spc[k] = "lock"
  /\ SGoto(k, IF request[k].kind = "create" THEN "load" ELSE "check")
  /\ UNCHANGED <<guard, snapshotDisk, request, sbudget>>

LockForSnapshot(k) ==
  /\ spc[k] = "lock" /\ guard = None
  /\ guard' = k
  /\ SGoto(k, IF request[k].kind = "create" THEN "load" ELSE "check")
  /\ UNCHANGED <<snapshotDisk, request, sbudget>>

LockRefused(k) ==
  /\ spc[k] = "lock" /\ guard # None
  /\ SExit(k) /\ UNCHANGED <<snapshotDisk, sbudget>>

-----------------------------------------------------------------------------
(* create_snapshot *)

LoadCatalog(k) ==
  /\ spc[k] = "load" /\ file # None
  /\ Selectable(file, request[k].allow)
  /\ request' = [request EXCEPT ![k].id = file]
  /\ SGoto(k, "hash")
  /\ UNCHANGED <<guard, snapshotDisk, sbudget>>

HashSelection(k) ==
  /\ spc[k] = "hash" /\ Verified(request[k].id)
  /\ SGoto(k, "target")
  /\ UNCHANGED <<guard, snapshotDisk, request, sbudget>>

\* Ok of create: --select goes on with a second command that locks again.
Created(k) ==
  IF request[k].thenSelect
  THEN /\ guard' = IF guard = k THEN None ELSE guard
       /\ request' = [request EXCEPT ![k] = [@ EXCEPT !.kind = "select", !.thenSelect = FALSE]]
       /\ SGoto(k, "lock")
  ELSE SExit(k)

ReuseSnapshot(k) ==
  /\ spc[k] = "target" /\ VerifySnapshot(request[k].id)
  /\ Created(k) /\ UNCHANGED <<snapshotDisk, sbudget>>

StageSnapshot(k) ==
  /\ spc[k] = "target" /\ request[k].id \notin snapshots
  /\ snapTemps' = snapTemps \cup {k}
  /\ SGoto(k, "link")
  /\ UNCHANGED <<guard, snapshots, pointer, pointerTemps, chosen, request, sbudget>>

\* hard_link never replaces; an id that exists by now is verified instead.
LinkSnapshot(k) ==
  /\ spc[k] = "link"
  /\ request[k].id \notin snapshots \/ VerifySnapshot(request[k].id)
  /\ snapshots' = snapshots \cup {request[k].id}
  /\ SGoto(k, "unlink")
  /\ UNCHANGED <<guard, snapTemps, pointer, pointerTemps, chosen, request, sbudget>>

UnlinkTemp(k) ==
  /\ spc[k] = "unlink"
  /\ snapTemps' = snapTemps \ {k}
  /\ Created(k)
  /\ UNCHANGED <<snapshots, pointer, pointerTemps, chosen, sbudget>>

\* The descriptor is published, its temp file stays, the command reports an error.
UnlinkFails(k) ==
  /\ spc[k] = "unlink"
  /\ snapTemps' = Orphaned(snapTemps, k)
  /\ SExit(k)
  /\ UNCHANGED <<snapshots, pointer, pointerTemps, chosen, sbudget>>

\* Faulty variant for mutation runs: a failed command starts over.
SnapshotRetries(k) ==
  /\ spc[k] \notin {"idle", "lock", "unlink"}
  /\ snapTemps' = snapTemps \ {k} /\ pointerTemps' = pointerTemps \ {k}
  /\ SGoto(k, CASE request[k].kind = "create" -> "load"
                [] request[k].kind = "select" -> "check"
                [] OTHER -> "resolve")
  /\ UNCHANGED <<guard, request, snapshots, pointer, chosen, sbudget>>

\* Every other error return removes the invocation's own temp file.
SnapshotFails(k) ==
  /\ spc[k] \notin {"idle", "unlink"}
  /\ snapTemps' = snapTemps \ {k} /\ pointerTemps' = pointerTemps \ {k}
  /\ SExit(k)
  /\ UNCHANGED <<snapshots, pointer, chosen, sbudget>>

-----------------------------------------------------------------------------
(* select_snapshot *)

\* Faulty variant for mutation runs: the descriptor is not looked up.
CheckSelectedId(k) ==
  /\ spc[k] = "check"
  /\ Selectable(request[k].id, request[k].allow)
  /\ SGoto(k, "stage")
  /\ UNCHANGED <<guard, snapshotDisk, request, sbudget>>

\* Faulty variant for mutation runs: only verify_snapshot's own validation.
CheckSelectedVerified(k) ==
  /\ spc[k] = "check" /\ VerifySnapshot(request[k].id)
  /\ SGoto(k, "stage")
  /\ UNCHANGED <<guard, snapshotDisk, request, sbudget>>

CheckSelected(k) ==
  /\ spc[k] = "check" /\ VerifySnapshot(request[k].id)
  /\ Selectable(request[k].id, request[k].allow)
  /\ SGoto(k, "stage")
  /\ UNCHANGED <<guard, snapshotDisk, request, sbudget>>

StagePointer(k) ==
  /\ spc[k] = "stage"
  /\ pointerTemps' = pointerTemps \cup {k}
  /\ SGoto(k, "replace")
  /\ UNCHANGED <<guard, snapshots, snapTemps, pointer, chosen, request, sbudget>>

\* Ok, or an error of the directory sync after the pointer was replaced.
ReplacePointer(k) ==
  /\ spc[k] = "replace"
  /\ pointer' = request[k].id
  /\ chosen' = chosen \cup {request[k].id}
  /\ pointerTemps' = pointerTemps \ {k}
  /\ SExit(k)
  /\ UNCHANGED <<snapshots, snapTemps, sbudget>>

-----------------------------------------------------------------------------
(* current_snapshot, resolve_snapshot, verify_snapshot: readers take no lock *)

\* Faulty variant for mutation runs: without a pointer, any descriptor will do.
ReadPointerOrAny(k) ==
  /\ spc[k] = "pointer"
  /\ \E id \in IF pointer = None THEN snapshots ELSE {pointer} :
       request' = [request EXCEPT ![k].id = id]
  /\ SGoto(k, "resolve")
  /\ UNCHANGED <<guard, snapshotDisk, sbudget>>

ReadPointer(k) ==
  /\ spc[k] = "pointer" /\ pointer # None
  /\ request' = [request EXCEPT ![k].id = pointer]
  /\ SGoto(k, "resolve")
  /\ UNCHANGED <<guard, snapshotDisk, sbudget>>

ResolveSnapshot(k) ==
  /\ spc[k] = "resolve" /\ VerifySnapshot(request[k].id)
  /\ SExit(k) /\ UNCHANGED <<snapshotDisk, sbudget>>

-----------------------------------------------------------------------------
SnapshotKill(k) ==
  /\ spc[k] # "idle" /\ sbudget["kill"] > 0
  /\ sbudget' = [sbudget EXCEPT !["kill"] = @ - 1]
  /\ snapTemps' = Orphaned(snapTemps, k)
  /\ pointerTemps' = Orphaned(pointerTemps, k)
  /\ SExit(k)
  /\ UNCHANGED <<snapshots, pointer, chosen>>

SnapshotStep(k) ==
  \/ LockForSnapshot(k) \/ LockRefused(k)
  \/ LoadCatalog(k) \/ HashSelection(k) \/ ReuseSnapshot(k) \/ StageSnapshot(k)
  \/ LinkSnapshot(k) \/ UnlinkTemp(k) \/ UnlinkFails(k) \/ SnapshotFails(k)
  \/ CheckSelected(k) \/ StagePointer(k) \/ ReplacePointer(k)
  \/ ReadPointer(k) \/ ResolveSnapshot(k)

StartSnapshotCommand(k) ==
  StartCreate(k) \/ StartSelect(k) \/ StartCurrent(k) \/ StartVerify(k)

SnapshotNext ==
  \/ Next /\ UNCHANGED snapshotVars
  \/ /\ \E k \in Client : StartSnapshotCommand(k) \/ SnapshotStep(k) \/ SnapshotKill(k)
     /\ UNCHANGED catalogVars

SnapshotSpec == SnapshotInit /\ [][SnapshotNext]_allVars
\* Commands that were started are scheduled; starts, kills and edits are free.
FairSnapshotSpec ==
  /\ SnapshotSpec
  /\ \A p \in Proc : WF_allVars(Step(p) /\ UNCHANGED snapshotVars)
  /\ \A k \in Client : WF_allVars(SnapshotStep(k) /\ UNCHANGED catalogVars)

-----------------------------------------------------------------------------
SnapshotTypeOK ==
  /\ guard \in Proc \cup Client \cup {None}
  /\ snapshots \subseteq Catalog
  /\ snapTemps \subseteq Client \cup {Orphan}
  /\ pointer \in Catalog \cup {None}
  /\ pointerTemps \subseteq Client \cup {Orphan}
  /\ chosen \subseteq Catalog
  /\ spc \in [Client -> SnapshotPcs]
  /\ request \in [Client -> Request]
  /\ sbudget \in [SnapshotKeys -> Nat]

\* A descriptor stays verifiable through every later conversion, recovery and
\* kill: the object directories it captured are never removed or rewritten, so
\* that only damage from outside can make verify_snapshot fail.
SnapshotsStayVerifiable ==
  \A c \in snapshots, s \in Source :
    c.sources[s] # None => Object(s, c.sources[s]) \in {c.sources[s].hash, "damaged"}

\* The pointer names a descriptor that exists.
PointerSelectsSnapshot == pointer # None => pointer \in snapshots

\* A reader of the current snapshot resolves something that was explicitly
\* selected: never the live catalog, never the newest descriptor.
CurrentNeverFallsBack ==
  \A k \in Client :
    request[k].kind = "current" /\ request[k].id # None => request[k].id \in chosen

\* A descriptor freezes the catalog that is current at the moment it appears,
\* with no conversion in progress, although it was read several steps earlier.
SnapshotCapturesCurrent ==
  [][\A c \in snapshots' \ snapshots : c = file /\ c.run.status # "running"]_allVars

\* A snapshot of an incomplete run becomes current only by a command that was
\* itself given --allow-incomplete.
IncompleteNeedsOwnFlag ==
  [][pointer' # pointer =>
       \/ Selectable(pointer', FALSE)
       \/ \E k \in Client : spc[k] = "replace" /\ request[k].allow]_allVars

\* Every snapshot command returns, and so gives the writer lock back.
SnapshotCommandsReturn == \A k \in Client : spc[k] # "idle" ~> spc[k] = "idle"
=============================================================================
