---------------------------- MODULE CatalogStore ----------------------------
(***************************************************************************)
(* What a managed dataset promises to a reader of _catalog.json            *)
(* (stdf-parquet/src/catalog.rs): a sequence of complete versions, each one *)
(* legal step after the one before, that only ever select published object  *)
(* directories.  No process, private copy, temp file, marker or lock is     *)
(* visible here; DatasetCatalog implements it with all of them.             *)
(***************************************************************************)
EXTENDS Naturals

CONSTANTS
  Source,   \* inputs the catalog has an entry for
  Content,  \* file contents, standing for their SHA-256
  Options,  \* fingerprints of conversion options
  Hash,     \* what the recorded fragment hashes vouch for
  RunId,    \* identities of conversion runs
  MaxRevision,
  None      \* no entry, no catalog file

\* SourceVersion, and the immutable directory its fragments are in
Version == [sha : Content, opts : Options, rows : Content, hash : Hash]
Directory == [source : Source, sha : Content, opts : Options, rows : Content]
DirectoryOf(s, v) == [source |-> s, sha |-> v.sha, opts |-> v.opts, rows |-> v.rows]

VARIABLES
  file,       \* the committed catalog, or None
  published   \* the directories published under objects/

storeVars == <<file, published>>

Fresh == [revision |-> 0, sources |-> [s \in Source |-> None],
          run |-> [id |-> 0, status |-> "complete", completed |-> 0, failures |-> {}]]
Last == IF file = None THEN Fresh ELSE file

\* The next version: revision + 1 and the given sources and run.
Commit(sources, run) ==
  /\ Last.revision < MaxRevision
  /\ file' = [revision |-> Last.revision + 1, sources |-> sources, run |-> run]

StoreInit == file = None /\ published = {}

PublishObject ==
  /\ \E d \in Directory : published' = published \cup {d}
  /\ UNCHANGED file

\* A run starts: the selection is carried over, the record of the run is new.
StoreBegin ==
  /\ \E id \in RunId :
       /\ id # Last.run.id
       /\ Commit(Last.sources, [id |-> id, status |-> "running",
                                completed |-> 0, failures |-> {}])
  /\ UNCHANGED published

\* One source of the running run is switched to fragments already published.
StoreCommitSource ==
  /\ Last.run.status = "running"
  /\ \E s \in Source, v \in Version :
       /\ DirectoryOf(s, v) \in published
       /\ Commit([Last.sources EXCEPT ![s] = v], [Last.run EXCEPT !.completed = @ + 1])
  /\ UNCHANGED published

\* A failed input changes no selection.
StoreRecordFailure ==
  /\ Last.run.status = "running"
  /\ \E s \in Source, stop \in BOOLEAN :
       Commit(Last.sources, [Last.run EXCEPT !.failures = @ \cup {s},
                               !.status = IF stop THEN "failed" ELSE "running"])
  /\ UNCHANGED published

StoreFinish ==
  /\ Last.run.status = "running"
  /\ Commit(Last.sources, [Last.run EXCEPT !.status =
              IF Last.run.failures = {} THEN "complete" ELSE "partial"])
  /\ UNCHANGED published

StoreInterrupt ==
  /\ Last.run.status = "running"
  /\ Commit(Last.sources, [Last.run EXCEPT !.status = "interrupted"])
  /\ UNCHANGED published

StoreNext ==
  \/ PublishObject \/ StoreBegin \/ StoreCommitSource \/ StoreRecordFailure
  \/ StoreFinish \/ StoreInterrupt

StoreSpec == StoreInit /\ [][StoreNext]_storeVars
=============================================================================
