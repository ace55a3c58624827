----------------------------- MODULE ViewerCache ----------------------------
(***************************************************************************)
(* viewer/ingest.rs, prepare: the cache directory of an indexed source.    *)
(* A session hashes the source file, uses the cache of that hash if there  *)
(* is one, and otherwise builds one in a directory of its own, which it    *)
(* renames when the source still has that hash.  A cache is named by the   *)
(* hash alone and is shared by all sessions that use the directory.        *)
(*                                                                         *)
(* A file is a container of a body: the plain bytes, or a gzip of them;    *)
(* its hash is the file itself.  What indexing makes of a body is the      *)
(* subject of ViewerScan and EavParts; here a cache keeps the body.        *)
(* A command is a process.  Retention of evidence prepares in the same way *)
(* in a directory of its own, and shares HashSource, Spool, RehashSource.  *)
(***************************************************************************)
EXTENDS Naturals, Sequences, FiniteSets

CONSTANTS
  Proc,        \* processes that run a command of the CLI
  File,        \* contents the source path may have
  Body,        \* decompressed contents
  BodyOf,      \* the body of a file
  None

ASSUME BodyAssumption == BodyOf \in [File -> Body]
ASSUME NoneAssumption == None \notin File \cup Body \cup Proc

VARIABLES
  file,        \* the source file now
  caches,      \* shared cache directories: hash -> [body, intact]
  building,    \* .building directories left in the shared directory by killed sessions
  job          \* what each process is doing

cacheVars == <<file, caches, building>>

NoJob ==
  [cmd |-> None, pc |-> "idle", hash |-> None, body |-> None, staged |-> FALSE,
   digest |-> <<>>, feed |-> <<>>, left |-> <<>>, seen |-> {}, result |-> None, files |-> {}]

Running(p) == job[p].pc # "idle"
At(p, pc) == job[p].pc = pc
Go(p, pc) == job' = [job EXCEPT ![p].pc = pc]
\* A command returns, with or without an error: its locals are dropped.
Leave(p) == job' = [job EXCEPT ![p] = NoJob]

\* Retention builds in a fresh directory of its own, the viewer in the shared one.
Shared(p) == job[p].cmd.op = "view"
Builds(p) == Running(p) /\ Shared(p) /\ job[p].pc \in {"spool", "rehash", "publish"}

StartView(p) ==
  /\ ~Running(p)
  /\ job' = [job EXCEPT ![p] = [NoJob EXCEPT !.cmd = [op |-> "view"], !.pc = "hash"]]
  /\ UNCHANGED cacheVars

HashSource(p) ==
  /\ At(p, "hash")
  /\ job' = [job EXCEPT ![p].hash = file, ![p].pc = IF Shared(p) THEN "lookup" ELSE "spool"]
  /\ UNCHANGED cacheVars

\* An existing cache is used when every file it lists still has its checksum.
ReuseCache(p) ==
  /\ At(p, "lookup") /\ job[p].hash \in DOMAIN caches
  /\ caches[job[p].hash].intact
  /\ job' = [job EXCEPT ![p].body = caches[job[p].hash].body, ![p].pc = "serve"]
  /\ UNCHANGED cacheVars

RefuseCache(p) ==
  /\ At(p, "lookup") /\ job[p].hash \in DOMAIN caches
  /\ ~caches[job[p].hash].intact
  /\ Leave(p) /\ UNCHANGED cacheVars

MakeStage(p) ==
  /\ At(p, "lookup") /\ job[p].hash \notin DOMAIN caches
  /\ Go(p, "spool") /\ UNCHANGED cacheVars

\* The source is read again for its body, which is hashed and indexed apart from it.
Spool(p) ==
  /\ At(p, "spool")
  /\ job' = [job EXCEPT ![p].body = BodyOf[file], ![p].pc = "rehash"]
  /\ UNCHANGED cacheVars

\* Mutant: the source is not hashed again.
RehashNothing(p) == At(p, "rehash") /\ Go(p, "publish") /\ UNCHANGED cacheVars

RehashSource(p) ==
  /\ At(p, "rehash") /\ file = job[p].hash
  /\ Go(p, "publish") /\ UNCHANGED cacheVars

SourceChanged(p) ==
  /\ At(p, "rehash") /\ file # job[p].hash /\ Shared(p)
  /\ Leave(p) /\ UNCHANGED cacheVars

PublishCache(p) ==
  /\ At(p, "publish") /\ Shared(p) /\ job[p].hash \notin DOMAIN caches
  /\ caches' = [h \in DOMAIN caches \cup {job[p].hash} |->
                  IF h = job[p].hash THEN [body |-> job[p].body, intact |-> TRUE] ELSE caches[h]]
  /\ Go(p, "serve")
  /\ UNCHANGED <<file, building>>

\* Renaming a directory onto one that is not empty fails: the slower of two sessions.
CacheTaken(p) ==
  /\ At(p, "publish") /\ Shared(p) /\ job[p].hash \in DOMAIN caches
  /\ Leave(p) /\ UNCHANGED cacheVars

PrepareStep(p) ==
  \/ HashSource(p) \/ ReuseCache(p) \/ RefuseCache(p) \/ MakeStage(p) \/ Spool(p)
  \/ RehashSource(p) \/ SourceChanged(p) \/ PublishCache(p) \/ CacheTaken(p)

\* Serving or exporting reads the cache until the user ends the session.
EndView(p) ==
  /\ At(p, "serve") /\ Leave(p) /\ UNCHANGED cacheVars

\* The user replaces the source, or a cache file is damaged.
Rewrite(f) == file # f /\ file' = f /\ UNCHANGED <<caches, building, job>>
DamageCache(h) ==
  /\ h \in DOMAIN caches /\ caches[h].intact
  /\ caches' = [caches EXCEPT ![h].intact = FALSE]
  /\ UNCHANGED <<file, building, job>>
=============================================================================
