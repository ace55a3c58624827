--------------------------- MODULE SanityPublish ---------------------------
(***************************************************************************)
(* How the sanity command puts its report in place (generate of            *)
(* stdf-cli/src/sanity/mod.rs, Stage of sanity/storage.rs).  A command     *)
(* fills a directory of its own, a generation, and ends by replacing one   *)
(* file: report.html, which names the generation, or a text summary.       *)
(*                                                                         *)
(* What a source holds is any member of Body each time it is opened; what  *)
(* a page or a summary says is the set of bodies that were scanned.        *)
(***************************************************************************)
EXTENDS Naturals, Sequences, FiniteSets, Functions

CONSTANTS
  Checker,       \* slots in which a command may run
  Inputs,        \* the sorted source paths of every command
  Body, Size,    \* what a source may hold, and its size
  DiskLimit,     \* --disk-limit-mib; every other file takes one unit
  ReportBudget,  \* how many commands, kills, failures and changes of the cancel file happen
  NoReport

ReportKeys == {"command", "kill", "failure", "cancel"}

ASSUME ReportAssumption ==
  /\ ReportBudget \in [ReportKeys -> Nat]
  /\ Size \in [Body -> Nat] /\ DiskLimit \in Nat \ {0}   \* a limit of 0 is refused
  /\ Inputs \in Seq(STRING) \ {<<>>}

\* What a generation may hold: copies of the sources, the files of the report, and the
\* names its manifest lists.
Files == {"record_fields", "summary", "report", "checks", "manifest"}
Generation == [archived : SUBSET Body, files : SUBSET Files, listed : SUBSET (Files \cup Body)]

ASSUME NoReportAssumption == NoReport \notin Generation

\* The n-th command to start; its generation has a name no other one has.
Name == 1..ReportBudget["command"]

VARIABLES
  directory,   \* per name: the files of the generation, or NoReport
  page,        \* report.html at the root: [of, says], or NoReport
  summary,     \* the text summary, likewise
  copies,      \* temp files next to them, by name
  cancelFile,  \* whether the cancel file is there
  outcome,     \* per name: how the command ended
  stage,       \* per command slot: what it works on
  troubles     \* what is left of ReportBudget

reportVars == <<directory, page, summary, copies, cancelFile, outcome, stage, troubles>>

NoStage == [at |-> "idle", of |-> NoReport, mode |-> "html", next |-> 1,
            copied |-> NoReport, scanned |-> {}, used |-> 0]
EmptyDirectory == [archived |-> {}, files |-> {"record_fields"}, listed |-> {}]

ReportInit ==
  /\ directory = [n \in Name |-> NoReport]
  /\ page = NoReport /\ summary = NoReport /\ copies = {} /\ cancelFile = FALSE
  /\ outcome = [n \in Name |-> "none"]
  /\ stage = [w \in Checker |-> NoStage]
  /\ troubles = ReportBudget

Take(key) == troubles[key] > 0 /\ troubles' = [troubles EXCEPT ![key] = @ - 1]
At(w, step) == stage[w].at = step
Step(w, to) == stage' = [stage EXCEPT ![w].at = to]
\* LimitedFile::write and the charge for the copy of publish.
Charged(w, n) == stage[w].used + n <= DiskLimit
Own(w) == directory[stage[w].of]
Ended(w, how) ==
  /\ outcome' = [outcome EXCEPT ![stage[w].of] = how]
  /\ stage' = [stage EXCEPT ![w] = NoStage]

-----------------------------------------------------------------------------
StartReport(w) ==
  LET n == 1 + ReportBudget["command"] - troubles["command"] IN
  /\ At(w, "idle") /\ Take("command")
  /\ \E mode \in {"html", "text"} :
       stage' = [stage EXCEPT ![w] = [NoStage EXCEPT !.at = "copy", !.of = n, !.mode = mode,
                                                     !.used = 1]]
  /\ directory' = [directory EXCEPT ![n] = EmptyDirectory]
  /\ outcome' = [outcome EXCEPT ![n] = "running"]
  /\ UNCHANGED <<page, summary, copies, cancelFile>>

\* A source is copied, then named by its digest, or removed if its bytes are there already.
CopyInput(w) ==
  /\ At(w, "copy") /\ stage[w].next <= Len(Inputs) /\ ~cancelFile
  /\ \E b \in Body :
       /\ Charged(w, Size[b])
       /\ directory' = [directory EXCEPT ![stage[w].of].archived = @ \cup {b}]
       /\ stage' = [stage EXCEPT ![w].next = @ + 1,
                      ![w].at = IF b \in Own(w).archived THEN "copy" ELSE "scan",
                      ![w].copied = b,
                      ![w].used = IF b \in Own(w).archived THEN @ ELSE @ + Size[b]]
  /\ UNCHANGED <<page, summary, copies, cancelFile, outcome, troubles>>

\* Faulty variant for mutation runs: the source is opened again for the scan.
ScanSource(w) ==
  /\ At(w, "scan")
  /\ \E b \in Body : stage' = [stage EXCEPT ![w].at = "copy", ![w].scanned = @ \cup {b}]
  /\ UNCHANGED <<directory, page, summary, copies, cancelFile, outcome, troubles>>

\* Only the copy is scanned: the source may have changed since.
ScanArchived(w) ==
  /\ At(w, "scan")
  /\ stage' = [stage EXCEPT ![w].at = "copy", ![w].scanned = @ \cup {stage[w].copied}]
  /\ UNCHANGED <<directory, page, summary, copies, cancelFile, outcome, troubles>>

FinishEvidence(w) ==
  /\ At(w, "copy") /\ stage[w].next > Len(Inputs)
  /\ Step(w, IF stage[w].mode = "html" THEN "write" ELSE "publish")
  /\ UNCHANGED <<directory, page, summary, copies, cancelFile, outcome, troubles>>

\* The pages of the generation in their order; the manifest lists what is there.
Parts == <<"summary", "report", "checks", "manifest">>
WritePart(w) ==
  LET written == Own(w).files
      part == Parts[Cardinality(written)] IN
  /\ At(w, "write") /\ Charged(w, 1)
  /\ directory' = [directory EXCEPT ![stage[w].of].files = @ \cup {part},
                     ![stage[w].of].listed =
                       IF part = "manifest" THEN written \cup Own(w).archived ELSE @]
  /\ stage' = [stage EXCEPT ![w].used = @ + 1,
                 ![w].at = IF part = "manifest" THEN "publish" ELSE @]
  /\ UNCHANGED <<page, summary, copies, cancelFile, outcome, troubles>>

\* atomic_write_checked: the copy is complete and synced before it is looked whether the
\* command was cancelled.
StageCopy(w) ==
  /\ At(w, "publish") /\ Charged(w, 1)
  /\ copies' = copies \cup {stage[w].of}
  /\ stage' = [stage EXCEPT ![w].used = @ + 1, ![w].at = "replace"]
  /\ UNCHANGED <<directory, page, summary, cancelFile, outcome, troubles>>

Written(w) == [of |-> stage[w].of, says |-> stage[w].scanned]
ReplaceOutput(w) ==
  /\ At(w, "replace") /\ ~cancelFile
  /\ IF stage[w].mode = "html" THEN page' = Written(w) /\ UNCHANGED summary
     ELSE summary' = Written(w) /\ UNCHANGED page
  /\ copies' = copies \ {stage[w].of}
  /\ Step(w, "sync")
  /\ UNCHANGED <<directory, cancelFile, outcome, troubles>>

\* Only an HTML report keeps its generation.
SyncDirectory(w) ==
  /\ At(w, "sync")
  /\ IF stage[w].mode = "html" THEN Ended(w, "published")
     ELSE Step(w, "drop") /\ outcome' = [outcome EXCEPT ![stage[w].of] = "summarised"]
  /\ UNCHANGED <<directory, page, summary, copies, cancelFile, troubles>>

\* An error anywhere before "published" is set: what was staged is removed on the way out,
\* also when the error is that of the last sync.
CommandFails(w) ==
  /\ ~At(w, "idle") /\ ~At(w, "drop") /\ Take("failure")
  /\ outcome' = [outcome EXCEPT ![stage[w].of] = IF At(w, "sync") THEN "unsynced" ELSE "failed"]
  /\ copies' = copies \ {stage[w].of}
  /\ Step(w, "drop")
  /\ UNCHANGED <<directory, page, summary, cancelFile>>

\* The same for a limit that is reached or a cancel file that is seen.
CommandStops(w) ==
  /\ \/ At(w, "copy") /\ (cancelFile \/ \E b \in Body : ~Charged(w, Size[b]))
     \/ (At(w, "write") \/ At(w, "publish")) /\ (cancelFile \/ ~Charged(w, 1))
     \/ At(w, "replace") /\ cancelFile
  /\ outcome' = [outcome EXCEPT ![stage[w].of] = "failed"]
  /\ copies' = copies \ {stage[w].of}
  /\ Step(w, "drop")
  /\ UNCHANGED <<directory, page, summary, cancelFile, troubles>>

\* Stage::drop; its own error is ignored.
DropStage(w) ==
  /\ At(w, "drop")
  /\ directory' = [directory EXCEPT ![stage[w].of] = NoReport]
  /\ stage' = [stage EXCEPT ![w] = NoStage]
  /\ UNCHANGED <<page, summary, copies, cancelFile, outcome, troubles>>

\* A killed command leaves what it staged, of a directory being removed any part.
KillCommand(w) ==
  /\ ~At(w, "idle") /\ Take("kill")
  /\ outcome' = [outcome EXCEPT ![stage[w].of] = IF At(w, "drop") THEN @ ELSE "killed"]
  /\ \E left \in SUBSET Own(w).files :
       directory' = [directory EXCEPT ![stage[w].of].files = IF At(w, "drop") THEN left ELSE @]
  /\ stage' = [stage EXCEPT ![w] = NoStage]
  /\ UNCHANGED <<page, summary, copies, cancelFile>>

ToggleCancel ==
  /\ Take("cancel") /\ cancelFile' = ~cancelFile
  /\ UNCHANGED <<directory, page, summary, copies, outcome, stage>>

ReportStep(w) ==
  \/ StartReport(w) \/ CopyInput(w) \/ ScanArchived(w) \/ FinishEvidence(w) \/ WritePart(w)
  \/ StageCopy(w) \/ ReplaceOutput(w) \/ SyncDirectory(w) \/ CommandFails(w)
  \/ CommandStops(w) \/ DropStage(w) \/ KillCommand(w)
ReportNext == ToggleCancel \/ \E w \in Checker : ReportStep(w)

ReportSpec == ReportInit /\ [][ReportNext]_reportVars

-----------------------------------------------------------------------------
Whole(n, says) ==
  /\ directory[n] # NoReport
  /\ directory[n].archived = says
  /\ directory[n].files = Files
  /\ directory[n].listed = (directory[n].files \ {"manifest"}) \cup says

SizeOf(n) ==
  IF directory[n] = NoReport THEN 0
  ELSE Cardinality(directory[n].files)
       + SumFunctionOnSet(Size, directory[n].archived)

\* The report is of bytes that are kept beside it, all of them and no others, and so is
\* every report that was ever announced; a command that failed has replaced nothing; the
\* disk limit covers the generation and the copy of its page.  The exception is the code's
\* own: when only the last directory sync fails, the page is in place and what it names is
\* removed.
ReportsKept ==
  /\ page # NoReport => Whole(page.of, page.says) \/ outcome[page.of] = "unsynced"
  /\ \A n \in Name : outcome[n] = "published" => Whole(n, directory[n].archived)
  /\ \A shown \in {page, summary} \ {NoReport} : outcome[shown.of] # "failed"
  /\ \A n \in Name : SizeOf(n) + Cardinality(copies \cap {n}) <= DiskLimit
=============================================================================
