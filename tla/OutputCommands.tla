--------------------------- MODULE OutputCommands ---------------------------
(***************************************************************************)
(* The commands that replace a single file: conversions to Parquet, which  *)
(* remove it and rename a temp file, and sanity reports, which rename over *)
(* it.  They share no file, so each is explored with the other one idle.   *)
(***************************************************************************)
EXTENDS SingleOutput, SanityPublish

VARIABLE part

CommandInit == Init /\ ReportInit /\ part \in {"conversions", "reports"}

CommandNext ==
  /\ \/ part = "conversions" /\ Next /\ UNCHANGED reportVars
     \/ part = "reports" /\ ReportNext /\ UNCHANGED vars
  /\ UNCHANGED part

commandVars == <<vars, reportVars, part>>
CommandSpec == CommandInit /\ [][CommandNext]_commandVars
=============================================================================
