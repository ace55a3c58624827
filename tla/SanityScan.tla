----------------------------- MODULE SanityScan -----------------------------
(***************************************************************************)
(* The sanity report's pass over one file (sanity/scan.rs).  Unlike the    *)
(* other readers it never gives up: it names what is wrong and goes on, so *)
(* a file is judged by the errors it collected.  Field values, profiles,   *)
(* program sections and ownership of text records are left out.            *)
(***************************************************************************)
EXTENDS StdfStream

VARIABLES
  scan_complete,     \* FALSE once the file turned out to be cut
  runs,              \* number of runs reported
  run_open,          \* `run` is Some
  mrrs,              \* whether an MRR was seen
  site_map, wafer_map,   \* `sites` and `wafers`
  in_progress,       \* `active`: open units by position, an index of units
  defaults,          \* record types with a definition in this run (of one test number)
  units,             \* report.units, in order
  definitions,       \* whether a definition was kept at run level
  issues             \* the rules with an error among report.findings

sanityVars == <<scan_complete, runs, run_open, mrrs, site_map, wafer_map, in_progress,
                defaults, units, definitions, issues>>

SanityInit ==
  /\ scan_complete = TRUE
  /\ runs = 0 /\ run_open = FALSE /\ mrrs = FALSE
  /\ site_map = EmptyMap /\ wafer_map = EmptyMap /\ in_progress = EmptyMap
  /\ defaults = {} /\ units = <<>> /\ definitions = FALSE
  /\ issues = {}

Found(rule, condition) == IF condition THEN {rule} ELSE {}

OutsideRun == Found("run_context", ~run_open)

\* Mutant: open units are not looked for while the run is open.
UnfinishedOutsideRun == Found("unclosed_unit", ~run_open /\ DOMAIN in_progress # {})

Unfinished == Found("unclosed_unit", DOMAIN in_progress # {})

\* A MIR opens a run whatever came before, and forgets all that was open.
OpenRun(found) ==
  /\ issues' = issues \cup found
                 \cup Found("run_overlap", run_open \/ DOMAIN in_progress # {})
  /\ runs' = runs + 1
  /\ run_open' = TRUE
  /\ in_progress' = EmptyMap
  /\ defaults' = {}
  /\ site_map' = EmptyMap
  /\ wafer_map' = EmptyMap
  /\ UNCHANGED <<scan_complete, mrrs, units, definitions>>

CloseRun(found) ==
  /\ issues' = issues \cup found \cup OutsideRun \cup Unfinished
  /\ run_open' = FALSE
  /\ mrrs' = TRUE
  /\ in_progress' = EmptyMap
  /\ UNCHANGED <<scan_complete, runs, site_map, wafer_map, defaults, units, definitions>>

SanityMir(r) == r.kind = "MIR" /\ OpenRun({})

SanityMrr(r) == r.kind = "MRR" /\ CloseRun({})

SanitySdr(r) ==
  /\ r.kind = "SDR"
  /\ issues' = issues \cup OutsideRun
  /\ site_map' = PutAll(site_map, {r.head} \X r.sites, r.group)
  /\ UNCHANGED <<scan_complete, runs, run_open, mrrs, wafer_map, in_progress, defaults,
                 units, definitions>>

SanityWir(r) ==
  /\ r.kind = "WIR"
  /\ issues' = issues \cup OutsideRun
                 \cup Found("wafer_overlap", GroupOf(r) \in DOMAIN wafer_map)
  /\ wafer_map' = Put(wafer_map, GroupOf(r), r.wafer)
  /\ UNCHANGED <<scan_complete, runs, run_open, mrrs, site_map, in_progress, defaults,
                 units, definitions>>

SanityWrr(r) ==
  /\ r.kind = "WRR"
  /\ issues' = issues \cup OutsideRun
                 \cup Found("wafer_pair", GroupOf(r) \notin DOMAIN wafer_map)
  /\ wafer_map' = Without(wafer_map, GroupOf(r))
  /\ UNCHANGED <<scan_complete, runs, run_open, mrrs, site_map, in_progress, defaults,
                 units, definitions>>

\* The unit's wafer: its group's, or the whole head's, and no other.
UnitWafer(pos) ==
  LET own == <<pos[1], Get(site_map, pos, AllSites)>>
  IN Get(wafer_map, own, Get(wafer_map, <<pos[1], AllSites>>, NoWafer))

NewUnit(pos, closed) == [position |-> pos, wafer |-> UnitWafer(pos), closed |-> closed]

OutsidePartContext(r) ==
  /\ r.kind \in PartKind /\ ~run_open
  /\ issues' = issues \cup {"part_context"}
  /\ UNCHANGED <<scan_complete, runs, run_open, mrrs, site_map, wafer_map, in_progress,
                 defaults, units, definitions>>

\* A second PIR takes the place of the open unit.
SanityPir(r) ==
  /\ r.kind = "PIR" /\ run_open
  /\ issues' = issues \cup Found("part_pair", At(r) \in DOMAIN in_progress)
  /\ units' = Append(units, NewUnit(At(r), FALSE))
  /\ in_progress' = Put(in_progress, At(r), Len(units) + 1)
  /\ UNCHANGED <<scan_complete, runs, run_open, mrrs, site_map, wafer_map, defaults,
                 definitions>>

\* A PRR alone makes a unit of its own.
SanityPrr(r) ==
  LET pos == At(r)
  IN /\ r.kind = "PRR" /\ run_open
     /\ issues' = issues \cup Found("part_pair", pos \notin DOMAIN in_progress)
     /\ units' = IF pos \in DOMAIN in_progress
                 THEN [units EXCEPT ![in_progress[pos]].closed = TRUE]
                 ELSE Append(units, NewUnit(pos, TRUE))
     /\ in_progress' = Without(in_progress, pos)
     /\ UNCHANGED <<scan_complete, runs, run_open, mrrs, site_map, wafer_map, defaults,
                    definitions>>

Defines(r) == r.kind \in {"PTR", "MPR"}

\* The first record of a test, not executed and outside a unit, is a definition.
DefinitionOnly(r) ==
  /\ Defines(r) /\ r.kind \notin defaults
  /\ r.unexecuted /\ run_open
  /\ At(r) \notin DOMAIN in_progress

SanityTest(r) ==
  /\ r.kind \in TestKind
  /\ issues' = issues \cup Found("record_ownership",
                                 At(r) \notin DOMAIN in_progress /\ ~DefinitionOnly(r))
  /\ defaults' = IF Defines(r) THEN defaults \cup {r.kind} ELSE defaults
  /\ definitions' = (definitions \/ DefinitionOnly(r))
  /\ UNCHANGED <<scan_complete, runs, run_open, mrrs, site_map, wafer_map, in_progress,
                 units>>

\* A record that cannot be decoded is still a MIR or MRR by its header; the others
\* name no head and site, and change nothing but the findings.
SanityMalformed(r) ==
  /\ r.kind = "Malformed"
  /\ \/ r.of = "MIR" /\ OpenRun({"decode"})
     \/ r.of = "MRR" /\ CloseRun({"decode"})
     \/ /\ r.of \notin RunKind
        /\ issues' = issues \cup {"decode"}
              \cup (IF r.of \in {"SDR", "WIR", "WRR"} THEN OutsideRun ELSE {})
              \cup Found("part_context", r.of \in PartKind)
              \cup Found("record_ownership", r.of \in TestKind)
        /\ UNCHANGED <<scan_complete, runs, run_open, mrrs, site_map, wafer_map,
                       in_progress, defaults, units, definitions>>

SanityRead(r) ==
  \/ SanityMir(r) \/ SanityMrr(r) \/ SanitySdr(r) \/ SanityWir(r) \/ SanityWrr(r)
  \/ OutsidePartContext(r) \/ SanityPir(r) \/ SanityPrr(r) \/ SanityTest(r)
  \/ SanityMalformed(r)

\* What is still open when the file ends, or cannot be read on, is an error.
Closing(found) ==
  /\ issues' = issues \cup found
        \cup Found("run_closure", runs = 0 \/ ~mrrs \/ run_open)
        \cup Unfinished
        \cup Found("wafer_closure", DOMAIN wafer_map # {})
  /\ UNCHANGED <<runs, run_open, mrrs, site_map, wafer_map, in_progress, defaults, units,
                 definitions>>

SanityEnd == Closing({}) /\ UNCHANGED scan_complete

SanityCut == Closing({"framing"}) /\ scan_complete' = FALSE

\* validation_failed is what the command's exit code says.
Clean == issues = {} /\ scan_complete

SanityNext == (\E r \in Record : SanityRead(r)) \/ SanityEnd \/ SanityCut

SanitySpec == SanityInit /\ [][SanityNext]_sanityVars
=============================================================================
