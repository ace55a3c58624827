---------------------------- MODULE FieldDefaults ---------------------------
(***************************************************************************)
(* What the sanity report takes the fields of a test for: what its bytes   *)
(* say (stdf-validate/src/fields.rs) and what it leaves to the first test  *)
(* of its number in the run (fields/defaults.rs, sanity/scan.rs).          *)
(*                                                                         *)
(* A test is [record, flag, parm, count, wire]: flag and parm say that its *)
(* result is marked unreliable; wire is the list of its values in the      *)
(* order of the layout, Cut where the bytes end within one.  "RESULT" is   *)
(* its results, "LO_LIMIT" its limits and scales, "UNITS" its texts,       *)
(* "RTN_INDX" its indices, of which only the number counts (it is count,   *)
(* not 0), "LO_SPEC" its specification limits; OPT_FLAG is a set.          *)
(***************************************************************************)
EXTENDS Naturals, Sequences, FiniteSets, SequencesExt

CONSTANTS None, NotFinite, Cut

layout(record) ==
  IF record = "PTR" THEN <<"RESULT", "OPT_FLAG", "LO_LIMIT", "UNITS", "LO_SPEC">>
  ELSE <<"RESULT", "OPT_FLAG", "LO_LIMIT", "RTN_INDX", "UNITS", "LO_SPEC">>

Field(presence, sound, raw, effective, status) ==
  [presence |-> presence, sound |-> sound, raw |-> raw, effective |-> effective,
   status |-> status, inherited |-> FALSE]

\* Of the layout only the result is not optional; what follows a cut is not read.
Read(test, name, i) ==
  LET n == Len(test.wire)
      cut == (n > 0 /\ test.wire[n] = Cut) \/ n = 0
      end == IF n = 0 THEN 1 ELSE n
  IN CASE cut /\ i = end -> Field("truncated", FALSE, None, None, "invalid")
       [] cut /\ i > end -> Field("unread", TRUE, None, None, "unknown")
       [] ~cut /\ i > n ->
            Field("omitted", TRUE, None, None, IF name = "UNITS" THEN "missing" ELSE "unknown")
       [] i \in DOMAIN test.wire /\ test.wire[i] = NotFinite ->
            Field("present", FALSE, NotFinite, None, "invalid")
       [] name = "UNITS" /\ i \in DOMAIN test.wire /\ test.wire[i] = "" ->
            Field("present", TRUE, "", None, "missing")
       [] OTHER -> Field("present", TRUE, test.wire[i], test.wire[i], "valid")

Missing(f) == [f EXCEPT !.effective = None, !.status = "missing"]
Unresolved(f) == [f EXCEPT !.effective = None, !.status = "unknown"]
Explicit(f) == [f EXCEPT !.effective = f.raw, !.status = "valid"]
Invalid(f) == [f EXCEPT !.effective = None, !.status = "invalid"]

DefaultOf(name) == IF name = "LO_LIMIT" THEN {"default_lo"} ELSE {}
MissingOf(name) ==
  CASE name = "LO_LIMIT" -> {"no_lo"} [] name = "LO_SPEC" -> {"no_spec"} [] OTHER -> {}

Flags(fields) ==
  IF "OPT_FLAG" \in DOMAIN fields THEN fields["OPT_FLAG"].effective ELSE None

\* inspect: what the flags say of the result and the limits comes last.
inspect(test) ==
  LET names == layout(test.record)
      read == [name \in ToSet(names) |->
                 Read(test, name, CHOOSE i \in DOMAIN names : names[i] = name)]
      opt == Flags(read)
      asked(name) == opt # None /\ opt \cap (DefaultOf(name) \cup MissingOf(name)) # {}
  IN [name \in DOMAIN read |->
        CASE name = "RESULT" /\ test.flag -> Invalid(read[name])
          [] name # "RESULT" /\ asked(name) -> Missing(read[name])
          [] OTHER -> read[name]]

-----------------------------------------------------------------------------
(* prior is what the first test defines, <<>> for that test itself.        *)

inherit(f, name, prior) ==
  IF name \in DOMAIN prior /\ prior[name].status \in {"valid", "missing"}
  THEN [f EXCEPT !.effective = prior[name].effective, !.status = prior[name].status,
                 !.inherited = TRUE]
  ELSE Unresolved(f)

Text(f, prior) ==
  CASE f.presence = "omitted" \/ f.raw = "" ->
         IF prior # <<>> THEN inherit(f, "UNITS", prior) ELSE f
    [] f.presence # "omitted" /\ f.raw = "NUL" ->
         [f EXCEPT !.effective = "", !.status = "valid"]
    [] OTHER -> f

\* "No limit" is looked at before a request for the default.
Number(f, name, opt, prior) ==
  LET asked == DefaultOf(name)  none == MissingOf(name)
  IN CASE opt # None /\ opt \cap none # {} -> Missing(f)
       [] f.presence = "omitted" \/ (opt # None /\ opt \cap asked # {}) -> inherit(f, name, prior)
       [] opt = None /\ asked \cup none # {} -> Unresolved(f)
       [] OTHER -> Explicit(f)

\* Indices must be as many as the results; a specification limit may not change.
Checked(f, name, count, prior) ==
  LET miscounted == name = "RTN_INDX" /\ f.status = "valid" /\ f.effective # count
      changed == /\ name = "LO_SPEC" /\ f.presence # "omitted" /\ f.status = "valid"
                 /\ name \in DOMAIN prior /\ prior[name].status = "valid"
                 /\ prior[name].effective # f.effective
  IN IF miscounted \/ changed THEN Invalid(f) ELSE f

Result(test, f) ==
  IF test.flag \/ test.parm
  THEN [f EXCEPT !.effective = None, !.status = IF f.sound THEN "unknown" ELSE @]
  ELSE f

resolve_defaults(test, fields, prior) ==
  LET own == Flags(fields)
      opt == IF own # None THEN own ELSE Flags(prior)
      left(f) == ~f.sound \/ f.presence \in {"truncated", "unread"}
      resolved(name, f) ==
        CASE name = "UNITS" -> Text(f, prior)
          [] name = "OPT_FLAG" -> IF test.record = "MPR" /\ f.presence = "omitted"
                                  THEN inherit(f, name, prior) ELSE f
          [] OTHER -> Checked(Number(f, name, opt, prior), name, test.count, prior)
  IN [name \in DOMAIN fields |->
        IF name = "RESULT" THEN Result(test, fields[name])
        ELSE IF left(fields[name]) THEN fields[name] ELSE resolved(name, fields[name])]

definition_fields(fields) == [name \in DOMAIN fields \ {"RESULT"} |-> fields[name]]

Follow(acc, test) ==
  LET resolved == resolve_defaults(test, inspect(test), acc.first)
  IN [first |-> IF acc.first = <<>> THEN definition_fields(resolved) ELSE acc.first,
      shown |-> Append(acc.shown, resolved)]

\* The tests of one number in one run, as the report has them.
Shown(tests) == FoldLeft(Follow, [first |-> <<>>, shown |-> <<>>], tests).shown
=============================================================================
