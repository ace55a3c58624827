---------------------------- MODULE PartIdentity ----------------------------
(***************************************************************************)
(* Which device an attempt belongs to (stdf-arrow/src/identity.rs), and    *)
(* what each program gives that rule.                                      *)
(*                                                                         *)
(* An attempt has a wafer, a lot, the coordinates of its PRR and its tests *)
(* in file order.  A name is [tokens, letters]: the axes it names as a     *)
(* word or in a word as coord_x, die_x, x_location, and those whose letter *)
(* it contains.  A value is twice the number, so that an odd one stands    *)
(* for what is not an integer; one of 2^63 or more is odd too.             *)
(***************************************************************************)
EXTENDS Integers, Sequences, FiniteSets, SequencesExt

CONSTANTS
  None,
  PlainWafer,   \* wafer identifiers of capital letters and digits
  NoLot         \* the empty lot

positive_integer(t) ==
  IF t.finite /\ t.value > 0 /\ t.value % 2 = 0 THEN t.value \div 2 ELSE None

\* Words beat letters; a name of both axes, or of none, designates none.
coordinate_axis(name) ==
  LET axes == IF name.tokens # {} THEN name.tokens ELSE name.letters
  IN IF Cardinality(axes) # 1 THEN None
     ELSE [axis |-> CHOOSE a \in axes : TRUE, rank |-> IF name.tokens # {} THEN 2 ELSE 1]

NoCandidate == [rank |-> 0, coordinate |-> None, invalid |-> FALSE]

Candidate(c, rank, value) ==
  CASE rank > c.rank -> [rank |-> rank, coordinate |-> value, invalid |-> value = None]
    [] rank = c.rank /\ value # c.coordinate -> [c EXCEPT !.invalid = TRUE]
    [] OTHER -> c

CoordinateOf(c) == IF c.invalid THEN None ELSE c.coordinate

\* CoordinateCandidates::observe, for the tests in a list.
Observe(candidates, t) ==
  LET designated == IF t.name = None THEN None ELSE coordinate_axis(t.name)
  IN IF designated = None THEN candidates
     ELSE [candidates EXCEPT ![designated.axis] =
             Candidate(@, designated.rank, positive_integer(t))]

Candidates(tests) == FoldLeft(Observe, [a \in {"x", "y"} |-> NoCandidate], tests)

lot_key(tests, lot) ==
  LET c == Candidates(tests)
      x == CoordinateOf(c["x"])
      y == CoordinateOf(c["y"])
  IN IF lot = NoLot \/ x = None \/ y = None THEN None ELSE <<"lot-ptr", lot, x, y>>

Positive(n) == n # None /\ n > 0

wafer_key(wafer, x, y) ==
  IF wafer \in PlainWafer /\ Positive(x) /\ Positive(y) THEN <<"wafer-prr", wafer, x, y>>
  ELSE None

Either(primary, fallback) == IF primary # None THEN primary ELSE fallback

Primary(part) == wafer_key(part.wafer, part.x, part.y)

-----------------------------------------------------------------------------
(* The programs.                                                           *)

\* The converter: the rows of the part, of which those of PTRs count.
part_merge_key(part) ==
  Either(Primary(part),
         IF part.lot = NoLot THEN None
         ELSE lot_key(SelectSeq(part.tests, LAMBDA t : t.kind = "PTR"), part.lot))

\* Traceability: the PTRs as they are read.
traced_key(part) ==
  LET read(c, t) == IF t.kind = "PTR" THEN Append(c, t) ELSE c
  IN Either(Primary(part), lot_key(FoldLeft(read, <<>>, part.tests), part.lot))

\* The sanity report: a result has a value unless it is marked unreliable or not finite.
sanity_key(part) ==
  LET checked(t) == t.kind = "PTR" /\ t.reliable /\ t.finite
  IN Either(Primary(part), lot_key(SelectSeq(part.tests, checked), part.lot))

\* The Pareto report and the viewer: the PRR's pair, or the tests' whatever the lot.
prr_or_ptr(part) ==
  LET key == lot_key(SelectSeq(part.tests, LAMBDA t : t.kind = "PTR"), "coordinate")
  IN IF Positive(part.x) /\ Positive(part.y) THEN <<part.x, part.y>>
     ELSE IF key = None THEN None ELSE <<key[3], key[4]>>

\* Their device: lot and pair; the wafer, any or none, only if it is not ambiguous.
ecid(part) ==
  LET xy == prr_or_ptr(part)
  IN IF part.lot = NoLot \/ part.ambiguous \/ xy = None THEN None
     ELSE <<"lot-wafer-xy", part.lot, part.wafer, xy[1], xy[2]>>
=============================================================================
