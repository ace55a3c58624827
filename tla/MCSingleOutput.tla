--------------------------- MODULE MCSingleOutput ---------------------------
(* Instances of OutputCommands for TLC. *)
EXTENDS OutputCommands, TLC

CONSTANTS p1, p2, s1, v1, v2, b1, b2

Single == {<<s1>>}
MixedBudget == [single |-> 2, directory |-> 2, crash |-> 1, edit |-> 1]
RetryBudget == [single |-> 3, directory |-> 0, crash |-> 1, edit |-> 1]

\* Two bodies of 1 and 2 units, twice the same source or both: a generation with its page
\* takes 7, 8 or 9 units.
TwoInputs == <<"a.stdf", "b.stdf">>
BodySize == (b1 :> 1) @@ (b2 :> 2)
MixedReports == [command |-> 2, kill |-> 1, failure |-> 1, cancel |-> 1]
NoReports == [command |-> 0, kill |-> 0, failure |-> 0, cancel |-> 0]
=============================================================================
