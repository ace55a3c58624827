------------------------- MODULE MCCatalogSnapshot -------------------------
(* Instances of CatalogSnapshot for TLC. *)
EXTENDS CatalogSnapshot, TLC

CONSTANTS p1, k1, k2, i1, s1, c1, o1

Single == {<<s1>>}
ClientSymmetry == Permutations({k1, k2})

\* Two conversions and one damaged object beside one command of each kind.
CatalogBudget == [convert |-> 2, recover |-> 0, legacy |-> 0,
                  crash |-> 0, edit |-> 0, damage |-> 1]
ClientBudget == [create |-> 1, select |-> 1, read |-> 1, kill |-> 0]

\* Kills on both sides, and the recovery that follows.
KilledCatalogBudget == [convert |-> 2, recover |-> 1, legacy |-> 0,
                        crash |-> 1, edit |-> 0, damage |-> 0]
KilledClientBudget == [create |-> 1, select |-> 0, read |-> 1, kill |-> 1]
=============================================================================
