-------------------------- MODULE MCDatasetCatalog --------------------------
(* Instances of DatasetCatalog for TLC. *)
EXTENDS DatasetCatalog, TLC

CONSTANTS p1, p2, i1, i2, i3, s1, s2, c1, c2, o1

BothAndFirstAgain == {<<s1, s2, s1>>}
ContentSymmetry == Permutations({c1, c2})
Single == {<<s1>>}

BudgetOf(convert, recover, legacy, crash, edit, damage) ==
  [convert |-> convert, recover |-> recover, legacy |-> legacy,
   crash |-> crash, edit |-> edit, damage |-> damage]

RecoverBudget == BudgetOf(1, 1, 1, 1, 0, 1)
RecyclingBudget == BudgetOf(1, 1, 0, 1, 0, 0)
TwoEdits == BudgetOf(1, 0, 0, 0, 2, 0)
RacingBudget == BudgetOf(0, 1, 2, 0, 0, 0)
ConvertBudget == BudgetOf(2, 0, 0, 1, 1, 0)
=============================================================================
