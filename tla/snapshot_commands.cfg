\* Two snapshot commands beside two conversions and damage.
CONSTANTS
  p1 = p1
  k1 = k1
  k2 = k2
  i1 = i1
  s1 = s1
  c1 = c1
  o1 = o1
  Proc = {p1}
  Client = {k1, k2}
  Pid = {i1}
  Source = {s1}
  Content = {c1}
  Malformed = {}
  Options = {o1}
  Batches <- Single
  MaxRevision = 12
  Budget <- CatalogBudget
  SnapshotBudget <- ClientBudget
  Missing = Missing
  Orphan = Orphan
  None = None
  NoDir = NoDir
  Unlocked = Unlocked
SPECIFICATION SnapshotSpec
SYMMETRY ClientSymmetry
CHECK_DEADLOCK FALSE
INVARIANT PointerSelectsSnapshot CurrentNeverFallsBack
PROPERTY SnapshotCapturesCurrent IncompleteNeedsOwnFlag
