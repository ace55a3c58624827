\* A recovery while two guardless writers follow one another.
CONSTANTS
  p1 = p1
  p2 = p2
  i1 = i1
  i2 = i2
  i3 = i3
  s1 = s1
  s2 = s2
  c1 = c1
  c2 = c2
  o1 = o1
  Proc = {p1, p2}
  Pid = {i1, i2, i3}
  Source = {s1}
  Content = {c1}
  Malformed = {}
  Options = {o1}
  Batches <- Single
  MaxRevision = 12
  Budget <- RacingBudget
  Missing = Missing
  Orphan = Orphan
  None = None
  NoDir = NoDir
  Unlocked = Unlocked
SPECIFICATION Spec
CHECK_DEADLOCK FALSE
PROPERTY RecoverySparesLiveStages
