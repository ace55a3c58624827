\* Two conversions of a batch with a repeated input, one kill, one edit.
CONSTANTS
  p1 = p1
  p2 = p2
  i1 = i1
  i2 = i2
  i3 = i3
  s1 = s1
  s2 = s2
  c1 = c1
  c2 = c2
  o1 = o1
  Proc = {p1}
  Pid = {i1, i2}
  Source = {s1, s2}
  Content = {c1, c2}
  Malformed = {}
  Options = {o1}
  Batches <- BothAndFirstAgain
  MaxRevision = 6
  Budget <- ConvertBudget
  Missing = Missing
  Orphan = Orphan
  None = None
  NoDir = NoDir
  Unlocked = Unlocked
SPECIFICATION Spec
SYMMETRY ContentSymmetry
CHECK_DEADLOCK FALSE
INVARIANT TypeOK CommittedPublished CommittedRowsMatchSource StatusAgreesWithFailures
PROPERTY CompleteRunCoversInputs ImplementsStore
