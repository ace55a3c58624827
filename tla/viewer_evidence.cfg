\* Two processes that view, retain, verify and analyze.
CONSTANTS
  p1 = p1
  p2 = p2
  fa = fa
  fb = fb
  ba = ba
  bb = bb
  s1 = s1
  s2 = s2
  a = a
  b = b
  d1 = d1
  d2 = d2
  t1 = t1
  t2 = t2
  None = None
  NoDevice = NoDevice
  Proc = {p1, p2}
  File = {fa, fb}
  Body = {ba, bb}
  BodyOf <- Bodies
  Key = {1, 2, 3}
  MemoryRecords = 3
  FanIn = 2
  Catalog <- Snapshots
  MeasuredRows <- Measured
  SpillLimits = {5, 13, 14}
  DiskLimit = 3
  Device = {d1, d2}
  TestSite = {t1, t2}
  AttemptRows <- Tested
  Request <- Requests
  InitialBundles <- Bundles
  Views = TRUE
  Retentions <- BothSnapshots
  Budget <- EvidenceBudget
SPECIFICATION Spec
CHECK_DEADLOCK FALSE
INVARIANT StageUnderGuard CacheHoldsItsSource SpillSound RowsRetained SummariesAgree
PROPERTY ImplementsArchive CommandsEnd
