\* Two writers at a time, one kill, one edit of the source.
CONSTANTS
  p1 = p1
  p2 = p2
  s1 = s1
  v1 = v1
  v2 = v2
  Proc = {p1, p2}
  Source = {s1}
  Version = {v1, v2}
  Batches <- Single
  Budget <- MixedBudget
  Empty = Empty
  Partial = Partial
  Orphan = Orphan
  None = None
  b1 = b1
  b2 = b2
  Checker = {p1, p2}
  Inputs <- TwoInputs
  Body = {b1, b2}
  Size <- BodySize
  DiskLimit = 8
  ReportBudget <- MixedReports
  NoReport = NoReport
SPECIFICATION CommandSpec
CHECK_DEADLOCK FALSE
INVARIANT OutputIsComplete DigestNamesContent ReportsKept
PROPERTY DirectoryKeepsCommitted LockedTempsSurvive
