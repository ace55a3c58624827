\* One file of a few records, read by six programs; and bounded inputs for sequential parts.
CONSTANTS
  h1 = h1
  s1 = s1
  s2 = s2
  g1 = g1
  ga = ga
  w1 = w1
  w2 = w2
  HeadNum = {h1}
  SiteNum = {s1, s2}
  SiteGrp = {g1, ga}
  AllSites = ga
  Wafer = {w1, w2}
  NoWafer = NoWafer
  Values = {0, 1}
  MaxPendingTests = 3
  MaxMemory = 72
  Alphabet <- FullAlphabet
  RecordBudget <- ReadersBudget
  MaxRecords = 6
  MaxRefused = 3
  FragmentRows = 2
  RecordCost = 1
  TestCost = 4
  AttemptCost = 16
  EvidenceLimit = 52
  PlainWafer = {w1}
  NoLot = NoLot
  Identified <- SmallIdentified
  NotFinite = NotFinite
  Cut = Cut
  Definitions <- SmallDefinitions
  Histories <- SmallHistories
  Flows <- SmallFlows
  Cells <- SmallCells
  Tables <- SmallTables
  Limits <- SmallLimits
  Inputs <- SmallInputs
  BinnedParts <- SmallParts
  None = None
  Heads <- SmallHeads
  Recordings <- SmallRecordings
  Chunks <- SmallChunks
  BatchLists <- SmallBatches
  WriterLimits <- SmallWriterLimits
  FileReserve = 8
  MinimumWorking = 16
  DigestLists <- SmallDigestLists
  FragmentLists <- SmallFragmentLists
  Databases <- SmallDatabases
  Queries <- SmallQueries
  Curves <- SmallCurves
SPECIFICATION Spec
CHECK_DEADLOCK FALSE
INVARIANT PartsCharged ChargesBalance NoRowLost AttemptsAgree WafersAgree CleanFileIsReadable ValidatorAgrees RowsStoredOnce DevicesJudged TotalsAddUp FramersAgree
