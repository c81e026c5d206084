SPECIFICATION FairSpec
CONSTANTS
  Procs = {p1, p2}
  WriteEvery = 2
  SampleEvery = 4
  Slack = 1
  Compile = 3
  CutReads = FALSE
  Floors = {f1}
  NoTable = NoTable
  HallTable = HallTable
  Missing = Missing
  MaxCrashes = 2
INVARIANT TypeOK
INVARIANT OnePrimary
INVARIANT CabLampsTrue
PROPERTY BackupTakesOver
PROPERTY SavedOrderSurvives
