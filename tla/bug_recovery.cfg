SPECIFICATION Spec
CONSTANTS
  Procs = {p1, p2}
  WriteEvery = 2
  SampleEvery = 4
  Slack = 1
  Compile = 3
  CutReads = FALSE
  Floors = {f1}
  NoTable = NoTable
  HallTable = HallTable
  Missing = Missing
  MaxCrashes = 1
INVARIANT AlwaysAnOrderList
