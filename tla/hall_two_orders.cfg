SPECIFICATION FairSpec
CONSTANTS
  a = a
  b = b
  s1 = s1
  s2 = s2
  Elevs = {a, b}
  NoElev = none
  SlotSeq <- TwoSlots
  Preferred <- PreferA
  CostsAgree = TRUE
  Timely = TRUE
  Heard = {a, b}
  MaxPresses = 2
  MaxCopies = 2
  FaultBounds <- NoFaults
INVARIANT LitOrdersSaved
INVARIANT LampsShowReports
INVARIANT NoOrderIsLost
PROPERTY HallLampPromise
PROPERTY HallLampsGoOut
