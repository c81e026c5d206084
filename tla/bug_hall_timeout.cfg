SPECIFICATION FairSpec
CONSTANTS
  a = a
  b = b
  s1 = s1
  s2 = s2
  Elevs = {a, b}
  NoElev = none
  SlotSeq <- OneSlot
  Preferred <- PreferA
  CostsAgree = TRUE
  Timely = TRUE
  Heard = {a, b}
  MaxPresses = 1
  MaxCopies = 1
  FaultBounds <- CabOrder
PROPERTY HallLampPromise
