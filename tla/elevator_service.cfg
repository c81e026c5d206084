SPECIFICATION FairSpec
CONSTANTS
  NumFloors = 3
  Requests <- ButtonEvent
  DoorTimers = {t1, t2}
  TimeoutTasks = {}
  RestoredStates = {"ST_Idle"}
  DoorOpensAtOnce = TRUE
INVARIANT TypeOK
INVARIANT DoorOpenOnlyAtRest
INVARIANT StaysInBounds
INVARIANT ObstructionHoldsCabin
INVARIANT StateMatchesMotor
INVARIANT IdleMeansNoOrders
PROPERTY ImplementsLift
PROPERTY CabLampPromise
PROPERTY HallOrdersLeave
