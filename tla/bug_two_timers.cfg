SPECIFICATION Spec
CONSTANTS
  NumFloors = 3
  Requests <- FewRequests
  DoorTimers = {t1, t2}
  TimeoutTasks = {}
  RestoredStates = {"ST_Idle"}
  DoorOpensAtOnce = FALSE
SYMMETRY Interchangeable
INVARIANT ObstructionHoldsCabin
