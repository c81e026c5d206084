SPECIFICATION Spec
CONSTANTS
  NumFloors = 3
  Requests <- FewRequests
  DoorTimers = {t1, t2}
  TimeoutTasks = {k1}
  RestoredStates = {"ST_Idle", "ST_DoorOpen"}
  DoorOpensAtOnce = FALSE
SYMMETRY Interchangeable
INVARIANT StopHasDoorTimer
