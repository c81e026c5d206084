SPECIFICATION Spec
CONSTANTS
  NumFloors = 3
  NumElevs = 3
CHECK_DEADLOCK FALSE
INVARIANT AgreedChoice
INVARIANT ClosestIdleChosen
INVARIANT MovingPrioritised
