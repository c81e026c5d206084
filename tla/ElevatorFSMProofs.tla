---- MODULE ElevatorFSMProofs ----
(***************************************************************************)
(* One elevator, for any number of floors, requests, door timers and       *)
(* onTimeout goroutines.                                                   *)
(***************************************************************************)
EXTENDS ElevatorFSM, ElevHandlerProofs

\* The statuses the handlers compute from a status.
LEMMA LeavesType ==
    ASSUME NEW e \in ElevatorStatus
    PROVE  /\ MovesDown(e) \in ElevatorStatus
           /\ MovesUp(e) \in ElevatorStatus
           /\ Rests(e) \in ElevatorStatus
           /\ StopsHere(e) \in ElevatorStatus
           /\ [e EXCEPT !.Available = TRUE] \in ElevatorStatus
           /\ [e EXCEPT !.Available = FALSE] \in ElevatorStatus
           /\ [e EXCEPT !.State = "ST_DoorOpen"] \in ElevatorStatus
           /\ \A f \in Floors : [e EXCEPT !.Floor = f] \in ElevatorStatus
<1>1. QED
  BY DEF MovesDown, MovesUp, Rests, StopsHere, ElevatorStatus, MotorDirection,
         ElevatorState

\* A status restored at a floor becomes one with that floor.
Located(e, f) == [SetEndstation([e EXCEPT !.Floor = f]) EXCEPT !.Available = TRUE]

LEMMA LocatedType ==
    ASSUME NEW e \in ElevatorStatus, NEW f \in Floors
    PROVE  Located(e, f) \in ElevatorStatus /\ Located(e, f).Floor = f
<1>1. LET g == [e EXCEPT !.Floor = f]
      IN  g \in ElevatorStatus /\ g.Floor = f
  BY DEF ElevatorStatus
<1>2. LET g == SetEndstation([e EXCEPT !.Floor = f])
      IN  g \in ElevatorStatus /\ g.Floor = f
  BY <1>1, SetEndstationType DEF SameTravel
<1>3. QED
  BY <1>2 DEF Located, ElevatorStatus

\* The status an elevator closes its door with.
Cleared(e) == [ClearOrdersAtFloor(e) EXCEPT !.Available = TRUE]

LEMMA ClearedType ==
    ASSUME NEW e \in ElevatorStatus
    PROVE  Cleared(e) \in ElevatorStatus /\ Cleared(e).Floor = e.Floor
<1>1. ClearOrdersAtFloor(e) \in ElevatorStatus /\ ClearOrdersAtFloor(e).Floor = e.Floor
  BY ClearOrdersType DEF SameTravel
<1>2. QED
  BY <1>1 DEF Cleared, ElevatorStatus

\* One of three things happens when the door closes.
LEMMA DoorTimeoutCases ==
    ASSUME TypeOK, NEW t \in DoorTimers, OnDoorTimeout(t)
    PROVE  \/ /\ Cleared(elev).Endstation = elev.Floor
              /\ elev' = Rests(Cleared(elev))
              /\ cabin' = SetMotor(cabin, MD_Stop)
           \/ /\ Cleared(elev).Endstation > elev.Floor
              /\ elev' = MovesUp(Cleared(elev))
              /\ cabin' = SetMotor(cabin, MD_Up)
           \/ /\ Cleared(elev).Endstation < elev.Floor
              /\ elev' = MovesDown(Cleared(elev))
              /\ cabin' = SetMotor(cabin, MD_Down)
<1> DEFINE e == Cleared(elev)
<1>1. e.Floor = elev.Floor /\ e.Endstation \in Int /\ e.Floor \in Int
  BY ClearedType DEF TypeOK, ElevatorStatus, Floors
<1>2. CASE e.Endstation = e.Floor
  BY <1>1, <1>2 DEF OnDoorTimeout, Cleared
<1>3. CASE e.Endstation > e.Floor
  BY <1>1, <1>3 DEF OnDoorTimeout, Cleared
<1>4. CASE e.Endstation < e.Floor
  BY <1>1, <1>4 DEF OnDoorTimeout, Cleared
<1>5. QED
  BY <1>1, <1>2, <1>3, <1>4

LEMMA DoorTimerType ==
    TypeOK /\ StartDoorTimer(elev'.State) => timer' \in [DoorTimers -> TimerPhase]
<1>1. QED
  BY DEF StartDoorTimer, TypeOK, TimerPhase

LEMMA TypeOKInit == Init => TypeOK
<1> SUFFICES ASSUME Init PROVE TypeOK
  OBVIOUS
<1>1. elev \in ElevatorStatus
  <2>1. 0 \in Floors
    BY NumFloorsAssumption DEF Floors
  <2>2. QED
    BY <2>1, RequestsAssumption, RestoredAssumption DEF Init, ElevatorStatus
<1>2. cabin \in CabinState
  BY SetMotorType DEF Init, randomStart, MotorDirection
<1>3. cabLamps \in SUBSET Floors
  BY <1>1 DEF Init, Inside, ElevatorStatus, ButtonEvent
<1>4. QED
  BY <1>1, <1>2, <1>3 DEF Init, TypeOK, TimerPhase, TaskPhase

LEMMA TypeOKNext == TypeOK /\ [Next]_vars => TypeOK'
<1> SUFFICES ASSUME TypeOK, [Next]_vars PROVE TypeOK'
  OBVIOUS
<1> USE DEF TypeOK
<1>0. cabin.currFloor # Between => cabin.currFloor \in Floors
  BY DEF CabinState
<1>1. CASE InitializeElevator
  <2> DEFINE e == Located(elev, cabin.currFloor)
  <2>1. e \in ElevatorStatus
    BY <1>0, <1>1, LocatedType DEF InitializeElevator
  <2>2. elev' \in ElevatorStatus
    BY <1>1, <2>1, LeavesType DEF InitializeElevator, Located
  <2>3. cabin' \in CabinState
    BY <1>1, SetMotorType DEF InitializeElevator, MotorDirection
  <2>4. QED
    BY <1>0, <1>1, <2>2, <2>3, DoorTimerType DEF InitializeElevator
<1>2. ASSUME NEW o \in Requests, NewOrder(o) PROVE TypeOK'
  <2>1. o \in ButtonEvent /\ o.Floor \in Floors
    BY RequestsAssumption DEF ButtonEvent
  <2>2. AddOrder(elev, o) \in ElevatorStatus
    BY <2>1, AddOrderType
  <2>3. elev' \in ElevatorStatus
    BY <1>2, <2>2, LeavesType DEF NewOrder
  <2>4. cabin' \in CabinState
    BY <1>2, SetMotorType DEF NewOrder, MotorDirection
  <2>5. QED
    BY <1>2, <2>1, <2>3, <2>4, DoorTimerType DEF NewOrder, pollers
<1>3. ASSUME NEW o \in HallRequests, OnRemoveOrder(o) PROVE TypeOK'
  BY <1>3, RemoveOrderType DEF OnRemoveOrder, goroutines, pollers
<1>4. CASE OnFloorSensor
  <2> DEFINE e == [elev EXCEPT !.Floor = cabin.currFloor, !.Available = TRUE]
  <2>1. /\ e \in ElevatorStatus
        /\ [e EXCEPT !.Direction = MD_Up, !.State = "ST_StopUp"] \in ElevatorStatus
        /\ [e EXCEPT !.Direction = MD_Down, !.State = "ST_StopDown"] \in ElevatorStatus
    BY <1>0, <1>4 DEF OnFloorSensor, ElevatorStatus, MotorDirection, ElevatorState
  <2>2. elev' \in ElevatorStatus
    BY <1>4, <2>1 DEF OnFloorSensor
  <2>3. cabin' \in CabinState
    BY <1>4, SetMotorType DEF OnFloorSensor, MotorDirection
  <2>4. QED
    BY <1>0, <1>4, <2>2, <2>3, DoorTimerType DEF OnFloorSensor
<1>5. ASSUME NEW t \in DoorTimers, DoorTimer(t) PROVE TypeOK'
  <2>1. CASE DoorOpened(t)
    BY <2>1, LeavesType DEF DoorOpened, pollers, TimerPhase
  <2>2. CASE LampOn(t)
    BY <2>2 DEF LampOn, pollers, TimerPhase
  <2>3. CASE TimerFires(t)
    BY <2>3 DEF TimerFires, pollers, TimerPhase
  <2>4. CASE TimerRead(t)
    BY <2>4 DEF TimerRead, pollers, TimerPhase
  <2>5. CASE ObstructionReceived(t)
    BY <2>5 DEF ObstructionReceived, TimerPhase
  <2>6. CASE OnDoorTimeout(t)
    <3>1. Cleared(elev) \in ElevatorStatus
      BY ClearedType
    <3>2. elev' \in ElevatorStatus
      BY <2>6, <3>1, DoorTimeoutCases, LeavesType
    <3>3. cabin' \in CabinState
      BY <2>6, DoorTimeoutCases, SetMotorType DEF MotorDirection
    <3>4. QED
      BY <2>6, <3>2, <3>3 DEF OnDoorTimeout, pollers, TimerPhase
  <2>7. QED
    BY <1>5, <2>1, <2>2, <2>3, <2>4, <2>5, <2>6 DEF DoorTimer
<1>6. ASSUME NEW k \in TimeoutTasks, TimeOutToElev(k) \/ OnTimeout(k) PROVE TypeOK'
  <2>1. CASE TimeOutToElev(k)
    BY <2>1 DEF TimeOutToElev, pollers, TaskPhase
  <2>2. CASE TaskStarts(k)
    BY <2>2, LeavesType DEF TaskStarts, pollers, TaskPhase
  <2>3. CASE TaskChecks(k)
    BY <2>3 DEF TaskChecks, pollers, TaskPhase
  <2>4. CASE TaskReads(k)
    <3>1. elev.State \in ElevatorState
      BY DEF ElevatorStatus
    <3>2. task'[k] \in TaskPhase
      BY <2>4, <3>1 DEF TaskReads, ElevatorState, Stopping, TaskPhase
    <3>3. QED
      BY <2>4, <3>2 DEF TaskReads, pollers
  <2>5. CASE TaskDrives(k)
    BY <2>5, SetMotorType DEF TaskDrives, pollers, TaskPhase, MotorDirection
  <2>6. QED
    BY <1>6, <2>1, <2>2, <2>3, <2>4, <2>5 DEF OnTimeout
<1>7. CASE SensorLeft
  BY <1>7 DEF SensorLeft, goroutines
<1>8. CASE PollObstructionSwitch
  BY <1>8 DEF PollObstructionSwitch, goroutines
<1>9. CASE FloorArrival
  BY <1>9, ArriveType DEF FloorArrival, goroutines, pollers
<1>10. CASE FloorDeparture
  BY <1>10, DepartType DEF FloorDeparture, goroutines, pollers
<1>11. CASE ManualMoveWithinBounds
  BY <1>11, MoveWithinBoundsType DEF ManualMoveWithinBounds, goroutines, pollers
<1>12. CASE ObstructionSwitch
  BY <1>12 DEF ObstructionSwitch, goroutines, pollers
<1>13. CASE UNCHANGED vars
  BY <1>13 DEF vars
<1>14. QED
  BY <1>1, <1>2, <1>3, <1>4, <1>5, <1>6, <1>7, <1>8, <1>9, <1>10, <1>11, <1>12,
     <1>13
  DEF Next, Panel, System

\* The variables keep their types: in particular every set of orders has a floor
\* to head for, and the cabin of the simulator never arrives outside the shaft.
THEOREM TypeCorrect == Spec => []TypeOK
<1>1. QED
  BY TypeOKInit, TypeOKNext, PTL DEF Spec
-----------------------------------------------------------------------------
(* Every stop gets its door timer.                                          *)

LEMMA StopsHereStops ==
    ASSUME NEW e \in ElevatorStatus
    PROVE  /\ StopsHere(e).Floor = e.Floor
           /\ StopsHere(e).State \in Stopping \union {e.State}
           /\ e.Floor \in Requested(e) => StopsHere(e).State \in Stopping
<1>1. e.Floor \in Requested(e) => e.Floor \in Inside(e) \union Up(e) \union Down(e)
  BY DEF Requested, Inside, Up, Down, ElevatorStatus, ButtonEvent, ButtonType
<1>2. QED
  BY <1>1 DEF StopsHere, Stopping, ElevatorStatus

\* What InitializeElevator decides, by the floor it finds itself at.
LEMMA InitializeCases ==
    ASSUME TypeOK, InitializeElevator
    PROVE  LET e == Located(elev, cabin.currFloor)
           IN  /\ cabin.currFloor \in Floors /\ e \in ElevatorStatus
               /\ e.Floor = cabin.currFloor
               /\ \/ /\ e.Endstation < e.Floor
                     /\ elev' = MovesDown(e)
                     /\ cabin' = SetMotor(cabin, MD_Down)
                  \/ /\ e.Endstation > e.Floor
                     /\ elev' = MovesUp(e)
                     /\ cabin' = SetMotor(cabin, MD_Up)
                  \/ /\ e.Endstation = e.Floor
                     /\ \/ e.Floor \notin Requested(e) /\ elev' = Rests(e)
                        \/ e.Floor \in Requested(e) /\ elev' = StopsHere(e)
                     /\ elev'.State \in Stopping \union {"ST_Idle"}
                     /\ cabin' = SetMotor(cabin, MD_Stop)
<1> DEFINE e == Located(elev, cabin.currFloor)
<1>1. cabin.currFloor \in Floors
  BY DEF TypeOK, InitializeElevator, CabinState
<1>2. e \in ElevatorStatus /\ e.Floor = cabin.currFloor
  BY <1>1, LocatedType DEF TypeOK
<1>3. Rests(e).State = "ST_Idle"
  BY <1>2 DEF Rests, ElevatorStatus
<1>4. e.Floor \in Requested(e) => StopsHere(e).State \in Stopping
  BY <1>2, StopsHereStops
<1>5. e.Endstation \in Int /\ e.Floor \in Int
  BY <1>2 DEF ElevatorStatus, Floors
<1>6. QED
  BY <1>1, <1>2, <1>3, <1>4, <1>5 DEF InitializeElevator, Located

\* What onNewOrder does.
LEMMA NewOrderCases ==
    ASSUME TypeOK, NEW o \in Requests, NewOrder(o)
    PROVE  LET e == AddOrder(elev, o)
           IN  /\ e \in ElevatorStatus /\ SameTravel(e, elev)
               /\ \/ elev.State # "ST_Idle" /\ elev' = e /\ cabin' = cabin
                  \/ /\ elev.State = "ST_Idle" /\ e.Endstation < e.Floor
                     /\ elev' = MovesDown(e)
                     /\ cabin' = SetMotor(cabin, MD_Down)
                  \/ /\ elev.State = "ST_Idle" /\ e.Endstation > e.Floor
                     /\ elev' = MovesUp(e)
                     /\ cabin' = SetMotor(cabin, MD_Up)
                  \/ /\ elev.State = "ST_Idle" /\ e.Endstation = e.Floor
                     /\ elev' = StopsHere(e) /\ cabin' = cabin
<1>1. o \in ButtonEvent
  BY RequestsAssumption
<1>2. AddOrder(elev, o) \in ElevatorStatus /\ SameTravel(AddOrder(elev, o), elev)
  BY <1>1, AddOrderType DEF TypeOK
<1>3. AddOrder(elev, o).Endstation \in Int /\ AddOrder(elev, o).Floor \in Int
  BY <1>2 DEF ElevatorStatus, Floors
<1>4. QED
  BY <1>2, <1>3 DEF NewOrder, SameTravel

\* What onFloorSensor does.
LEMMA FloorSensorCases ==
    ASSUME TypeOK, OnFloorSensor
    PROVE  /\ cabin.currFloor \in Floors
           /\ elev'.Floor = cabin.currFloor
           /\ elev'.Endstation = elev.Endstation /\ elev'.Orders = elev.Orders
           /\ \/ /\ elev.State = "ST_MovingUp" /\ elev'.State = "ST_StopUp"
                 /\ elev'.Direction = MD_Up /\ cabin' = SetMotor(cabin, MD_Stop)
              \/ /\ elev.State = "ST_MovingDown" /\ elev'.State = "ST_StopDown"
                 /\ elev'.Direction = MD_Down /\ cabin' = SetMotor(cabin, MD_Stop)
              \/ /\ elev.State = "ST_MovingUp" /\ elev'.State = elev.State
                 /\ elev.Endstation > elev'.Floor /\ cabin' = cabin
                 /\ elev'.Direction = elev.Direction
              \/ /\ elev.State = "ST_MovingDown" /\ elev'.State = elev.State
                 /\ elev.Endstation < elev'.Floor /\ cabin' = cabin
                 /\ elev'.Direction = elev.Direction
              \/ /\ elev.State \notin {"ST_MovingUp", "ST_MovingDown"}
                 /\ elev'.State = elev.State
<1> DEFINE e == [elev EXCEPT !.Floor = cabin.currFloor, !.Available = TRUE]
<1>1. cabin.currFloor \in Floors
  BY DEF TypeOK, OnFloorSensor, CabinState
<1>2. /\ e.Floor = cabin.currFloor /\ e.State = elev.State
      /\ e.Endstation = elev.Endstation /\ e.Orders = elev.Orders
      /\ e.Direction = elev.Direction
      /\ e.Endstation \in Int /\ e.Floor \in Int
  BY <1>1 DEF TypeOK, ElevatorStatus, Floors
<1>3. e \in ElevatorStatus
  BY <1>1 DEF TypeOK, ElevatorStatus
<1>4. CASE e.State = "ST_MovingUp" /\ StopsGoingUp(e)
  BY <1>1, <1>2, <1>3, <1>4 DEF OnFloorSensor, ElevatorStatus
<1>5. CASE e.State = "ST_MovingDown" /\ StopsGoingDown(e)
  BY <1>1, <1>2, <1>3, <1>5 DEF OnFloorSensor, ElevatorStatus
<1>6. CASE e.State = "ST_Idle"
  BY <1>1, <1>2, <1>3, <1>6 DEF OnFloorSensor, ElevatorStatus
<1>7. CASE /\ ~ (e.State = "ST_MovingUp" /\ StopsGoingUp(e))
           /\ ~ (e.State = "ST_MovingDown" /\ StopsGoingDown(e))
           /\ e.State # "ST_Idle"
  <2>1. elev' = e /\ cabin' = cabin
    BY <1>7 DEF OnFloorSensor
  <2>2. e.State = "ST_MovingUp" => e.Endstation > e.Floor
    BY <1>2, <1>7 DEF StopsGoingUp
  <2>3. e.State = "ST_MovingDown" => e.Endstation < e.Floor
    BY <1>2, <1>7 DEF StopsGoingDown
  <2>4. QED
    BY <1>1, <1>2, <2>1, <2>2, <2>3
<1>8. QED
  BY <1>4, <1>5, <1>6, <1>7

\* Where a door timer is started by the state a handler left, StopHasDoorTimer
\* holds after it.
LEMMA StartedTimer ==
    ASSUME TypeOK, StopHasDoorTimer, StartDoorTimer(elev'.State),
           elev'.State = "ST_DoorOpen" => booted /\ elev.State = "ST_DoorOpen"
    PROVE  StopHasDoorTimer'
<1>1. CASE elev'.State \in Stopping
  <2>1. PICK t \in DoorTimers : timer' = [timer EXCEPT ![t] = "opening"]
    BY <1>1 DEF StartDoorTimer
  <2>2. timer'[t] = "opening"
    BY <2>1 DEF TypeOK
  <2>3. QED
    BY <1>1, <2>2 DEF StopHasDoorTimer, Stopping
<1>2. CASE elev'.State \notin Stopping
  BY <1>2 DEF StartDoorTimer, StopHasDoorTimer
<1>3. QED
  BY <1>1, <1>2

LEMMA StopHasDoorTimerNext ==
    TypeOK /\ StopHasDoorTimer /\ [Next]_vars => StopHasDoorTimer'
<1> SUFFICES ASSUME TypeOK, StopHasDoorTimer, [Next]_vars PROVE StopHasDoorTimer'
  OBVIOUS
<1>1. CASE InitializeElevator
  <2>1. elev'.State # "ST_DoorOpen"
    BY <1>1, InitializeCases DEF MovesDown, MovesUp, Stopping, ElevatorStatus
  <2>2. QED
    BY <1>1, <2>1, StartedTimer DEF InitializeElevator
<1>2. ASSUME NEW o \in Requests, NewOrder(o) PROVE StopHasDoorTimer'
  <2>1. elev'.State = "ST_DoorOpen" => elev.State = "ST_DoorOpen"
    BY <1>2, NewOrderCases, StopsHereStops
    DEF MovesDown, MovesUp, Stopping, ElevatorStatus, SameTravel
  <2>2. QED
    BY <1>2, <2>1, StartedTimer DEF NewOrder
<1>3. ASSUME NEW o \in HallRequests, OnRemoveOrder(o) PROVE StopHasDoorTimer'
  BY <1>3, RemoveOrderType
  DEF OnRemoveOrder, goroutines, StopHasDoorTimer, TypeOK, SameTravel
<1>4. CASE OnFloorSensor
  <2>1. elev'.State = "ST_DoorOpen" => elev.State = "ST_DoorOpen"
    BY <1>4, FloorSensorCases
  <2>2. QED
    BY <1>4, <2>1, StartedTimer DEF OnFloorSensor
<1>5. ASSUME NEW t \in DoorTimers, DoorTimer(t) PROVE StopHasDoorTimer'
  <2> USE DEF StopHasDoorTimer, TypeOK
  <2>1. CASE DoorOpened(t)
    BY <2>1 DEF DoorOpened, ElevatorStatus, Stopping
  <2>2. CASE LampOn(t)
    BY <2>2 DEF LampOn
  <2>3. CASE TimerFires(t)
    BY <2>3 DEF TimerFires
  <2>4. CASE TimerRead(t)
    BY <2>4 DEF TimerRead
  <2>5. CASE ObstructionReceived(t)
    BY <2>5 DEF ObstructionReceived, InSelect
  <2>6. CASE OnDoorTimeout(t)
    <3>1. Cleared(elev) \in ElevatorStatus
      BY ClearedType
    <3>2. elev'.State \in {"ST_Idle", "ST_MovingUp", "ST_MovingDown"}
      BY <2>6, <3>1, DoorTimeoutCases DEF Rests, MovesUp, MovesDown, ElevatorStatus
    <3>3. QED
      BY <3>2 DEF Stopping
  <2>7. QED
    BY <1>5, <2>1, <2>2, <2>3, <2>4, <2>5, <2>6 DEF DoorTimer
<1>6. ASSUME NEW k \in TimeoutTasks, TimeOutToElev(k) \/ OnTimeout(k)
      PROVE  StopHasDoorTimer'
  <2>1. elev'.State = elev.State /\ timer' = timer /\ booted' = booted
    BY <1>6 DEF TimeOutToElev, OnTimeout, TaskStarts, TaskChecks, TaskReads,
                TaskDrives, TypeOK, ElevatorStatus
  <2>2. QED
    BY <2>1 DEF StopHasDoorTimer
<1>7. CASE \/ SensorLeft \/ PollObstructionSwitch \/ FloorArrival \/ FloorDeparture
           \/ ManualMoveWithinBounds \/ ObstructionSwitch \/ UNCHANGED vars
  BY <1>7 DEF SensorLeft, PollObstructionSwitch, FloorArrival, FloorDeparture,
              ManualMoveWithinBounds, ObstructionSwitch, vars, goroutines,
              StopHasDoorTimer
<1>8. QED
  BY <1>1, <1>2, <1>3, <1>4, <1>5, <1>6, <1>7 DEF Next, Panel, System

\* Whatever the goroutines do and however many of them there are, a stop is never
\* left without the door timer that opens the door, nor an open door without one
\* that closes it (ElevatorFSM starts one after every event that may stop).
THEOREM StopsGetDoorTimers == Spec => []StopHasDoorTimer
<1>1. Init => StopHasDoorTimer
  BY DEF Init, StopHasDoorTimer
<1>2. QED
  BY <1>1, StopHasDoorTimerNext, TypeCorrect, PTL DEF Spec
-----------------------------------------------------------------------------
(* The door, the motor and the shaft, where the event loop keeps up: the    *)
(* door timer's doorOpen is received before a further order, no time-out    *)
(* goroutine beside the loop, no restart into a door left open.             *)

Undisturbed ==
    DoorOpensAtOnce /\ TimeoutTasks = {} /\ "ST_DoorOpen" \notin RestoredStates

\* No door timer exists; one exists, in one of the phases given.
NoTimer == \A t \in DoorTimers : timer[t] = "none"

OneTimer(phases) ==
    \E t \in DoorTimers :
        timer[t] \in phases /\ \A u \in DoorTimers \ {t} : timer[u] = "none"

Moving == {"ST_MovingUp", "ST_MovingDown"}

\* The state tells how many door timers there are and how far the one has come,
\* and only that one has the door lamp lit.
DoorInv ==
    /\ ~booted => NoTimer /\ ~doorLamp
    /\ booted /\ elev.State \in Moving \union {"ST_Idle"} => NoTimer /\ ~doorLamp
    /\ booted /\ elev.State \in Stopping => OneTimer({"opening"}) /\ ~doorLamp
    /\ booted /\ elev.State = "ST_DoorOpen" =>
          \/ OneTimer({"lamp"}) /\ ~doorLamp
          \/ OneTimer(InSelect \union {"finishing"}) /\ doorLamp

\* An elevator that does not move stands at its floor, and the poller knows; one
\* that leaves a floor has a floor to go to.
MotorInv ==
    /\ ~booted => cabin.currDirn = MD_Down /\ polled = Between
    /\ StateMatchesMotor
    /\ booted /\ elev.State \notin Moving =>
          cabin.currFloor = elev.Floor /\ polled = elev.Floor
    /\ StaysInBounds
    /\ cabin.currFloor # Between => cabin.prevFloor = cabin.currFloor
    /\ polled = cabin.currFloor /\ polled # Between =>
          /\ cabin.currDirn = MD_Down => cabin.currFloor > 0
          /\ cabin.currDirn = MD_Up => cabin.currFloor < NumFloors - 1

DoorMotorInv == TypeOK /\ DoorInv /\ MotorInv
LEMMA DoorMotorInit ==
    ASSUME Undisturbed, Init
    PROVE  DoorMotorInv
<1>1. DoorInv
  BY DEF Undisturbed, Init, DoorInv, NoTimer
<1>2. PICK c \in randomStart : cabin = SetMotor(c, MD_Down)
  BY DEF Init
<1>3. /\ c \in CabinState /\ ~ isOutOfBounds(c)
      /\ c.currFloor \in {Between, c.prevFloor}
  BY <1>2 DEF randomStart
<1>4. /\ cabin.currDirn = MD_Down /\ ~ isOutOfBounds(cabin)
      /\ cabin.currFloor \in {Between, cabin.prevFloor}
  BY <1>2, <1>3, SetMotorType DEF MotorDirection
<1>5. MotorInv
  BY <1>4 DEF Init, MotorInv, StateMatchesMotor, StaysInBounds
<1>6. QED
  BY <1>1, <1>5, TypeOKInit DEF DoorMotorInv

\* No timer runs, the door is shut, and the new state is not an open door.
LEMMA DoorStarts ==
    ASSUME TypeOK, NoTimer, ~doorLamp, doorLamp' = doorLamp, booted',
           StartDoorTimer(elev'.State), elev'.State # "ST_DoorOpen"
    PROVE  DoorInv'
<1>1. CASE elev'.State \in Stopping
  <2>1. PICK t \in DoorTimers : timer' = [timer EXCEPT ![t] = "opening"]
    BY <1>1 DEF StartDoorTimer
  <2>2. OneTimer({"opening"})'
    BY <2>1 DEF TypeOK, NoTimer, OneTimer
  <2>3. QED
    BY <1>1, <2>2 DEF DoorInv, Stopping, Moving
<1>2. CASE elev'.State \notin Stopping
  BY <1>2 DEF StartDoorTimer, DoorInv, NoTimer
<1>3. QED
  BY <1>1, <1>2

\* The step of the one door timer that runs.
LEMMA TimerAdvances ==
    ASSUME TypeOK, NEW t \in DoorTimers, NEW p, NEW q, timer[t] # "none",
           OneTimer(p), timer' = [timer EXCEPT ![t] = q]
    PROVE  /\ timer[t] \in p
           /\ q = "none" => NoTimer'
           /\ \A r : q \in r => OneTimer(r)'
<1>1. timer[t] \in p /\ \A u \in DoorTimers \ {t} : timer[u] = "none"
  BY DEF OneTimer
<1>2. timer'[t] = q /\ \A u \in DoorTimers \ {t} : timer'[u] = "none"
  BY <1>1 DEF TypeOK
<1>3. QED
  BY <1>1, <1>2 DEF OneTimer, NoTimer

LEMMA DoorInvNext ==
    ASSUME Undisturbed, DoorMotorInv, [Next]_vars
    PROVE  DoorInv'
<1> USE DEF DoorMotorInv
<1>1. CASE InitializeElevator
  <2>1. NoTimer /\ ~doorLamp /\ doorLamp' = doorLamp /\ booted'
    BY <1>1 DEF InitializeElevator, DoorInv
  <2>2. elev'.State # "ST_DoorOpen"
    BY <1>1, InitializeCases DEF MovesDown, MovesUp, Stopping, ElevatorStatus
  <2>3. QED
    BY <1>1, <2>1, <2>2, DoorStarts DEF InitializeElevator
<1>2. ASSUME NEW o \in Requests, NewOrder(o) PROVE DoorInv'
  <2>1. booted /\ booted' /\ doorLamp' = doorLamp /\ StartDoorTimer(elev'.State)
    BY <1>2 DEF NewOrder, TypeOK
  <2>2. elev.State \notin Stopping
    BY <1>2 DEF NewOrder, Undisturbed, DoorInv, OneTimer
  <2>3. elev'.State = "ST_DoorOpen" <=> elev.State = "ST_DoorOpen"
    BY <1>2, NewOrderCases, StopsHereStops
    DEF MovesDown, MovesUp, Stopping, ElevatorStatus, SameTravel
  <2>4. CASE elev.State = "ST_DoorOpen"
    <3>1. timer' = timer
      BY <2>1, <2>3, <2>4 DEF StartDoorTimer, Stopping
    <3>2. QED
      BY <2>1, <2>3, <2>4, <3>1 DEF DoorInv, OneTimer, Stopping, Moving
  <2>5. CASE elev.State # "ST_DoorOpen"
    <3>1. elev.State \in Moving \union {"ST_Idle"}
      BY <2>2, <2>5 DEF TypeOK, ElevatorStatus, ElevatorState, Moving, Stopping
    <3>2. NoTimer /\ ~doorLamp
      BY <2>1, <3>1 DEF DoorInv
    <3>3. QED
      BY <2>1, <2>3, <2>5, <3>2, DoorStarts
  <2>6. QED
    BY <2>4, <2>5
<1>3. ASSUME NEW o \in HallRequests, OnRemoveOrder(o) PROVE DoorInv'
  <2>1. elev'.State = elev.State
    BY <1>3, RemoveOrderType DEF OnRemoveOrder, TypeOK, SameTravel
  <2>2. QED
    BY <1>3, <2>1 DEF OnRemoveOrder, goroutines, DoorInv, NoTimer, OneTimer
<1>4. CASE OnFloorSensor
  <2>1. elev.State \in Moving
    BY <1>4 DEF OnFloorSensor, MotorInv
  <2>2. NoTimer /\ ~doorLamp /\ doorLamp' = doorLamp /\ booted'
    BY <1>4, <2>1 DEF OnFloorSensor, DoorInv
  <2>3. elev'.State # "ST_DoorOpen"
    BY <1>4, <2>1, FloorSensorCases DEF Moving
  <2>4. QED
    BY <1>4, <2>2, <2>3, DoorStarts DEF OnFloorSensor
<1>5. ASSUME NEW t \in DoorTimers, DoorTimer(t) PROVE DoorInv'
  <2>1. CASE DoorOpened(t)
    <3>1. booted /\ elev.State \in Stopping
      BY <2>1 DEF DoorOpened, DoorInv, NoTimer, OneTimer, InSelect, Moving,
                  TypeOK, ElevatorStatus, ElevatorState, Stopping
    <3>2. OneTimer({"lamp"})'
      BY <2>1, <3>1, TimerAdvances DEF DoorOpened, DoorInv
    <3>3. booted' /\ elev'.State = "ST_DoorOpen" /\ ~doorLamp'
      BY <2>1, <3>1 DEF DoorOpened, DoorInv, TypeOK, ElevatorStatus
    <3>4. QED
      BY <3>2, <3>3 DEF DoorInv, Stopping, Moving
  <2>2. CASE ~ DoorOpened(t)
    <3>1. timer[t] \in InSelect \union {"lamp", "finishing"}
      BY <1>5, <2>2 DEF DoorTimer, LampOn, TimerFires, TimerRead,
                        ObstructionReceived, OnDoorTimeout, InSelect
    <3>2. booted /\ elev.State = "ST_DoorOpen"
      BY <3>1 DEF DoorInv, NoTimer, OneTimer, InSelect, Moving,
                  TypeOK, ElevatorStatus, ElevatorState, Stopping
    <3>3. \/ OneTimer({"lamp"}) /\ ~doorLamp
          \/ OneTimer(InSelect \union {"finishing"}) /\ doorLamp
      BY <3>2 DEF DoorInv
    <3>4. timer[t] # "lamp" => OneTimer(InSelect \union {"finishing"}) /\ doorLamp
      BY <3>1, <3>3 DEF OneTimer, InSelect
    <3>5. CASE LampOn(t)
      <4>1. OneTimer(InSelect \union {"finishing"})'
        BY <3>3, <3>5, TimerAdvances DEF LampOn, InSelect
      <4>2. QED
        BY <3>2, <3>5, <4>1 DEF LampOn, DoorInv, Stopping, Moving
    <3>6. CASE TimerFires(t) \/ TimerRead(t) \/ ObstructionReceived(t)
      <4>1. PICK q \in InSelect \union {"finishing"} : timer' = [timer EXCEPT ![t] = q]
        BY <3>6 DEF TimerFires, TimerRead, ObstructionReceived, InSelect
      <4>2. /\ timer[t] \in InSelect
            /\ booted' = booted /\ elev' = elev /\ doorLamp' = doorLamp
        BY <3>6 DEF TimerFires, TimerRead, ObstructionReceived, InSelect
      <4>3. timer[t] # "lamp"
        BY <4>2 DEF InSelect
      <4>4. OneTimer(InSelect \union {"finishing"})'
        BY <3>1, <3>4, <4>1, <4>3, TimerAdvances DEF InSelect
      <4>5. QED
        BY <3>2, <3>4, <4>2, <4>3, <4>4 DEF DoorInv, Stopping, Moving
    <3>7. CASE OnDoorTimeout(t)
      <4>1. NoTimer'
        BY <3>4, <3>7, TimerAdvances DEF OnDoorTimeout
      <4>2. Cleared(elev) \in ElevatorStatus
        BY ClearedType DEF TypeOK
      <4>3. elev'.State \in Moving \union {"ST_Idle"}
        BY <3>7, <4>2, DoorTimeoutCases
        DEF Rests, MovesUp, MovesDown, ElevatorStatus, Moving
      <4>4. QED
        BY <3>7, <4>1, <4>3 DEF OnDoorTimeout, DoorInv, Moving, Stopping
    <3>8. QED
      BY <1>5, <2>2, <3>5, <3>6, <3>7 DEF DoorTimer
  <2>3. QED
    BY <2>1, <2>2
<1>6. CASE \/ SensorLeft \/ PollObstructionSwitch \/ FloorArrival \/ FloorDeparture
           \/ ManualMoveWithinBounds \/ ObstructionSwitch \/ UNCHANGED vars
  BY <1>6 DEF SensorLeft, PollObstructionSwitch, FloorArrival, FloorDeparture,
              ManualMoveWithinBounds, ObstructionSwitch, vars, goroutines,
              DoorInv, NoTimer, OneTimer
<1>7. TimeoutTasks = {}
  BY DEF Undisturbed
<1>8. QED
  BY <1>1, <1>2, <1>3, <1>4, <1>5, <1>6, <1>7 DEF Next, Panel, System
\* A motor command of an elevator at its floor keeps MotorInv, if it goes with
\* the new state and there is a floor that way.
LEMMA MotorCommanded ==
    ASSUME MotorInv, TypeOK, TypeOK', booted', cabin.currFloor = elev'.Floor,
           cabin.currFloor \in Floors, polled' = elev'.Floor,
           NEW md \in MotorDirection, cabin' = SetMotor(cabin, md),
           \/ md = MD_Stop /\ elev'.State \notin Moving
           \/ md = MD_Up /\ elev'.State = "ST_MovingUp" /\ elev'.Floor < NumFloors - 1
           \/ md = MD_Down /\ elev'.State = "ST_MovingDown" /\ elev'.Floor > 0
    PROVE  MotorInv'
<1>1. cabin.currFloor # Between
  BY NumFloorsAssumption DEF Floors, Between
<1>2. /\ cabin'.currFloor = cabin.currFloor
      /\ cabin'.prevFloor = cabin.prevFloor
      /\ cabin'.currDirn = md
      /\ ~ isOutOfBounds(cabin')
  BY SetMotorType DEF TypeOK, MotorInv, StaysInBounds
<1>3. StateMatchesMotor'
  BY <1>2 DEF StateMatchesMotor, Moving
<1>4. QED
  BY <1>1, <1>2, <1>3
  DEF MotorInv, StaysInBounds, Moving, MD_Up, MD_Down, MD_Stop

\* Nothing that concerns the motor changes, but the floor's orders.
LEMMA MotorUntouched ==
    ASSUME MotorInv, UNCHANGED <<booted, polled, cabin>>,
           elev'.Floor = elev.Floor,
           \/ elev'.State = elev.State
           \/ elev.State \notin Moving /\ elev'.State \notin Moving
    PROVE  MotorInv'
<1>1. QED
  BY DEF MotorInv, StaysInBounds, StateMatchesMotor, Moving

LEMMA MotorInvNext ==
    ASSUME Undisturbed, DoorMotorInv, [Next]_vars
    PROVE  MotorInv'
<1> USE DEF DoorMotorInv
<1>0. TypeOK'
  BY TypeOKNext
<1>1. CASE InitializeElevator
  <2> DEFINE e == Located(elev, cabin.currFloor)
  <2>1. cabin.currFloor \in Floors /\ e \in ElevatorStatus /\ e.Floor = cabin.currFloor
    BY <1>1, InitializeCases
  <2>2. e.Floor \in Floors /\ e.Endstation \in Floors
    BY <2>1 DEF ElevatorStatus
  <2>3. elev'.Floor = cabin.currFloor
    BY <1>1, <2>1, InitializeCases, StopsHereStops
    DEF MovesDown, MovesUp, Rests, ElevatorStatus
  <2>4. booted' /\ polled' = elev'.Floor
    BY <1>1, <2>3 DEF InitializeElevator
  <2>5. CASE e.Endstation < e.Floor /\ elev' = MovesDown(e) /\ cabin' = SetMotor(cabin, MD_Down)
    <3>1. elev'.State = "ST_MovingDown" /\ elev'.Floor > 0
      BY <2>1, <2>2, <2>3, <2>5 DEF MovesDown, ElevatorStatus, Floors
    <3>2. QED
      BY <1>0, <2>1, <2>3, <2>4, <2>5, <3>1, MotorCommanded DEF MotorDirection
  <2>6. CASE e.Endstation > e.Floor /\ elev' = MovesUp(e) /\ cabin' = SetMotor(cabin, MD_Up)
    <3>1. elev'.State = "ST_MovingUp" /\ elev'.Floor < NumFloors - 1
      BY <2>1, <2>2, <2>3, <2>6, NumFloorsAssumption DEF MovesUp, ElevatorStatus, Floors
    <3>2. QED
      BY <1>0, <2>1, <2>3, <2>4, <2>6, <3>1, MotorCommanded DEF MotorDirection
  <2>7. CASE elev'.State \in Stopping \union {"ST_Idle"} /\ cabin' = SetMotor(cabin, MD_Stop)
    <3>1. elev'.State \notin Moving
      BY <2>7 DEF Stopping, Moving
    <3>2. QED
      BY <1>0, <2>1, <2>3, <2>4, <2>7, <3>1, MotorCommanded DEF MotorDirection
  <2>8. QED
    BY <1>1, <2>5, <2>6, <2>7, InitializeCases
<1>2. ASSUME NEW o \in Requests, NewOrder(o) PROVE MotorInv'
  <2> DEFINE e == AddOrder(elev, o)
  <2>1. booted /\ booted' /\ polled' = polled
    BY <1>2 DEF NewOrder, pollers, TypeOK
  <2>2. e \in ElevatorStatus /\ e.Floor = elev.Floor /\ e.State = elev.State
    BY <1>2, NewOrderCases DEF SameTravel
  <2>3. e.Floor \in Floors /\ e.Endstation \in Floors
    BY <2>2 DEF ElevatorStatus
  <2>4. elev.State = "ST_Idle" => cabin.currFloor = elev.Floor /\ polled = elev.Floor
    BY <2>1 DEF MotorInv, Moving
  <2>5. CASE elev.State # "ST_Idle" /\ elev' = e /\ cabin' = cabin
    BY <1>2, <2>1, <2>2, <2>5, MotorUntouched DEF NewOrder
  <2>6. CASE /\ elev.State = "ST_Idle" /\ e.Endstation < e.Floor
             /\ elev' = MovesDown(e) /\ cabin' = SetMotor(cabin, MD_Down)
    <3>1. elev'.State = "ST_MovingDown" /\ elev'.Floor = elev.Floor /\ elev'.Floor > 0
      BY <2>2, <2>3, <2>6 DEF MovesDown, ElevatorStatus, Floors
    <3>2. QED
      BY <1>0, <2>1, <2>2, <2>3, <2>4, <2>6, <3>1, MotorCommanded DEF MotorDirection
  <2>7. CASE /\ elev.State = "ST_Idle" /\ e.Endstation > e.Floor
             /\ elev' = MovesUp(e) /\ cabin' = SetMotor(cabin, MD_Up)
    <3>1. /\ elev'.State = "ST_MovingUp" /\ elev'.Floor = elev.Floor
          /\ elev'.Floor < NumFloors - 1
      BY <2>2, <2>3, <2>7, NumFloorsAssumption DEF MovesUp, ElevatorStatus, Floors
    <3>2. QED
      BY <1>0, <2>1, <2>2, <2>3, <2>4, <2>7, <3>1, MotorCommanded DEF MotorDirection
  <2>8. CASE elev.State = "ST_Idle" /\ elev' = StopsHere(e) /\ cabin' = cabin
    <3>1. elev'.Floor = elev.Floor /\ elev'.State \notin Moving
      BY <2>2, <2>8, StopsHereStops DEF Stopping, Moving
    <3>2. QED
      BY <2>1, <2>8, <3>1, MotorUntouched DEF Moving
  <2>9. QED
    BY <1>2, <2>5, <2>6, <2>7, <2>8, NewOrderCases
<1>3. ASSUME NEW o \in HallRequests, OnRemoveOrder(o) PROVE MotorInv'
  BY <1>3, RemoveOrderType, MotorUntouched DEF OnRemoveOrder, pollers, TypeOK, SameTravel
<1>4. CASE OnFloorSensor
  <2>1. booted /\ booted' /\ elev.State \in Moving
    BY <1>4 DEF OnFloorSensor, MotorInv, TypeOK
  <2>2. /\ cabin.currFloor \in Floors /\ elev'.Floor = cabin.currFloor
        /\ polled' = elev'.Floor /\ elev'.Endstation = elev.Endstation
    BY <1>4, FloorSensorCases DEF OnFloorSensor
  <2>3. elev.Endstation \in 0 .. (NumFloors - 1) /\ elev'.Floor \in 0 .. (NumFloors - 1)
    BY <2>2 DEF TypeOK, ElevatorStatus, Floors
  <2>4. CASE elev'.State \in Stopping /\ cabin' = SetMotor(cabin, MD_Stop)
    <3>1. elev'.State \notin Moving
      BY <2>4 DEF Stopping, Moving
    <3>2. QED
      BY <1>0, <2>1, <2>2, <2>4, <3>1, MotorCommanded DEF MotorDirection
  <2>5. CASE /\ elev'.State = elev.State /\ cabin' = cabin
             /\ \/ elev.State = "ST_MovingUp" /\ elev.Endstation > elev'.Floor
                \/ elev.State = "ST_MovingDown" /\ elev.Endstation < elev'.Floor
    <3>1. \/ elev.State = "ST_MovingUp" /\ elev'.Floor < NumFloors - 1
          \/ elev.State = "ST_MovingDown" /\ elev'.Floor > 0
      BY <2>3, <2>5, NumFloorsAssumption
    <3>2. /\ elev.State = "ST_MovingUp" => cabin.currDirn = MD_Up
          /\ elev.State = "ST_MovingDown" => cabin.currDirn = MD_Down
      BY <2>1 DEF MotorInv, StateMatchesMotor
    <3>3. cabin.currFloor # Between
      BY <2>2, NumFloorsAssumption DEF Floors, Between
    <3>4. StateMatchesMotor'
      BY <2>1, <2>5, <3>2 DEF StateMatchesMotor
    <3>5. QED
      BY <2>1, <2>2, <2>5, <3>1, <3>2, <3>3, <3>4
      DEF MotorInv, StaysInBounds, Moving, MD_Up, MD_Down
  <2>6. QED
    BY <1>4, <2>1, <2>4, <2>5, FloorSensorCases DEF Moving, Stopping
<1>5. ASSUME NEW t \in DoorTimers, DoorTimer(t) PROVE MotorInv'
  <2>1. CASE DoorOpened(t)
    <3>1. booted /\ elev.State \in Stopping
      BY <2>1 DEF DoorOpened, DoorInv, NoTimer, OneTimer, InSelect, Moving,
                  TypeOK, ElevatorStatus, ElevatorState, Stopping
    <3>2. elev'.State = "ST_DoorOpen" /\ elev'.Floor = elev.Floor
      BY <2>1 DEF DoorOpened, TypeOK, ElevatorStatus
    <3>3. QED
      BY <2>1, <3>1, <3>2, MotorUntouched DEF DoorOpened, pollers, Stopping, Moving
  <2>2. CASE \/ LampOn(t) \/ TimerFires(t) \/ TimerRead(t) \/ ObstructionReceived(t)
    BY <2>2, MotorUntouched
    DEF LampOn, TimerFires, TimerRead, ObstructionReceived, pollers
  <2>3. CASE OnDoorTimeout(t)
    <3>1. booted /\ elev.State = "ST_DoorOpen"
      BY <2>3 DEF OnDoorTimeout, DoorInv, NoTimer, OneTimer, InSelect, Moving,
                  TypeOK, ElevatorStatus, ElevatorState, Stopping
    <3>2. cabin.currFloor = elev.Floor /\ polled = elev.Floor /\ elev.Floor \in Floors
      BY <3>1 DEF MotorInv, Moving, TypeOK, ElevatorStatus
    <3>3. booted' /\ polled' = polled
      BY <2>3, <3>1 DEF OnDoorTimeout, pollers
    <3>4. /\ Cleared(elev) \in ElevatorStatus /\ Cleared(elev).Floor = elev.Floor
          /\ Cleared(elev).Endstation \in Floors
      BY ClearedType DEF TypeOK, ElevatorStatus
    <3>5. elev'.Floor = elev.Floor
      BY <2>3, <3>4, DoorTimeoutCases DEF Rests, MovesUp, MovesDown, ElevatorStatus
    <3>6. CASE elev' = Rests(Cleared(elev)) /\ cabin' = SetMotor(cabin, MD_Stop)
      <4>1. elev'.State \notin Moving
        BY <3>4, <3>6 DEF Rests, ElevatorStatus, Moving
      <4>2. QED
        BY <1>0, <3>2, <3>3, <3>5, <3>6, <4>1, MotorCommanded DEF MotorDirection
    <3>7. CASE /\ Cleared(elev).Endstation > elev.Floor
               /\ elev' = MovesUp(Cleared(elev)) /\ cabin' = SetMotor(cabin, MD_Up)
      <4>1. elev'.State = "ST_MovingUp" /\ elev'.Floor < NumFloors - 1
        BY <3>2, <3>4, <3>5, <3>7, NumFloorsAssumption DEF MovesUp, ElevatorStatus, Floors
      <4>2. QED
        BY <1>0, <3>2, <3>3, <3>5, <3>7, <4>1, MotorCommanded DEF MotorDirection
    <3>8. CASE /\ Cleared(elev).Endstation < elev.Floor
               /\ elev' = MovesDown(Cleared(elev)) /\ cabin' = SetMotor(cabin, MD_Down)
      <4>1. elev'.State = "ST_MovingDown" /\ elev'.Floor > 0
        BY <3>2, <3>4, <3>5, <3>8 DEF MovesDown, ElevatorStatus, Floors
      <4>2. QED
        BY <1>0, <3>2, <3>3, <3>5, <3>8, <4>1, MotorCommanded DEF MotorDirection
    <3>9. QED
      BY <2>3, <3>6, <3>7, <3>8, DoorTimeoutCases
  <2>4. QED
    BY <1>5, <2>1, <2>2, <2>3 DEF DoorTimer
<1>6. CASE SensorLeft
  <2>1. booted /\ elev.State \in Moving
    BY <1>6, NumFloorsAssumption
    DEF SensorLeft, MotorInv, TypeOK, ElevatorStatus, Floors, Between
  <2>2. QED
    BY <1>6, <2>1 DEF SensorLeft, MotorInv, StaysInBounds, StateMatchesMotor
<1>7. CASE FloorArrival
  <2>1. /\ Arrive(cabin).currFloor \in Floors
        /\ Arrive(cabin).prevFloor = Arrive(cabin).currFloor
        /\ Arrive(cabin).currDirn = cabin.currDirn
    BY <1>7, ArriveType DEF FloorArrival, TypeOK
  <2>2. Arrive(cabin).currFloor # Between
    BY <2>1, NumFloorsAssumption DEF Floors, Between
  <2>3. booted => elev.State \in Moving
    BY <1>7, NumFloorsAssumption
    DEF FloorArrival, MotorInv, TypeOK, ElevatorStatus, Floors, Between
  <2>4. QED
    BY <1>7, <2>1, <2>2, <2>3
    DEF FloorArrival, pollers, MotorInv, StaysInBounds, StateMatchesMotor, isOutOfBounds
<1>8. CASE FloorDeparture
  <2>1. /\ cabin'.currFloor = Between /\ cabin'.departDirn = cabin.currDirn
        /\ cabin'.prevFloor = cabin.currFloor /\ cabin'.currDirn = cabin.currDirn
    BY <1>8 DEF FloorDeparture, CanDepart, Depart, MotorInv, TypeOK, CabinState
  <2>2. /\ polled = cabin.currFloor /\ polled # Between /\ polled' = polled
        /\ booted' = booted /\ elev' = elev
        /\ cabin.currDirn # MD_Stop /\ cabin.currFloor \in Floors
    BY <1>8 DEF FloorDeparture, CanDepart, pollers, TypeOK, CabinState
  <2>3. /\ cabin.currDirn = MD_Down => cabin.currFloor > 0
        /\ cabin.currDirn = MD_Up => cabin.currFloor < NumFloors - 1
    BY <2>2 DEF MotorInv
  <2>4. ~ isOutOfBounds(cabin')
    BY <2>1, <2>2, <2>3, NumFloorsAssumption DEF isOutOfBounds, Floors, MD_Up, MD_Down
  <2>5. booted => elev.State \in Moving
    BY <2>2 DEF MotorInv, StateMatchesMotor, Moving
  <2>6. QED
    BY <2>1, <2>2, <2>4, <2>5 DEF MotorInv, StaysInBounds, StateMatchesMotor
<1>9. CASE ManualMoveWithinBounds
  BY <1>9 DEF ManualMoveWithinBounds, MotorInv, StaysInBounds
<1>10. CASE PollObstructionSwitch \/ ObstructionSwitch \/ UNCHANGED vars
  BY <1>10, MotorUntouched DEF PollObstructionSwitch, ObstructionSwitch, vars, pollers
<1>11. TimeoutTasks = {}
  BY DEF Undisturbed
<1>12. QED
  BY <1>1, <1>2, <1>3, <1>4, <1>5, <1>6, <1>7, <1>8, <1>9, <1>10, <1>11
  DEF Next, Panel, System
LEMMA DoorMotorHolds ==
    ASSUME Undisturbed
    PROVE  Spec => []DoorMotorInv
<1>1. Init => DoorMotorInv
  BY DoorMotorInit
<1>2. DoorMotorInv /\ [Next]_vars => DoorMotorInv'
  BY TypeOKNext, DoorInvNext, MotorInvNext DEF DoorMotorInv
<1>3. QED
  BY <1>1, <1>2, PTL DEF Spec

\* The door is open only while the cabin stands at the elevator's floor (doorTimer
\* lights the lamp, onDoorTimeout puts it out before the motor command is the
\* next the panel server gets).
THEOREM DoorOpensAtRest ==
    ASSUME Undisturbed
    PROVE  Spec => []DoorOpenOnlyAtRest
<1>1. DoorMotorInv => DoorOpenOnlyAtRest
  <2> SUFFICES ASSUME DoorMotorInv, doorLamp
               PROVE  cabin.currDirn = MD_Stop /\ cabin.currFloor = elev.Floor
    BY DEF DoorOpenOnlyAtRest
  <2>1. booted /\ elev.State = "ST_DoorOpen"
    BY DEF DoorMotorInv, DoorInv, TypeOK, ElevatorStatus, ElevatorState,
           Stopping, Moving
  <2>2. QED
    BY <2>1 DEF DoorMotorInv, MotorInv, StateMatchesMotor, Moving
<1>2. QED
  BY <1>1, DoorMotorHolds, PTL

\* The cabin never leaves the shaft (SetEndstation decides at every floor whether
\* onFloorSensor stops the motor).
THEOREM CabinStaysInShaft ==
    ASSUME Undisturbed
    PROVE  Spec => []StaysInBounds
<1>1. DoorMotorInv => StaysInBounds
  BY DEF DoorMotorInv, MotorInv
<1>2. QED
  BY <1>1, DoorMotorHolds, PTL

\* The motor runs as the state says: the switch statements of the handlers set
\* both, each on its own line.
THEOREM MotorFollowsState ==
    ASSUME Undisturbed
    PROVE  Spec => []StateMatchesMotor
<1>1. DoorMotorInv => StateMatchesMotor
  BY DEF DoorMotorInv, MotorInv
<1>2. QED
  BY <1>1, DoorMotorHolds, PTL

\* A door timer stopped by an obstruction has the door open and the cabin at rest.
THEOREM ObstructedCabinRests ==
    ASSUME Undisturbed
    PROVE  Spec => []ObstructionHoldsCabin
<1>1. DoorMotorInv => ObstructionHoldsCabin
  <2> SUFFICES ASSUME DoorMotorInv, NEW t \in DoorTimers, timer[t] = "stopped"
               PROVE  doorLamp /\ cabin.currDirn = MD_Stop
    BY DEF ObstructionHoldsCabin
  <2>1. booted /\ elev.State = "ST_DoorOpen"
    BY DEF DoorMotorInv, DoorInv, NoTimer, OneTimer, TypeOK, ElevatorStatus,
           ElevatorState, Stopping, Moving
  <2>2. doorLamp
    BY <2>1 DEF DoorMotorInv, DoorInv, OneTimer, InSelect
  <2>3. QED
    BY <2>1, <2>2 DEF DoorMotorInv, MotorInv, StateMatchesMotor
<1>2. QED
  BY <1>1, DoorMotorHolds, PTL
=============================================================================
