---- MODULE ElevatorServiceProofs ----
(***************************************************************************)
(* What one elevator does for its orders, for any number of floors and     *)
(* requests: it rests only when it has none left, and it implements the    *)
(* abstract lift service.  Both where the event loop keeps up with the     *)
(* door timer (Undisturbed): a drive by onTimeout, or a second door timer, *)
(* can move the cabin between a stop and the closing of the door, and then *)
(* the orders settled are not those of the floor it stopped for.           *)
(***************************************************************************)
EXTENDS ElevatorFSMProofs

\* Where the cabin is, given where the program thinks it is: at most one floor
\* further on in the direction of travel, and only until the poller tells.
PositionInv ==
    booted =>
      /\ polled \in {Between, elev.Floor}
      /\ polled # Between \/ cabin.currFloor = Between => cabin.prevFloor = elev.Floor
      /\ elev.State \in Moving =>
            /\ cabin.currFloor = Between => cabin.departDirn = cabin.currDirn
            /\ cabin.prevFloor \in {elev.Floor, elev.Floor + cabin.currDirn}

\* What the end station has to do with the orders, state by state.  It is the one
\* SetEndstation would compute, except after a change of direction: then it is
\* ahead of a moving elevator, and an elevator that stops at it settles all orders
\* of its floor.
WellHeaded(e) ==
    /\ e.State = "ST_Idle" => e.Orders = {}
    /\ e.State = "ST_MovingUp" =>
          e.Direction = MD_Up /\ (Heads(e) \/ e.Endstation > e.Floor)
    /\ e.State = "ST_MovingDown" =>
          e.Direction = MD_Down /\ (Heads(e) \/ e.Endstation < e.Floor)
    /\ e.State \notin Moving \union {"ST_Idle"} => SettlesFloor(e)
    /\ e.State # "ST_Idle" /\ Requested(e) # {} => e.Endstation \in Requested(e)

ServiceInv ==
    /\ DoorMotorInv
    /\ PositionInv
    /\ booted => WellHeaded(elev)

-----------------------------------------------------------------------------
(* The position of the cabin.                                               *)

\* At its floor, the poller knowing, the cabin is where the program thinks.
LEMMA PositionAtFloor ==
    ASSUME TypeOK', MotorInv', cabin'.currFloor = elev'.Floor, polled' = elev'.Floor
    PROVE  PositionInv'
<1>1. elev'.Floor \in Floors /\ cabin'.currFloor # Between
  BY NumFloorsAssumption DEF TypeOK, ElevatorStatus, Floors, Between
<1>2. cabin'.prevFloor = elev'.Floor
  BY <1>1 DEF MotorInv
<1>3. QED
  BY <1>1, <1>2 DEF PositionInv

LEMMA PositionUntouched ==
    ASSUME PositionInv, UNCHANGED <<booted, polled, cabin>>, elev'.Floor = elev.Floor,
           elev'.State \in Moving => elev'.State = elev.State
    PROVE  PositionInv'
<1>1. QED
  BY DEF PositionInv

LEMMA PositionInvNext ==
    ASSUME Undisturbed, ServiceInv, [Next]_vars
    PROVE  PositionInv'
<1> USE DEF ServiceInv, DoorMotorInv
<1>0. TypeOK' /\ MotorInv'
  BY TypeOKNext, MotorInvNext
<1>1. CASE InitializeElevator
  <2> DEFINE e == Located(elev, cabin.currFloor)
  <2>1. e \in ElevatorStatus /\ e.Floor = cabin.currFloor
    BY <1>1, InitializeCases
  <2>2. elev'.Floor = cabin.currFloor /\ polled' = cabin.currFloor
    BY <1>1, <2>1, InitializeCases, StopsHereStops
    DEF InitializeElevator, MovesDown, MovesUp, Rests, ElevatorStatus
  <2>3. cabin'.currFloor = cabin.currFloor
    BY <1>1, InitializeCases, SetMotorType DEF TypeOK, MotorDirection
  <2>4. QED
    BY <1>0, <2>2, <2>3, PositionAtFloor
<1>2. ASSUME NEW o \in Requests, NewOrder(o) PROVE PositionInv'
  <2> DEFINE e == AddOrder(elev, o)
  <2>1. /\ e \in ElevatorStatus /\ e.Floor = elev.Floor /\ e.State = elev.State
        /\ booted /\ booted' = booted /\ polled' = polled
    BY <1>2, NewOrderCases DEF NewOrder, pollers, SameTravel
  <2>2. CASE elev.State # "ST_Idle"
    BY <1>2, <2>1, <2>2, NewOrderCases, PositionUntouched
  <2>3. CASE elev.State = "ST_Idle"
    <3>1. cabin.currFloor = elev.Floor /\ polled = elev.Floor
      BY <2>1, <2>3 DEF MotorInv, Moving
    <3>2. elev'.Floor = elev.Floor
      BY <1>2, <2>1, <2>3, NewOrderCases, StopsHereStops
      DEF MovesDown, MovesUp, ElevatorStatus
    <3>3. cabin'.currFloor = cabin.currFloor
      BY <1>2, <2>3, NewOrderCases, SetMotorType DEF TypeOK, MotorDirection
    <3>4. QED
      BY <1>0, <2>1, <3>1, <3>2, <3>3, PositionAtFloor
  <2>4. QED
    BY <2>2, <2>3
<1>3. ASSUME NEW o \in HallRequests, OnRemoveOrder(o) PROVE PositionInv'
  BY <1>3, RemoveOrderType, PositionUntouched DEF OnRemoveOrder, pollers, TypeOK, SameTravel
<1>4. CASE OnFloorSensor
  <2>1. elev'.Floor = cabin.currFloor /\ polled' = cabin.currFloor
    BY <1>4, FloorSensorCases DEF OnFloorSensor
  <2>2. cabin'.currFloor = cabin.currFloor
    BY <1>4, SetMotorType DEF OnFloorSensor, TypeOK, MotorDirection
  <2>3. QED
    BY <1>0, <2>1, <2>2, PositionAtFloor
<1>5. ASSUME NEW t \in DoorTimers, DoorTimer(t) PROVE PositionInv'
  <2>1. CASE DoorOpened(t)
    <3>1. elev'.State = "ST_DoorOpen" /\ elev'.Floor = elev.Floor
      BY <2>1 DEF DoorOpened, TypeOK, ElevatorStatus
    <3>2. QED
      BY <2>1, <3>1, PositionUntouched DEF DoorOpened, pollers, Moving
  <2>2. CASE \/ LampOn(t) \/ TimerFires(t) \/ TimerRead(t) \/ ObstructionReceived(t)
    BY <2>2, PositionUntouched
    DEF LampOn, TimerFires, TimerRead, ObstructionReceived, pollers
  <2>3. CASE OnDoorTimeout(t)
    <3>1. booted /\ elev.State = "ST_DoorOpen"
      BY <2>3 DEF OnDoorTimeout, DoorInv, NoTimer, OneTimer, InSelect, Moving,
                  TypeOK, ElevatorStatus, ElevatorState, Stopping
    <3>2. cabin.currFloor = elev.Floor /\ polled = elev.Floor /\ polled' = polled
      BY <2>3, <3>1 DEF MotorInv, Moving, OnDoorTimeout, pollers
    <3>3. Cleared(elev) \in ElevatorStatus /\ Cleared(elev).Floor = elev.Floor
      BY ClearedType DEF TypeOK
    <3>4. elev'.Floor = elev.Floor
      BY <2>3, <3>3, DoorTimeoutCases DEF Rests, MovesUp, MovesDown, ElevatorStatus
    <3>5. cabin'.currFloor = cabin.currFloor
      BY <2>3, DoorTimeoutCases, SetMotorType DEF TypeOK, MotorDirection
    <3>6. QED
      BY <1>0, <3>2, <3>4, <3>5, PositionAtFloor
  <2>4. QED
    BY <1>5, <2>1, <2>2, <2>3 DEF DoorTimer
<1>6. CASE SensorLeft
  BY <1>6 DEF SensorLeft, PositionInv
<1>7. CASE FloorArrival
  <2>1. /\ cabin.currFloor = Between /\ cabin.currDirn # MD_Stop
        /\ polled = Between /\ UNCHANGED <<booted, elev, polled>>
        /\ cabin' = Arrive(cabin)
    BY <1>7 DEF FloorArrival, CanArrive, pollers
  <2>2. cabin'.prevFloor = NextFloor(cabin)
    BY <2>1 DEF TypeOK, Arrive, CabinState
  <2>3. cabin'.currDirn = cabin.currDirn /\ cabin'.currFloor # Between
    BY <1>7, <2>1, ArriveType, NumFloorsAssumption
    DEF FloorArrival, TypeOK, Floors, Between
  <2>4. booted => elev.State \in Moving
    BY <2>1, NumFloorsAssumption DEF MotorInv, TypeOK, ElevatorStatus, Floors, Between
  <2>5. booted => cabin'.prevFloor = elev.Floor + cabin.currDirn
    BY <2>1, <2>2, <2>4 DEF PositionInv, NextFloor
  <2>6. QED
    BY <2>1, <2>3, <2>5 DEF PositionInv
<1>8. CASE FloorDeparture
  <2>1. /\ polled = cabin.currFloor /\ polled # Between
        /\ UNCHANGED <<booted, elev, polled>>
        /\ cabin'.departDirn = cabin'.currDirn /\ cabin'.prevFloor = cabin.prevFloor
    BY <1>8 DEF FloorDeparture, CanDepart, Depart, pollers, TypeOK, CabinState
  <2>2. QED
    BY <2>1 DEF PositionInv
<1>9. CASE ManualMoveWithinBounds
  BY <1>9 DEF ManualMoveWithinBounds, MotorInv, StaysInBounds
<1>10. CASE PollObstructionSwitch \/ ObstructionSwitch \/ UNCHANGED vars
  BY <1>10, PositionUntouched DEF PollObstructionSwitch, ObstructionSwitch, vars, pollers
<1>11. TimeoutTasks = {}
  BY DEF Undisturbed
<1>12. QED
  BY <1>1, <1>2, <1>3, <1>4, <1>5, <1>6, <1>7, <1>8, <1>9, <1>10, <1>11
  DEF Next, Panel, System
-----------------------------------------------------------------------------
(* The end station and the orders.                                          *)

\* With the end station just computed, every state an elevator may be in is well
\* headed, an elevator that goes to rest without orders included.
LEMMA HeadsWellHeaded ==
    ASSUME NEW e \in ElevatorStatus, Heads(e), e.State = "ST_Idle" => e.Orders = {},
           e.State = "ST_MovingUp" => e.Direction = MD_Up,
           e.State = "ST_MovingDown" => e.Direction = MD_Down
    PROVE  WellHeaded(e)
<1>1. QED
  BY HeadsSettlesFloor DEF WellHeaded

\* An elevator leaves a floor with its end station ahead.
LEMMA LeavesWellHeaded ==
    ASSUME NEW e \in ElevatorStatus, Heads(e)
    PROVE  /\ e.Endstation < e.Floor => WellHeaded(MovesDown(e))
           /\ e.Endstation > e.Floor => WellHeaded(MovesUp(e))
<1>1. ASSUME NEW d, d = MovesDown(e) \/ d = MovesUp(e)
      PROVE  /\ d.Floor = e.Floor /\ d.Endstation = e.Endstation
             /\ Requested(d) = Requested(e)
             /\ Requested(d) # {} => d.Endstation \in Requested(d)
  BY <1>1, HeadsSettlesFloor DEF MovesDown, MovesUp, Requested, ElevatorStatus
<1>2. /\ MovesDown(e).State = "ST_MovingDown" /\ MovesDown(e).Direction = MD_Down
      /\ MovesUp(e).State = "ST_MovingUp" /\ MovesUp(e).Direction = MD_Up
  BY DEF MovesDown, MovesUp, ElevatorStatus
<1>3. QED
  BY <1>1, <1>2 DEF WellHeaded, Moving

\* It stops at its end station, or rests there if it has no order.
LEMMA StopsHereWellHeaded ==
    ASSUME NEW e \in ElevatorStatus, Heads(e), e.Endstation = e.Floor,
           Requested(e) # {}
    PROVE  WellHeaded(StopsHere(e)) /\ StopsHere(e).State \in Stopping
<1> DEFINE d == StopsHere(e)
<1>1. d.Floor = e.Floor /\ d.Endstation = e.Endstation /\ Requested(d) = Requested(e)
  BY DEF StopsHere, Requested, ElevatorStatus
<1>2. e.Floor \in Requested(e)
  BY HeadsSettlesFloor
<1>3. d.State \in Stopping
  BY <1>2, StopsHereStops
<1>4. QED
  BY <1>1, <1>2, <1>3 DEF WellHeaded, Moving, Stopping, SettlesFloor

LEMMA RestsWellHeaded ==
    ASSUME NEW e \in ElevatorStatus, e.Orders = {}
    PROVE  WellHeaded(Rests(e))
<1>1. Rests(e).State = "ST_Idle" /\ Rests(e).Orders = {}
  BY DEF Rests, ElevatorStatus
<1>2. QED
  BY <1>1 DEF WellHeaded, Moving

\* Requested floors are the orders' floors: none without an order, one with one.
LEMMA RequestedEmpty ==
    ASSUME NEW e
    PROVE  e.Orders = {} <=> Requested(e) = {}
<1>1. QED
  BY DEF Requested

LEMMA LocatedHeads ==
    ASSUME NEW e \in ElevatorStatus, NEW f \in Floors
    PROVE  Heads(Located(e, f))
<1> DEFINE g == [e EXCEPT !.Floor = f]
           s == SetEndstation(g)
<1>1. g \in ElevatorStatus
  BY DEF ElevatorStatus
<1>2. s \in ElevatorStatus /\ Heads(s)
  BY <1>1, SetEndstationType, SetEndstationHeads
<1>3. QED
  BY <1>2 DEF Located, Heads, Furthest, Requested, ElevatorStatus

LEMMA ClearedHeads ==
    ASSUME NEW e \in ElevatorStatus
    PROVE  /\ Heads(Cleared(e))
           /\ Cleared(e).Orders = e.Orders \ Settled(e)
           /\ Cleared(e).Endstation = ClearOrdersAtFloor(e).Endstation
<1> DEFINE c == ClearOrdersAtFloor(e)
<1>1. c \in ElevatorStatus /\ Heads(c) /\ c.Orders = e.Orders \ Settled(e)
  BY ClearOrdersType, ClearOrdersHeads
<1>2. QED
  BY <1>1 DEF Cleared, Heads, Furthest, Requested, ElevatorStatus

\* A moving elevator that reaches a floor has its end station there or ahead, or
\* no order at that floor or beyond it.
LEMMA FloorReached ==
    ASSUME ServiceInv, OnFloorSensor, elev.State \in Moving
    PROVE  WellHeaded(elev')
<1> USE DEF ServiceInv, DoorMotorInv
<1>0. TypeOK' /\ booted /\ WellHeaded(elev)
  BY TypeOKNext DEF OnFloorSensor, Next, System
<1>1. /\ elev' \in ElevatorStatus /\ elev \in ElevatorStatus
      /\ elev'.Orders = elev.Orders /\ elev'.Endstation = elev.Endstation
      /\ Requested(elev') = Requested(elev)
      /\ elev'.Floor = cabin.currFloor
  BY <1>0, FloorSensorCases DEF TypeOK, Requested
<1>2. /\ elev'.Floor \in Int /\ elev.Floor \in Int /\ elev.Endstation \in Int
      /\ \A f \in Requested(elev) : f \in Int
  BY <1>1 DEF ElevatorStatus, Floors, Requested, ButtonEvent
<1>3. cabin.currFloor \in {elev.Floor, elev.Floor + cabin.currDirn}
  BY <1>0 DEF OnFloorSensor, PositionInv, MotorInv
<1>4. Requested(elev) # {} => elev.Endstation \in Requested(elev)
  BY <1>0 DEF WellHeaded, Moving
<1>5. CASE elev.State = "ST_MovingUp"
  <2>1. elev'.Floor <= elev.Floor + 1
    BY <1>0, <1>1, <1>2, <1>3, <1>5 DEF MotorInv, StateMatchesMotor, MD_Up
  <2>2. elev.Direction = MD_Up /\ (Heads(elev) \/ elev.Endstation >= elev'.Floor)
    BY <1>0, <1>2, <1>5, <2>1 DEF WellHeaded
  <2>3. CASE elev'.State = "ST_StopUp" /\ elev'.Direction = MD_Up
    <3>1. SettlesFloor(elev')
      <4>1. MD_Up # MD_Down
        BY DEF MD_Up, MD_Down
      <4>2. CASE elev.Endstation >= elev'.Floor
        BY <1>1, <1>2, <1>4, <2>3, <4>1, <4>2 DEF SettlesFloor
      <4>3. CASE Heads(elev) /\ elev.Endstation < elev'.Floor
        <5>1. Requested(elev) # {} => \A f \in Requested(elev) : f <= elev.Endstation
          BY <1>1, <2>2, <4>1, <4>3, FurthestIsLast DEF Heads
        <5>2. elev'.Floor \notin Requested(elev')
          BY <1>1, <1>2, <4>3, <5>1
        <5>3. QED
          BY <5>2 DEF SettlesFloor
      <4>4. QED
        BY <1>2, <2>2, <4>2, <4>3
    <3>2. QED
      BY <1>1, <1>4, <2>3, <3>1 DEF WellHeaded, Moving
  <2>4. CASE /\ elev'.State = elev.State /\ elev.Endstation > elev'.Floor
             /\ elev'.Direction = elev.Direction
    BY <1>1, <1>4, <1>5, <2>2, <2>4 DEF WellHeaded, Moving
  <2>5. QED
    BY <1>5, <2>3, <2>4, <1>0, FloorSensorCases
<1>6. CASE elev.State = "ST_MovingDown"
  <2>1. elev'.Floor >= elev.Floor - 1
    BY <1>0, <1>1, <1>2, <1>3, <1>6 DEF MotorInv, StateMatchesMotor, MD_Down
  <2>2. elev.Direction = MD_Down /\ (Heads(elev) \/ elev.Endstation <= elev'.Floor)
    BY <1>0, <1>2, <1>6, <2>1 DEF WellHeaded
  <2>3. CASE elev'.State = "ST_StopDown" /\ elev'.Direction = MD_Down
    <3>1. SettlesFloor(elev')
      <4>1. CASE elev.Endstation <= elev'.Floor
        BY <1>1, <1>2, <1>4, <2>3, <4>1 DEF SettlesFloor
      <4>2. CASE Heads(elev) /\ elev.Endstation > elev'.Floor
        <5>1. Requested(elev) # {} => \A f \in Requested(elev) : elev.Endstation <= f
          BY <1>1, <2>2, <4>2, FurthestIsLast DEF Heads
        <5>2. elev'.Floor \notin Requested(elev')
          BY <1>1, <1>2, <4>2, <5>1
        <5>3. QED
          BY <5>2 DEF SettlesFloor
      <4>3. QED
        BY <1>2, <2>2, <4>1, <4>2
    <3>2. QED
      BY <1>1, <1>4, <2>3, <3>1 DEF WellHeaded, Moving
  <2>4. CASE /\ elev'.State = elev.State /\ elev.Endstation < elev'.Floor
             /\ elev'.Direction = elev.Direction
    BY <1>1, <1>4, <1>6, <2>2, <2>4 DEF WellHeaded, Moving
  <2>5. QED
    BY <1>6, <2>3, <2>4, <1>0, FloorSensorCases
<1>7. QED
  BY <1>5, <1>6 DEF Moving

LEMMA WellHeadedNext ==
    ASSUME Undisturbed, ServiceInv, [Next]_vars, booted'
    PROVE  WellHeaded(elev')
<1> USE DEF ServiceInv, DoorMotorInv
<1>0. TypeOK' /\ elev \in ElevatorStatus /\ elev' \in ElevatorStatus
  BY TypeOKNext DEF TypeOK
<1>1. CASE InitializeElevator
  <2> DEFINE e == Located(elev, cabin.currFloor)
  <2>1. /\ e \in ElevatorStatus /\ e.Floor = cabin.currFloor /\ cabin.currFloor \in Floors
        /\ Heads(e)
    BY <1>0, <1>1, InitializeCases, LocatedHeads
  <2>2. e.Endstation = e.Floor /\ e.Floor \notin Requested(e) => e.Orders = {}
    BY <2>1, HeadsSettlesFloor, RequestedEmpty
  <2>3. QED
    BY <1>1, <2>1, <2>2, InitializeCases, LeavesWellHeaded, StopsHereWellHeaded,
       RestsWellHeaded
<1>2. ASSUME NEW o \in Requests, NewOrder(o) PROVE WellHeaded(elev')
  <2> DEFINE e == AddOrder(elev, o)
  <2>1. e \in ElevatorStatus /\ SameTravel(e, elev)
    BY <1>2, NewOrderCases
  <2>2. Heads(e) /\ e.Orders = elev.Orders \union {o} /\ Requested(e) # {}
    BY <1>0, RequestsAssumption, AddOrderHeads DEF Requested
  <2>3. booted /\ WellHeaded(elev)
    BY <1>2 DEF NewOrder
  <2>4. CASE elev.State # "ST_Idle" /\ elev' = e
    BY <2>1, <2>2, <2>3, <2>4, HeadsWellHeaded DEF WellHeaded, SameTravel
  <2>5. CASE elev.State = "ST_Idle"
    BY <1>2, <2>1, <2>2, <2>5, NewOrderCases, LeavesWellHeaded, StopsHereWellHeaded
  <2>6. QED
    BY <1>2, <2>4, <2>5, NewOrderCases
<1>3. ASSUME NEW o \in HallRequests, OnRemoveOrder(o) PROVE WellHeaded(elev')
  <2>1. /\ elev' \in ElevatorStatus /\ SameTravel(elev', elev)
        /\ Heads(elev') /\ elev'.Orders = elev.Orders \ {o}
    BY <1>0, <1>3, RemoveOrderType, RemoveOrderHeads DEF OnRemoveOrder
  <2>2. booted /\ WellHeaded(elev)
    BY <1>3 DEF OnRemoveOrder
  <2>3. QED
    BY <2>1, <2>2, HeadsWellHeaded DEF WellHeaded, SameTravel
<1>4. CASE OnFloorSensor
  <2>1. elev.State \in Moving
    BY <1>4 DEF OnFloorSensor, MotorInv
  <2>2. QED
    BY <1>4, <2>1, FloorReached
<1>5. ASSUME NEW t \in DoorTimers, DoorTimer(t) PROVE WellHeaded(elev')
  <2>1. CASE DoorOpened(t)
    <3>1. booted /\ elev.State \in Stopping
      BY <2>1 DEF DoorOpened, DoorInv, NoTimer, OneTimer, InSelect, Moving,
                  TypeOK, ElevatorStatus, ElevatorState, Stopping
    <3>2. /\ elev'.State = "ST_DoorOpen" /\ elev'.Floor = elev.Floor
          /\ elev'.Endstation = elev.Endstation /\ elev'.Direction = elev.Direction
          /\ Requested(elev') = Requested(elev)
      BY <1>0, <2>1 DEF DoorOpened, ElevatorStatus, Requested
    <3>3. SettlesFloor(elev) /\ (Requested(elev) # {} => elev.Endstation \in Requested(elev))
      BY <3>1 DEF WellHeaded, Stopping, Moving
    <3>4. QED
      BY <3>2, <3>3 DEF WellHeaded, Moving, SettlesFloor
  <2>2. CASE \/ LampOn(t) \/ TimerFires(t) \/ TimerRead(t) \/ ObstructionReceived(t)
    BY <2>2 DEF LampOn, TimerFires, TimerRead, ObstructionReceived
  <2>3. CASE OnDoorTimeout(t)
    <3> DEFINE c == Cleared(elev)
    <3>1. booted /\ elev.State = "ST_DoorOpen"
      BY <2>3 DEF OnDoorTimeout, DoorInv, NoTimer, OneTimer, InSelect, Moving,
                  TypeOK, ElevatorStatus, ElevatorState, Stopping
    <3>2. SettlesFloor(elev)
      BY <3>1 DEF WellHeaded, Moving
    <3>3. c \in ElevatorStatus /\ c.Floor = elev.Floor /\ Heads(c)
      BY <1>0, ClearedType, ClearedHeads
    <3>4. c.Endstation = elev.Floor => c.Orders = {}
      BY <1>0, <3>2, ClearedHeads, ClearedAtEndIsEmpty, ClearOrdersHeads
    <3>5. QED
      BY <2>3, <3>3, <3>4, DoorTimeoutCases, LeavesWellHeaded, RestsWellHeaded
  <2>4. QED
    BY <1>5, <2>1, <2>2, <2>3 DEF DoorTimer
<1>6. CASE \/ SensorLeft \/ PollObstructionSwitch \/ FloorArrival \/ FloorDeparture
           \/ ManualMoveWithinBounds \/ ObstructionSwitch \/ UNCHANGED vars
  BY <1>6 DEF SensorLeft, PollObstructionSwitch, FloorArrival, FloorDeparture,
              ManualMoveWithinBounds, ObstructionSwitch, vars
<1>7. TimeoutTasks = {}
  BY DEF Undisturbed
<1>8. QED
  BY <1>1, <1>2, <1>3, <1>4, <1>5, <1>6, <1>7 DEF Next, Panel, System

LEMMA ServiceHolds ==
    ASSUME Undisturbed
    PROVE  Spec => []ServiceInv
<1>1. Init => ServiceInv
  BY DoorMotorInit DEF Init, ServiceInv, PositionInv
<1>2. ServiceInv /\ [Next]_vars => ServiceInv'
  <2> SUFFICES ASSUME ServiceInv, [Next]_vars PROVE ServiceInv'
    OBVIOUS
  <2>1. DoorMotorInv'
    BY TypeOKNext, DoorInvNext, MotorInvNext DEF ServiceInv, DoorMotorInv
  <2>2. QED
    BY <2>1, PositionInvNext, WellHeadedNext DEF ServiceInv
<1>3. QED
  BY <1>1, <1>2, PTL DEF Spec

\* An elevator rests only when it has no order left (onDoorTimeout compares the
\* end station, which it has just recomputed, with its floor; onNewOrder and
\* InitializeElevator do the same).
THEOREM RestsWithoutOrders ==
    ASSUME Undisturbed
    PROVE  Spec => []IdleMeansNoOrders
<1>1. ServiceInv => IdleMeansNoOrders
  BY DEF ServiceInv, WellHeaded, IdleMeansNoOrders
<1>2. QED
  BY <1>1, ServiceHolds, PTL
-----------------------------------------------------------------------------
(* The elevator implements the lift service.                                *)

\* The orders an elevator has are among the requests.
OrdersInv == elev.Orders \subseteq Requests

\* What the handlers do to the orders.
LEMMA InitializeKeepsOrders ==
    ASSUME TypeOK, InitializeElevator
    PROVE  elev'.Orders = elev.Orders
<1> DEFINE e == Located(elev, cabin.currFloor)
           g == [elev EXCEPT !.Floor = cabin.currFloor]
<1>1. e \in ElevatorStatus /\ cabin.currFloor \in Floors
  BY InitializeCases
<1>2. g \in ElevatorStatus /\ g.Orders = elev.Orders
  BY <1>1 DEF TypeOK, ElevatorStatus
<1>3. SetEndstation(g) \in ElevatorStatus /\ SetEndstation(g).Orders = elev.Orders
  BY <1>2, SetEndstationType
<1>4. e.Orders = elev.Orders
  BY <1>3 DEF Located, ElevatorStatus
<1>5. QED
  BY <1>1, <1>4, InitializeCases
  DEF MovesDown, MovesUp, Rests, StopsHere, ElevatorStatus

LEMMA NewOrderAdds ==
    ASSUME TypeOK, NEW o \in Requests, NewOrder(o)
    PROVE  elev'.Orders = elev.Orders \union {o}
<1> DEFINE e == AddOrder(elev, o)
<1>1. e \in ElevatorStatus /\ e.Orders = elev.Orders \union {o}
  BY NewOrderCases, RequestsAssumption, AddOrderHeads DEF TypeOK
<1>2. QED
  BY <1>1, NewOrderCases DEF MovesDown, MovesUp, StopsHere, ElevatorStatus

LEMMA DoorTimeoutSettles ==
    ASSUME TypeOK, NEW t \in DoorTimers, OnDoorTimeout(t)
    PROVE  elev'.Orders = elev.Orders \ Settled(elev)
<1>1. Cleared(elev) \in ElevatorStatus /\ Cleared(elev).Orders = elev.Orders \ Settled(elev)
  BY ClearedType, ClearedHeads DEF TypeOK
<1>2. QED
  BY <1>1, DoorTimeoutCases DEF Rests, MovesUp, MovesDown, ElevatorStatus

LEMMA OrdersInvNext ==
    ASSUME TypeOK, OrdersInv, [Next]_vars
    PROVE  OrdersInv'
<1>0. elev \in ElevatorStatus
  BY DEF TypeOK
<1>1. CASE InitializeElevator
  BY <1>1, InitializeKeepsOrders DEF OrdersInv
<1>2. ASSUME NEW o \in Requests, NewOrder(o) PROVE OrdersInv'
  BY <1>2, NewOrderAdds DEF OrdersInv
<1>3. ASSUME NEW o \in HallRequests, OnRemoveOrder(o) PROVE OrdersInv'
  BY <1>0, <1>3, RemoveOrderHeads DEF OnRemoveOrder, OrdersInv
<1>4. CASE OnFloorSensor
  BY <1>4, FloorSensorCases DEF OrdersInv
<1>5. ASSUME NEW t \in DoorTimers, DoorTimer(t) PROVE OrdersInv'
  <2>1. CASE OnDoorTimeout(t)
    BY <2>1, DoorTimeoutSettles DEF OrdersInv
  <2>2. CASE ~ OnDoorTimeout(t)
    BY <1>0, <1>5, <2>2 DEF DoorTimer, DoorOpened, LampOn, TimerFires, TimerRead,
                      ObstructionReceived, OrdersInv, ElevatorStatus
  <2>3. QED
    BY <2>1, <2>2
<1>6. ASSUME NEW k \in TimeoutTasks, TimeOutToElev(k) \/ OnTimeout(k) PROVE OrdersInv'
  BY <1>0, <1>6 DEF TimeOutToElev, OnTimeout, TaskStarts, TaskChecks, TaskReads,
                    TaskDrives, OrdersInv, ElevatorStatus
<1>7. CASE \/ SensorLeft \/ PollObstructionSwitch \/ FloorArrival \/ FloorDeparture
           \/ ManualMoveWithinBounds \/ ObstructionSwitch \/ UNCHANGED vars
  BY <1>7 DEF SensorLeft, PollObstructionSwitch, FloorArrival, FloorDeparture,
              ManualMoveWithinBounds, ObstructionSwitch, vars, OrdersInv
<1>8. QED
  BY <1>1, <1>2, <1>3, <1>4, <1>5, <1>6, <1>7 DEF Next, Panel, System

LEMMA LiftInit ==
    ASSUME Undisturbed, Init
    PROVE  Lift!Init
<1>1. DoorMotorInv
  BY DoorMotorInit
<1>2. ~doorLamp
  BY DEF Init, Undisturbed
<1>3. elev.Orders \in SUBSET Requests
  BY DEF Init
<1>4. cabin.prevFloor \in Floors /\ cabin.currFloor \in {Between, cabin.prevFloor}
  BY <1>1 DEF DoorMotorInv, TypeOK, CabinState, MotorInv
<1>5. QED
  BY <1>2, <1>3, <1>4 DEF Lift!Init, Lift!Nowhere, Between

LEMMA LiftCloseDoor ==
    ASSUME TypeOK, OrdersInv, doorLamp, cabin.currFloor = elev.Floor,
           NEW t \in DoorTimers, OnDoorTimeout(t)
    PROVE  Lift!CloseDoor
<1>1. elev'.Orders = elev.Orders \ Settled(elev)
  BY DoorTimeoutSettles
<1>2. \A o \in elev.Orders \ elev'.Orders : o.Floor = cabin.currFloor
  BY <1>1 DEF Settled
<1>3. \A o \in elev'.Orders : o.Floor = cabin.currFloor => o \in HallRequests
  BY <1>1 DEF Settled, OrdersInv, HallRequests
<1>4. cabin'.currFloor = cabin.currFloor /\ cabin'.prevFloor = cabin.prevFloor
  BY DoorTimeoutCases, SetMotorType DEF TypeOK, MotorDirection
<1>5. ~doorLamp'
  BY DEF OnDoorTimeout
<1>6. QED
  BY <1>1, <1>2, <1>3, <1>4, <1>5 DEF Lift!CloseDoor

\* The step of the lift service each handler's step implements: most stutter.
LEMMA LiftNext ==
    ASSUME Undisturbed, DoorMotorInv, OrdersInv, [Next]_vars
    PROVE  [Lift!Next]_Lift!vars
<1> USE DEF DoorMotorInv
<1> DEFINE Still == UNCHANGED <<elev.Orders, doorLamp, cabin>>
<1>0. Still => UNCHANGED Lift!vars
  BY DEF Lift!vars
<1>1. ASSUME elev'.Orders = elev.Orders, doorLamp' = doorLamp, ~doorLamp,
             cabin'.currFloor = cabin.currFloor, cabin'.prevFloor = cabin.prevFloor
      PROVE  [Lift!Next]_Lift!vars
  BY <1>1 DEF Lift!Next, Lift!Drive, Lift!vars
<1>2. CASE InitializeElevator
  <2>1. ~doorLamp /\ doorLamp' = doorLamp
    BY <1>2 DEF InitializeElevator, DoorInv
  <2>2. cabin'.currFloor = cabin.currFloor /\ cabin'.prevFloor = cabin.prevFloor
    BY <1>2, InitializeCases, SetMotorType DEF TypeOK, MotorDirection
  <2>3. QED
    BY <1>1, <1>2, <2>1, <2>2, InitializeKeepsOrders
<1>3. ASSUME NEW o \in Requests, NewOrder(o) PROVE Lift!Next
  <2>1. booted /\ doorLamp' = doorLamp
    BY <1>3 DEF NewOrder
  <2>2. cabin'.currFloor = cabin.currFloor /\ cabin'.prevFloor = cabin.prevFloor
    BY <1>3, NewOrderCases, SetMotorType DEF TypeOK, MotorDirection
  <2>3. doorLamp => cabin'.currDirn = MD_Stop
    <3>1. doorLamp => elev.State = "ST_DoorOpen"
      BY <2>1 DEF DoorInv, TypeOK, ElevatorStatus, ElevatorState, Stopping, Moving
    <3>2. doorLamp => cabin.currDirn = MD_Stop
      BY <2>1, <3>1 DEF MotorInv, StateMatchesMotor
    <3>3. doorLamp => cabin' = cabin
      BY <1>3, <3>1, NewOrderCases
    <3>4. QED
      BY <3>2, <3>3
  <2>4. Lift!Call(o)
    BY <1>3, <2>1, <2>2, <2>3, NewOrderAdds DEF Lift!Call
  <2>5. QED
    BY <2>4 DEF Lift!Next
<1>4. ASSUME NEW o \in HallRequests, OnRemoveOrder(o) PROVE Lift!Next
  <2>1. Lift!Withdraw(o)
    BY <1>4, RemoveOrderHeads DEF OnRemoveOrder, TypeOK, Lift!Withdraw
  <2>2. QED
    BY <2>1 DEF Lift!Next
<1>5. CASE OnFloorSensor
  <2>1. booted /\ elev.State \in Moving
    BY <1>5 DEF OnFloorSensor, MotorInv
  <2>2. ~doorLamp /\ doorLamp' = doorLamp
    BY <1>5, <2>1 DEF OnFloorSensor, DoorInv
  <2>3. cabin'.currFloor = cabin.currFloor /\ cabin'.prevFloor = cabin.prevFloor
    BY <1>5, SetMotorType DEF OnFloorSensor, TypeOK, MotorDirection
  <2>4. QED
    BY <1>1, <1>5, <2>2, <2>3, FloorSensorCases
<1>6. ASSUME NEW t \in DoorTimers, DoorTimer(t) PROVE [Lift!Next]_Lift!vars
  <2>1. CASE DoorOpened(t)
    BY <1>0, <2>1 DEF DoorOpened, TypeOK, ElevatorStatus
  <2>2. CASE TimerFires(t) \/ TimerRead(t) \/ ObstructionReceived(t)
    BY <1>0, <2>2 DEF TimerFires, TimerRead, ObstructionReceived
  <2>3. ASSUME LampOn(t) \/ OnDoorTimeout(t)
        PROVE  /\ booted /\ elev.State = "ST_DoorOpen"
               /\ LampOn(t) => ~doorLamp
               /\ OnDoorTimeout(t) => doorLamp
    BY <2>3 DEF LampOn, OnDoorTimeout, DoorInv, NoTimer, OneTimer, InSelect, Moving,
                TypeOK, ElevatorStatus, ElevatorState, Stopping
  <2>4. booted /\ elev.State = "ST_DoorOpen" =>
            /\ cabin.currDirn = MD_Stop /\ cabin.currFloor = elev.Floor
            /\ cabin.currFloor # Lift!Nowhere
    BY NumFloorsAssumption
    DEF MotorInv, StateMatchesMotor, Moving, TypeOK, ElevatorStatus, Floors, Lift!Nowhere
  <2>5. CASE LampOn(t)
    <3>1. Lift!OpenDoor
      BY <2>3, <2>4, <2>5 DEF LampOn, Lift!OpenDoor
    <3>2. QED
      BY <3>1 DEF Lift!Next
  <2>6. CASE OnDoorTimeout(t)
    <3>1. Lift!CloseDoor
      BY <2>3, <2>4, <2>6, LiftCloseDoor
    <3>2. QED
      BY <3>1 DEF Lift!Next
  <2>7. QED
    BY <1>6, <2>1, <2>2, <2>5, <2>6 DEF DoorTimer
<1>7. booted /\ cabin.currDirn # MD_Stop => ~doorLamp
  BY DEF DoorInv, MotorInv, StateMatchesMotor, TypeOK, ElevatorStatus,
         ElevatorState, Stopping, Moving
<1>8. CASE FloorArrival
  <2>1. /\ cabin.currFloor = Between /\ cabin.currDirn # MD_Stop
        /\ elev' = elev /\ doorLamp' = doorLamp /\ cabin' = Arrive(cabin)
    BY <1>8 DEF FloorArrival, CanArrive
  <2>2. /\ cabin'.currFloor \in Floors /\ cabin'.prevFloor = cabin'.currFloor
        /\ cabin'.currDirn = cabin.currDirn
    BY <1>8, <2>1, ArriveType DEF FloorArrival, TypeOK
  <2>3. cabin'.currFloor \in {cabin.prevFloor - 1, cabin.prevFloor, cabin.prevFloor + 1}
    BY <2>1 DEF Arrive, NextFloor, TypeOK, CabinState, Floors, MotorDirection, MD_Up,
                MD_Down, MD_Stop
  <2>4. ~doorLamp
    BY <1>7, <2>1 DEF DoorInv
  <2>5. Lift!Reach(cabin'.currFloor)
    BY <2>1, <2>2, <2>3, <2>4 DEF Lift!Reach, Lift!Nowhere, Between
  <2>6. QED
    BY <2>2, <2>5 DEF Lift!Next
<1>9. CASE FloorDeparture
  <2>1. /\ cabin.currFloor # Between /\ cabin.currDirn # MD_Stop
        /\ elev' = elev /\ doorLamp' = doorLamp
        /\ cabin'.currFloor = Between /\ cabin'.currDirn = cabin.currDirn
        /\ cabin'.prevFloor = cabin.prevFloor
    BY <1>9 DEF FloorDeparture, CanDepart, Depart, TypeOK, CabinState
  <2>2. ~doorLamp
    BY <1>7, <2>1 DEF DoorInv
  <2>3. Lift!Leave
    BY <2>1, <2>2 DEF Lift!Leave, Lift!Nowhere, Between
  <2>4. QED
    BY <2>3 DEF Lift!Next
<1>10. CASE ManualMoveWithinBounds
  BY <1>10 DEF ManualMoveWithinBounds, MotorInv, StaysInBounds
<1>11. CASE SensorLeft \/ PollObstructionSwitch \/ ObstructionSwitch \/ UNCHANGED vars
  BY <1>0, <1>11 DEF SensorLeft, PollObstructionSwitch, ObstructionSwitch, vars
<1>12. TimeoutTasks = {}
  BY DEF Undisturbed
<1>13. QED
  BY <1>2, <1>3, <1>4, <1>5, <1>6, <1>8, <1>9, <1>10, <1>11, <1>12
  DEF Next, Panel, System

\* The elevator implements the lift service, for any number of floors and any
\* requests: no order leaves its table but by an open door at its floor or by a
\* withdrawal, a closing door leaves no cab order of its floor, and the doors are
\* shut whenever the motor runs or the cabin changes floors (the event loop, the
\* door timer and the motor commands between them).
THEOREM LiftServiceImplemented ==
    ASSUME Undisturbed
    PROVE  Spec => ImplementsLift
<1>1. Init => Lift!Init
  BY LiftInit
<1>2. Init => OrdersInv
  BY DEF Init, OrdersInv
<1>3. DoorMotorInv /\ OrdersInv /\ [Next]_vars => OrdersInv' /\ [Lift!Next]_Lift!vars
  BY OrdersInvNext, LiftNext DEF DoorMotorInv
<1>4. QED
  BY <1>1, <1>2, <1>3, DoorMotorHolds, PTL DEF Spec, ImplementsLift, Lift!Spec
=============================================================================
