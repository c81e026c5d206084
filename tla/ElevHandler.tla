---- MODULE ElevHandler ----
(***************************************************************************)
(* The status of one elevator and the operations on its order tables:      *)
(* Elevator/elevhandler/elevatorHandler.go.  The three boolean arrays of   *)
(* type Orders are one set of button events; TimeSinceNewFloor is the      *)
(* business of the order handler's time-out and is left out.               *)
(***************************************************************************)
EXTENDS Integers, FiniteSetsExt

CONSTANT NumFloors

ASSUME NumFloorsAssumption == NumFloors \in Nat /\ NumFloors >= 2

Floors == 0 .. (NumFloors - 1)

MD_Up   == 1
MD_Down == -1
MD_Stop == 0
MotorDirection == {MD_Up, MD_Down, MD_Stop}

ButtonType == {"BT_HallUp", "BT_HallDown", "BT_Cab"}

ElevatorState == {"ST_Idle", "ST_MovingUp", "ST_MovingDown",
                  "ST_StopUp", "ST_StopDown", "ST_DoorOpen"}

\* The buttons there are: the panel server reads "up" at the top floor and
\* "down" at floor 0 as never pressed, so no such event is ever polled.
ButtonEvent ==
    {o \in [Floor : Floors, Button : ButtonType] :
        /\ o.Button = "BT_HallUp"   => o.Floor # NumFloors - 1
        /\ o.Button = "BT_HallDown" => o.Floor # 0}

Order(f, b) == [Floor |-> f, Button |-> b]

ElevatorStatus == [Endstation : Floors,
                   Floor      : Floors,
                   Available  : BOOLEAN,
                   Orders     : SUBSET ButtonEvent,
                   Direction  : MotorDirection,
                   State      : ElevatorState]

Inside(e) == {o.Floor : o \in {p \in e.Orders : p.Button = "BT_Cab"}}
Up(e)     == {o.Floor : o \in {p \in e.Orders : p.Button = "BT_HallUp"}}
Down(e)   == {o.Floor : o \in {p \in e.Orders : p.Button = "BT_HallDown"}}

-----------------------------------------------------------------------------
\* The floors an elevator has any order for.
Requested(e) == {o.Floor : o \in e.Orders}

\* Seeded fault: no order, no floor.
Furthest_NoDefault(e) ==
    IF Requested(e) = {} THEN -1
    ELSE IF e.Direction = MD_Down THEN Min(Requested(e))
    ELSE Max(Requested(e))

\* The floor the elevator heads for, given its direction: the lowest requested
\* floor when it goes down, the highest otherwise, its own floor when nothing
\* is requested.
Furthest(e) ==
    IF Requested(e) = {} THEN e.Floor
    ELSE IF e.Direction = MD_Down THEN Min(Requested(e))
    ELSE Max(Requested(e))

SetEndstation(e) == [e EXCEPT !.Endstation = Furthest(e)]

\* Seeded fault: a new order leaves the end station as it was.
AddOrder_OldEndstation(e, o) == [e EXCEPT !.Orders = @ \union {o}]

AddOrder(e, o) == SetEndstation([e EXCEPT !.Orders = @ \union {o}])

RemoveOrder(e, o) == SetEndstation([e EXCEPT !.Orders = @ \ {o}])

\* Seeded fault: the end station settles no more than any other stop.
Settled_NoEndstation(e) ==
    {o \in e.Orders :
        /\ o.Floor = e.Floor
        /\ \/ o.Button = "BT_Cab"
           \/ o.Button = "BT_HallUp" /\ e.Direction = MD_Up
           \/ o.Button = "BT_HallDown" /\ e.Direction = MD_Down}

\* Seeded fault: a stop settles cab orders of every floor.
Settled_EveryCabOrder(e) ==
    {o \in e.Orders :
        \/ o.Button = "BT_Cab"
        \/ /\ o.Floor = e.Floor
           /\ \/ o.Button = "BT_HallUp" /\ e.Direction = MD_Up
              \/ o.Button = "BT_HallDown" /\ e.Direction = MD_Down
              \/ e.Endstation = e.Floor}

\* The orders a stop at the elevator's floor settles: the cab's, the hall order
\* of the direction of travel, and both hall orders at the end station.
Settled(e) ==
    {o \in e.Orders :
        /\ o.Floor = e.Floor
        /\ \/ o.Button = "BT_Cab"
           \/ o.Button = "BT_HallUp" /\ e.Direction = MD_Up
           \/ o.Button = "BT_HallDown" /\ e.Direction = MD_Down
           \/ e.Endstation = e.Floor}

ClearOrdersAtFloor(e) == SetEndstation([e EXCEPT !.Orders = @ \ Settled(e)])
=============================================================================
