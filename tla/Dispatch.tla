---- MODULE Dispatch ----
(***************************************************************************)
(* How one node chooses the elevator for a hall order: CostFunction and    *)
(* the loop of ChooseElevator in Orderhandler/orderHandler.go.  One run of *)
(* the specification is one call.  The ids are numbered in the order       *)
(* sort.Strings puts them in; an id the map does not hold yet is as good   *)
(* as one that is not available.                                           *)
(***************************************************************************)
EXTENDS ElevHandler

CONSTANT NumElevs

ASSUME NumElevsAssumption == NumElevs \in Nat

Ids == 1 .. NumElevs

HallButtonEvent == {o \in ButtonEvent : o.Button # "BT_Cab"}

\* What the statuses of the map say of an elevator's travel.  The end station of
\* one that stands is its floor, unless onTimeout has driven the idle cabin to
\* another floor: then it is still the floor the cabin left.
Travel == [Endstation : Floors, Floor : Floors, Available : BOOLEAN,
           Direction : MotorDirection]

VARIABLES
    elevMap,    \* the status of every elevator
    myID,       \* this node
    order,      \* the hall order
    i,          \* the loop's counter
    minCost,    \* the lowest cost so far
    chosenElev  \* the elevator that has it

vars == <<elevMap, myID, order, i, minCost, chosenElev>>

DistanceBetweenFloors(f, g) == IF f < g THEN g - f ELSE f - g

\* Whether elevator e is on its way towards the order's floor.
Approaches(o, e) ==
    \/ e.Direction = MD_Up /\ e.Floor < o.Floor
    \/ e.Direction = MD_Down /\ e.Floor > o.Floor

\* Whether it goes the way the order wants to go.
SameWay(o, e) ==
    \/ e.Direction = MD_Up /\ o.Button = "BT_HallUp"
    \/ e.Direction = MD_Down /\ o.Button = "BT_HallDown"

\* Whether it would turn before it comes to the order's floor.
TurnsBefore(o, e) ==
    \/ e.Direction = MD_Up /\ e.Endstation < o.Floor
    \/ e.Direction = MD_Down /\ e.Endstation > o.Floor

\* Seeded fault: the way from the end station to the order is free.
ViaEndstation_OneLeg(o, e) == DistanceBetweenFloors(e.Floor, e.Endstation)

ViaEndstation(o, e) ==
    DistanceBetweenFloors(e.Endstation, o.Floor)
        + DistanceBetweenFloors(e.Floor, e.Endstation)

\* Seeded fault: an elevator that passes by is not preferred.
CostFunction_NoPreference(o, e) ==
    IF Approaches(o, e) /\ (TurnsBefore(o, e) \/ SameWay(o, e))
    THEN DistanceBetweenFloors(e.Floor, o.Floor)
    ELSE ViaEndstation(o, e)

\* The floors an elevator has to travel before it can take hall order o, one
\* less when it passes by anyhow.
CostFunction(o, e) ==
    IF Approaches(o, e) /\ TurnsBefore(o, e)
    THEN DistanceBetweenFloors(e.Floor, o.Floor)
    ELSE IF (Approaches(o, e) \/ e.Floor = o.Floor) /\ SameWay(o, e)
    THEN DistanceBetweenFloors(e.Floor, o.Floor) - 1
    ELSE ViaEndstation(o, e)

\* The loop's initial minCost, for 10^18 in the code: larger than any cost.
NoCost == 2 * NumFloors

-----------------------------------------------------------------------------
Init ==
    /\ elevMap \in [Ids -> Travel]
    /\ myID \in Ids
    /\ order \in HallButtonEvent
    /\ i = 1
    /\ minCost = NoCost
    /\ chosenElev = myID

\* Seeded fault: among equals the last one wins.
IsCheaper_OrEqual(e) == CostFunction(order, e) <= minCost /\ e.Available

IsCheaper(e) == CostFunction(order, e) < minCost /\ e.Available

\* One round of the loop.
Examine ==
    /\ i \in Ids
    /\ i' = i + 1
    /\ IF IsCheaper(elevMap[i])
       THEN minCost' = CostFunction(order, elevMap[i]) /\ chosenElev' = i
       ELSE UNCHANGED <<minCost, chosenElev>>
    /\ UNCHANGED <<elevMap, myID, order>>

Spec == Init /\ [][Examine]_vars

Done == i = NumElevs + 1

-----------------------------------------------------------------------------
Cost(id) == CostFunction(order, elevMap[id])

\* a is a better choice than b.
Better(a, b) == Cost(a) < Cost(b) \/ (Cost(a) = Cost(b) /\ a < b)

\* Nodes that know the same statuses choose the same elevator, whichever node
\* they are: the available one of lowest cost, of those the one of lowest id.
\* Only when they know of no available elevator does each take the order itself.
AgreedChoice ==
    Done => LET available == {id \in Ids : elevMap[id].Available}
            IN  IF available = {} THEN chosenElev = myID
                ELSE /\ chosenElev \in available
                     /\ \A id \in available \ {chosenElev} : Better(chosenElev, id)

Standing(id) == elevMap[id].Direction = MD_Stop

Distance(id) == DistanceBetweenFloors(elevMap[id].Floor, order.Floor)

\* An idle elevator is not sent when an idle one at its end station is closer, even
\* if a time-out has moved the one that is sent and its end station is elsewhere.
\* (An elevator that was moved costs the way by its old end station, and may be the
\* closest and not be sent.)
ClosestIdleChosen ==
    Done /\ Standing(chosenElev) /\ elevMap[chosenElev].Available
        => \A id \in Ids :
               Standing(id) /\ elevMap[id].Available /\ elevMap[id].Endstation = elevMap[id].Floor
                   => Distance(chosenElev) <= Distance(id)

\* Elevators already moving are prioritised: an idle one is not sent when one no
\* farther away is about to pass the floor in the order's direction.
MovingPrioritised ==
    Done /\ Standing(chosenElev) /\ elevMap[chosenElev].Available
        => ~ \E id \in Ids :
               /\ elevMap[id].Available
               /\ Approaches(order, elevMap[id]) /\ SameWay(order, elevMap[id])
               /\ ~ TurnsBefore(order, elevMap[id])
               /\ Distance(id) <= Distance(chosenElev)
=============================================================================
