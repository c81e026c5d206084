---- MODULE ElevHandlerProofs ----
(***************************************************************************)
(* What the operations of ElevHandler and the motor commands of Cabin      *)
(* return, for any number of floors.                                       *)
(***************************************************************************)
EXTENDS Cabin, WellFoundedInduction, TLAPS

\* A set of floors that is not empty has a lowest and a highest one.
LEMMA MinOfFloors ==
    ASSUME NEW S \in SUBSET Floors, S # {}
    PROVE  Min(S) \in S /\ \A f \in S : Min(S) <= f
<1>1. S \subseteq Nat
  BY NumFloorsAssumption DEF Floors
<1>2. \E x \in S : \A y \in S : ~ (<<y, x>> \in OpToRel(<, Nat))
  BY <1>1, WFMin, NatLessThanWellFounded, Zenon
<1>3. \E x \in S : \A y \in S : ~ (y < x)
  BY <1>1, <1>2, Zenon DEF OpToRel
<1>4. \E x \in S : \A y \in S : x <= y
  BY <1>1, <1>3
<1>5. QED
  BY <1>4 DEF Min

LEMMA MaxOfFloors ==
    ASSUME NEW S \in SUBSET Floors, S # {}
    PROVE  Max(S) \in S /\ \A f \in S : f <= Max(S)
<1> DEFINE T == {(NumFloors - 1) - f : f \in S}
<1>1. T \in SUBSET Floors /\ T # {}
  <2>1. \A f \in Floors : (NumFloors - 1) - f \in Floors
    BY NumFloorsAssumption DEF Floors
  <2>2. QED
    BY <2>1
<1>2. PICK f \in S : Min(T) = (NumFloors - 1) - f
  BY <1>1, MinOfFloors
<1>3. \A g \in S : f >= g
  <2> SUFFICES ASSUME NEW g \in S PROVE f >= g
    OBVIOUS
  <2>1. Min(T) <= (NumFloors - 1) - g
    BY <1>1, MinOfFloors
  <2>2. QED
    BY <1>2, <2>1, NumFloorsAssumption DEF Floors
<1>4. /\ Max(S) \in S
      /\ \A g \in S : Max(S) >= g
  BY <1>3 DEF Max
<1>5. QED
  BY <1>4, NumFloorsAssumption DEF Floors

\* SetEndstation always finds a floor.
LEMMA FurthestIsFloor ==
    ASSUME NEW e \in ElevatorStatus
    PROVE  Furthest(e) \in Floors
<1>1. Requested(e) \in SUBSET Floors /\ e.Floor \in Floors
  BY DEF ElevatorStatus, Requested, ButtonEvent
<1>2. QED
  BY <1>1, MinOfFloors, MaxOfFloors DEF Furthest

\* The operations keep an elevator's status a status, and change its orders and
\* its end station only.
SameTravel(e, f) ==
    /\ e.Floor = f.Floor /\ e.Direction = f.Direction
    /\ e.State = f.State /\ e.Available = f.Available

LEMMA SetEndstationType ==
    ASSUME NEW e \in ElevatorStatus
    PROVE  /\ SetEndstation(e) \in ElevatorStatus
           /\ SameTravel(SetEndstation(e), e)
           /\ SetEndstation(e).Orders = e.Orders
<1>1. Furthest(e) \in Floors
  BY FurthestIsFloor
<1>2. QED
  BY <1>1 DEF SetEndstation, ElevatorStatus, SameTravel

LEMMA AddOrderType ==
    ASSUME NEW e \in ElevatorStatus, NEW o \in ButtonEvent
    PROVE  /\ AddOrder(e, o) \in ElevatorStatus
           /\ SameTravel(AddOrder(e, o), e)
<1>1. LET f == [e EXCEPT !.Orders = @ \union {o}]
      IN  f \in ElevatorStatus /\ SameTravel(f, e)
  BY DEF ElevatorStatus, SameTravel
<1>2. QED
  BY <1>1, SetEndstationType DEF AddOrder, SameTravel

LEMMA RemoveOrderType ==
    ASSUME NEW e \in ElevatorStatus, NEW o
    PROVE  /\ RemoveOrder(e, o) \in ElevatorStatus
           /\ SameTravel(RemoveOrder(e, o), e)
<1>1. LET f == [e EXCEPT !.Orders = @ \ {o}]
      IN  f \in ElevatorStatus /\ SameTravel(f, e)
  BY DEF ElevatorStatus, SameTravel
<1>2. QED
  BY <1>1, SetEndstationType DEF RemoveOrder, SameTravel

LEMMA ClearOrdersType ==
    ASSUME NEW e \in ElevatorStatus
    PROVE  /\ ClearOrdersAtFloor(e) \in ElevatorStatus
           /\ SameTravel(ClearOrdersAtFloor(e), e)
<1>1. LET f == [e EXCEPT !.Orders = @ \ Settled(e)]
      IN  f \in ElevatorStatus /\ SameTravel(f, e)
  BY DEF ElevatorStatus, SameTravel
<1>2. QED
  BY <1>1, SetEndstationType DEF ClearOrdersAtFloor, SameTravel

-----------------------------------------------------------------------------
(* Where an elevator heads, and what closing its door leaves.               *)

\* The end station of an elevator with orders is one of their floors, and none
\* lies beyond it in the direction of travel.
LEMMA FurthestIsLast ==
    ASSUME NEW e \in ElevatorStatus, Requested(e) # {}
    PROVE  /\ Furthest(e) \in Requested(e)
           /\ e.Direction = MD_Down => \A f \in Requested(e) : Furthest(e) <= f
           /\ e.Direction # MD_Down => \A f \in Requested(e) : f <= Furthest(e)
<1>1. Requested(e) \in SUBSET Floors
  BY DEF ElevatorStatus, Requested, ButtonEvent
<1>2. QED
  BY <1>1, MinOfFloors, MaxOfFloors DEF Furthest

\* The end station is the one SetEndstation computes.
Heads(e) == e.Endstation = Furthest(e)

LEMMA SetEndstationHeads ==
    ASSUME NEW e \in ElevatorStatus
    PROVE  Heads(SetEndstation(e)) /\ Requested(SetEndstation(e)) = Requested(e)
<1> DEFINE s == SetEndstation(e)
<1>1. /\ s.Orders = e.Orders /\ s.Floor = e.Floor /\ s.Direction = e.Direction
      /\ s.Endstation = Furthest(e)
  BY SetEndstationType DEF SameTravel, SetEndstation, ElevatorStatus
<1>2. Requested(s) = Requested(e)
  BY <1>1 DEF Requested
<1>3. Furthest(s) = Furthest(e)
  BY <1>1, <1>2 DEF Furthest
<1>4. QED
  BY <1>1, <1>2, <1>3 DEF Heads

LEMMA AddOrderHeads ==
    ASSUME NEW e \in ElevatorStatus, NEW o \in ButtonEvent
    PROVE  /\ Heads(AddOrder(e, o))
           /\ AddOrder(e, o).Orders = e.Orders \union {o}
<1> DEFINE f == [e EXCEPT !.Orders = @ \union {o}]
<1>1. f \in ElevatorStatus /\ f.Orders = e.Orders \union {o}
  BY DEF ElevatorStatus
<1>2. QED
  BY <1>1, SetEndstationType, SetEndstationHeads DEF AddOrder

LEMMA RemoveOrderHeads ==
    ASSUME NEW e \in ElevatorStatus, NEW o
    PROVE  /\ Heads(RemoveOrder(e, o))
           /\ RemoveOrder(e, o).Orders = e.Orders \ {o}
<1> DEFINE f == [e EXCEPT !.Orders = @ \ {o}]
<1>1. f \in ElevatorStatus /\ f.Orders = e.Orders \ {o}
  BY DEF ElevatorStatus
<1>2. QED
  BY <1>1, SetEndstationType, SetEndstationHeads DEF RemoveOrder

LEMMA ClearOrdersHeads ==
    ASSUME NEW e \in ElevatorStatus
    PROVE  /\ Heads(ClearOrdersAtFloor(e))
           /\ ClearOrdersAtFloor(e).Orders = e.Orders \ Settled(e)
<1> DEFINE f == [e EXCEPT !.Orders = @ \ Settled(e)]
<1>1. f \in ElevatorStatus /\ f.Orders = e.Orders \ Settled(e)
  BY DEF ElevatorStatus
<1>2. QED
  BY <1>1, SetEndstationType, SetEndstationHeads DEF ClearOrdersAtFloor

\* Closing the door at the elevator's floor leaves either no order there or one
\* further on in the direction of travel.
SettlesFloor(e) ==
    \/ e.Endstation = e.Floor
    \/ e.Floor \notin Requested(e)
    \/ \E f \in Requested(e) :
          IF e.Direction = MD_Down THEN f < e.Floor ELSE f > e.Floor

LEMMA HeadsSettlesFloor ==
    ASSUME NEW e \in ElevatorStatus, Heads(e)
    PROVE  SettlesFloor(e) /\ (Requested(e) # {} => e.Endstation \in Requested(e))
<1>1. CASE Requested(e) = {}
  BY <1>1 DEF SettlesFloor
<1>2. CASE Requested(e) # {}
  <2>1. e.Endstation \in Requested(e)
    BY <1>2, FurthestIsLast DEF Heads
  <2>2. Requested(e) \in SUBSET Floors /\ e.Floor \in Floors /\ e.Endstation \in Floors
    BY DEF ElevatorStatus, Requested, ButtonEvent
  <2>3. \A f \in Floors : f \in Int
    BY DEF Floors
  <2>4. CASE e.Direction = MD_Down
    <3>1. \A f \in Requested(e) : e.Endstation <= f
      BY <1>2, <2>4, FurthestIsLast DEF Heads
    <3>2. QED
      BY <2>1, <2>2, <2>3, <2>4, <3>1 DEF SettlesFloor
  <2>5. CASE e.Direction # MD_Down
    <3>1. \A f \in Requested(e) : f <= e.Endstation
      BY <1>2, <2>5, FurthestIsLast DEF Heads
    <3>2. QED
      BY <2>1, <2>2, <2>3, <2>5, <3>1 DEF SettlesFloor
  <2>6. QED
    BY <2>1, <2>4, <2>5
<1>3. QED
  BY <1>1, <1>2

\* An elevator whose end station after the door has closed is its own floor has
\* no order left.
LEMMA ClearedAtEndIsEmpty ==
    ASSUME NEW e \in ElevatorStatus, SettlesFloor(e),
           ClearOrdersAtFloor(e).Endstation = e.Floor
    PROVE  ClearOrdersAtFloor(e).Orders = {}
<1> DEFINE c == ClearOrdersAtFloor(e)
<1>1. /\ c \in ElevatorStatus /\ c.Floor = e.Floor /\ c.Direction = e.Direction
      /\ Heads(c) /\ c.Orders = e.Orders \ Settled(e)
  BY ClearOrdersType, ClearOrdersHeads DEF SameTravel
<1>2. \A f \in Requested(e) : f # e.Floor => f \in Requested(c)
  BY <1>1 DEF Requested, Settled
<1>3. SUFFICES ASSUME Requested(c) # {} PROVE FALSE
  BY DEF Requested
<1>4. e.Floor \in Requested(c)
  BY <1>1, <1>3, FurthestIsLast DEF Heads
<1>5. e.Floor \in Requested(e) /\ e.Endstation # e.Floor
  BY <1>1, <1>4 DEF Requested, Settled
<1>6. PICK f \in Requested(e) :
         IF e.Direction = MD_Down THEN f < e.Floor ELSE f > e.Floor
  BY <1>5 DEF SettlesFloor
<1>7. f \in Int /\ e.Floor \in Int
  BY <1>6 DEF ElevatorStatus, Requested, ButtonEvent, Floors
<1>8. f \in Requested(c)
  BY <1>2, <1>6, <1>7
<1>9. QED
  BY <1>1, <1>3, <1>6, <1>7, <1>8, FurthestIsLast DEF Heads

-----------------------------------------------------------------------------
\* A motor command switches the motor of a cabin within bounds and neither moves
\* the cabin nor takes it out of bounds.
LEMMA SetMotorType ==
    ASSUME NEW c \in CabinState, NEW md \in MotorDirection
    PROVE  /\ SetMotor(c, md) \in CabinState
           /\ SetMotor(c, md).currFloor = c.currFloor
           /\ SetMotor(c, md).prevFloor = c.prevFloor
           /\ ~ isOutOfBounds(c) => /\ SetMotor(c, md).currDirn = md
                                    /\ ~ isOutOfBounds(SetMotor(c, md))
<1>1. md # MD_Stop => md \in Dirn
  BY DEF MotorDirection, Dirn
<1>2. QED
  BY <1>1 DEF SetMotor, CabinState, isOutOfBounds

\* A cabin that arrives within bounds arrives at a floor.
LEMMA ArriveType ==
    ASSUME NEW c \in CabinState, CanArrive(c)
    PROVE  /\ Arrive(c) \in CabinState
           /\ Arrive(c).currFloor \in Floors
           /\ Arrive(c).prevFloor = Arrive(c).currFloor
           /\ Arrive(c).currDirn = c.currDirn
<1>1. /\ c.prevFloor \in 0 .. (NumFloors - 1)
      /\ c.currDirn \in {1, -1}
      /\ c.departDirn \in {1, -1}
  BY DEF CanArrive, CabinState, Floors, MotorDirection, Dirn, MD_Up, MD_Down, MD_Stop
<1>2. NextFloor(c) \in Floors
  BY <1>1, NumFloorsAssumption
  DEF NextFloor, CanArrive, isOutOfBounds, Floors, MD_Up, MD_Down
<1>3. QED
  BY <1>2 DEF Arrive, CabinState

LEMMA DepartType ==
    ASSUME NEW c \in CabinState, CanDepart(c)
    PROVE  Depart(c) \in CabinState
<1>1. c.currDirn \in Dirn
  BY DEF CanDepart, CabinState, MotorDirection, Dirn
<1>2. QED
  BY <1>1 DEF Depart, CabinState

LEMMA MoveWithinBoundsType ==
    ASSUME NEW c \in CabinState
    PROVE  MoveWithinBounds(c) \in CabinState
<1>1. QED
  BY DEF MoveWithinBounds, CabinState, MotorDirection
=============================================================================
