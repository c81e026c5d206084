---- MODULE DispatchProofs ----
(***************************************************************************)
(* The choice of an elevator, proved for any number of elevators and       *)
(* floors.  The invariant says of the elevators examined so far what       *)
(* AgreedChoice says of all of them when the loop is over.                 *)
(***************************************************************************)
EXTENDS Dispatch, TLAPS

Examined == 1 .. (i - 1)

TypeInv ==
    /\ elevMap \in [Ids -> Travel]
    /\ myID \in Ids
    /\ order \in HallButtonEvent
    /\ i \in 1 .. (NumElevs + 1)
    /\ minCost \in Int
    /\ chosenElev \in Ids

NoneFound ==
    /\ \A id \in Examined : ~ elevMap[id].Available
    /\ minCost = NoCost
    /\ chosenElev = myID

BestFound ==
    /\ chosenElev \in Examined
    /\ elevMap[chosenElev].Available
    /\ minCost = Cost(chosenElev)
    /\ \A id \in Examined :
          elevMap[id].Available /\ id # chosenElev => Better(chosenElev, id)

LoopInv == TypeInv /\ (NoneFound \/ BestFound)

\* What CostFunction returns: an integer below the loop's initial minCost, so
\* that any available elevator is cheaper than none.
LEMMA CostBounds ==
    ASSUME NEW o \in HallButtonEvent, NEW e \in Travel
    PROVE  CostFunction(o, e) \in -1 .. (NoCost - 1)
<1>1. /\ o.Floor \in 0 .. (NumFloors - 1)
      /\ e.Floor \in 0 .. (NumFloors - 1)
      /\ e.Endstation \in 0 .. (NumFloors - 1)
      /\ e.Direction \in {1, -1, 0}
  BY DEF HallButtonEvent, ButtonEvent, Travel, Floors, MotorDirection,
         MD_Up, MD_Down, MD_Stop
<1>2. QED
  BY <1>1, NumFloorsAssumption
  DEF CostFunction, ViaEndstation, DistanceBetweenFloors, NoCost, Approaches,
      SameWay, TurnsBefore, MD_Up, MD_Down

\* An elevator that stands costs its distance, or more if its end station is not
\* its floor.
LEMMA StandingCost ==
    ASSUME NEW o \in HallButtonEvent, NEW e \in Travel, e.Direction = MD_Stop
    PROVE  /\ CostFunction(o, e) >= DistanceBetweenFloors(e.Floor, o.Floor)
           /\ e.Endstation = e.Floor
                  => CostFunction(o, e) = DistanceBetweenFloors(e.Floor, o.Floor)
<1>1. o.Floor \in Int /\ e.Floor \in Int /\ e.Endstation \in Int
  BY DEF HallButtonEvent, ButtonEvent, Travel, Floors
<1>2. QED
  BY <1>1 DEF CostFunction, ViaEndstation, DistanceBetweenFloors, Approaches,
              SameWay, MD_Up, MD_Down, MD_Stop

LEMMA LoopInvInit == Init => LoopInv
<1> SUFFICES ASSUME Init PROVE LoopInv
  OBVIOUS
<1>1. TypeInv
  BY NumFloorsAssumption, NumElevsAssumption DEF Init, TypeInv, NoCost, Ids
<1>2. NoneFound
  BY DEF Init, NoneFound, Examined
<1>3. QED
  BY <1>1, <1>2 DEF LoopInv

LEMMA LoopInvNext == LoopInv /\ [Examine]_vars => LoopInv'
<1> SUFFICES ASSUME LoopInv, [Examine]_vars PROVE LoopInv'
  OBVIOUS
<1>1. CASE UNCHANGED vars
  BY <1>1 DEF LoopInv, TypeInv, NoneFound, BestFound, Examined, Better, Cost, vars
<1>2. CASE Examine
  <2> USE DEF LoopInv
  <2>1. /\ i \in Ids /\ i \in Int /\ i' = i + 1
        /\ Examined' = Examined \union {i}
        /\ i \notin Examined
        /\ \A id \in Examined : id \in Int /\ id < i
    BY <1>2, NumElevsAssumption DEF Examine, Ids, TypeInv, Examined
  <2>2. UNCHANGED <<elevMap, myID, order>>
    BY <1>2 DEF Examine
  <2>3. \A id \in Ids : Cost(id) \in Int /\ Cost(id) < NoCost /\ Cost(id)' = Cost(id)
    BY <2>2, CostBounds, NumFloorsAssumption DEF TypeInv, Cost, NoCost
  <2>4. TypeInv'
    <3>1. i' \in 1 .. (NumElevs + 1)
      BY <2>1, NumElevsAssumption DEF Ids
    <3>2. minCost' \in Int /\ chosenElev' \in Ids
      BY <1>2, <2>1, <2>3 DEF Examine, TypeInv, Cost
    <3>3. QED
      BY <2>2, <3>1, <3>2 DEF TypeInv
  <2>5. Examined \subseteq Ids
    BY NumElevsAssumption DEF TypeInv, Examined, Ids
  <2>6. CASE IsCheaper(elevMap[i])
    <3>1. chosenElev' = i /\ minCost' = Cost(i) /\ elevMap[i].Available
      BY <1>2, <2>6 DEF Examine, Cost, IsCheaper
    <3>2. \A id \in Examined : elevMap[id].Available => Cost(i) < Cost(id)
      <4>1. Cost(i) < minCost
        BY <2>6 DEF IsCheaper, Cost
      <4>2. CASE NoneFound
        BY <4>2 DEF NoneFound
      <4>3. CASE BestFound
        <5> SUFFICES ASSUME NEW id \in Examined, elevMap[id].Available
                     PROVE  Cost(i) < Cost(id)
          OBVIOUS
        <5>1. id = chosenElev \/ Better(chosenElev, id)
          BY <4>3 DEF BestFound
        <5>2. Cost(chosenElev) <= Cost(id)
          BY <5>1, <2>3, <2>5, <4>3 DEF Better, BestFound
        <5>3. QED
          BY <4>1, <4>3, <5>2, <2>1, <2>3, <2>5 DEF BestFound
      <4>4. QED
        BY <4>2, <4>3
    <3>3. BestFound'
      BY <2>1, <2>2, <2>3, <2>5, <3>1, <3>2 DEF BestFound, Better
    <3>4. QED
      BY <2>4, <3>3
  <2>7. CASE ~ IsCheaper(elevMap[i])
    <3>1. UNCHANGED <<minCost, chosenElev>>
      BY <1>2, <2>7 DEF Examine
    <3>2. elevMap[i].Available => minCost <= Cost(i)
      BY <2>1, <2>3, <2>7 DEF IsCheaper, Cost, TypeInv
    <3>3. CASE NoneFound
      <4>1. ~ elevMap[i].Available
        BY <2>1, <2>3, <3>2, <3>3, NumFloorsAssumption DEF NoneFound, NoCost
      <4>2. NoneFound'
        BY <2>1, <2>2, <3>1, <3>3, <4>1 DEF NoneFound, NoCost
      <4>3. QED
        BY <2>4, <4>2
    <3>4. CASE BestFound
      <4>1. elevMap[i].Available => Better(chosenElev, i)
        BY <2>1, <2>3, <2>5, <3>2, <3>4 DEF BestFound, Better
      <4>2. BestFound'
        BY <2>1, <2>2, <2>3, <2>5, <3>1, <3>4, <4>1 DEF BestFound, Better
      <4>3. QED
        BY <2>4, <4>2
    <3>5. QED
      BY <3>3, <3>4
  <2>8. QED
    BY <2>6, <2>7
<1>3. QED
  BY <1>1, <1>2

LEMMA LoopInvHolds == Spec => []LoopInv
<1>1. QED
  BY LoopInvInit, LoopInvNext, PTL DEF Spec

LEMMA LoopInvAgrees == LoopInv => AgreedChoice
<1> SUFFICES ASSUME LoopInv, Done PROVE AgreedChoice
  BY DEF AgreedChoice
<1>1. Examined = Ids
  BY NumElevsAssumption DEF Done, Examined, Ids
<1>2. QED
  BY <1>1 DEF LoopInv, NoneFound, BestFound, AgreedChoice

\* For any number of elevators and floors, nodes that know the same statuses
\* choose the same elevator: the cheapest available one (ChooseElevator).
THEOREM ChoiceIsAgreed == Spec => []AgreedChoice
<1>1. QED
  BY LoopInvHolds, LoopInvAgrees, PTL

\* The chosen elevator costs no more than any available one.
LEMMA ChosenIsCheapest ==
    ASSUME LoopInv, Done, NEW id \in Ids, elevMap[id].Available
    PROVE  /\ chosenElev \in Ids
           /\ elevMap[chosenElev].Available
           /\ Cost(chosenElev) <= Cost(id)
<1>1. Examined = Ids
  BY NumElevsAssumption DEF Done, Examined, Ids
<1>2. BestFound
  BY <1>1 DEF LoopInv, NoneFound
<1>3. Cost(id) \in Int /\ Cost(chosenElev) \in Int
  BY <1>1, <1>2, CostBounds, NumFloorsAssumption
  DEF LoopInv, TypeInv, BestFound, Cost, NoCost
<1>4. id = chosenElev \/ Better(chosenElev, id)
  BY <1>1, <1>2 DEF BestFound
<1>5. QED
  BY <1>1, <1>2, <1>3, <1>4 DEF BestFound, Better

\* The distances are numbers, and so are the costs.
LEMMA DistancesAreNumbers ==
    ASSUME LoopInv, NEW id \in Ids
    PROVE  /\ Distance(id) \in Int /\ Cost(id) \in Int
           /\ Standing(id) => Distance(id) <= Cost(id)
<1>1. order \in HallButtonEvent /\ elevMap[id] \in Travel
  BY DEF LoopInv, TypeInv
<1>2. order.Floor \in Int /\ elevMap[id].Floor \in Int
  BY <1>1 DEF HallButtonEvent, ButtonEvent, Travel, Floors
<1>3. Distance(id) \in Int
  BY <1>2 DEF Distance, DistanceBetweenFloors
<1>4. Cost(id) \in Int
  BY <1>1, CostBounds, NumFloorsAssumption DEF Cost, NoCost
<1>5. Standing(id) => Cost(id) >= Distance(id)
  BY <1>1, StandingCost DEF Standing, Cost, Distance
<1>6. QED
  BY <1>3, <1>4, <1>5

\* For any number of elevators and floors, an idle elevator is sent only when no
\* idle one at its end station is closer (the example of the project description).
THEOREM ClosestIsChosen == Spec => []ClosestIdleChosen
<1>1. LoopInv => ClosestIdleChosen
  <2> SUFFICES ASSUME LoopInv, Done, Standing(chosenElev), NEW id \in Ids,
                      Standing(id), elevMap[id].Available,
                      elevMap[id].Endstation = elevMap[id].Floor
               PROVE  Distance(chosenElev) <= Distance(id)
    BY DEF ClosestIdleChosen
  <2>1. chosenElev \in Ids /\ Cost(chosenElev) <= Cost(id)
    BY ChosenIsCheapest
  <2>2. Cost(id) = Distance(id)
    BY StandingCost DEF LoopInv, TypeInv, Standing, Cost, Distance
  <2>3. QED
    BY <2>1, <2>2, DistancesAreNumbers
<1>2. QED
  BY <1>1, LoopInvHolds, PTL

\* For any number of elevators and floors, an idle elevator is not sent when one
\* no farther away passes the floor anyhow ("prioritize elevators already moving").
THEOREM MovingIsPrioritised == Spec => []MovingPrioritised
<1>1. LoopInv => MovingPrioritised
  <2> SUFFICES ASSUME LoopInv, Done, Standing(chosenElev), NEW id \in Ids,
                      elevMap[id].Available,
                      Approaches(order, elevMap[id]), SameWay(order, elevMap[id]),
                      ~ TurnsBefore(order, elevMap[id]),
                      Distance(id) <= Distance(chosenElev)
               PROVE  FALSE
    BY DEF MovingPrioritised
  <2>1. chosenElev \in Ids /\ Cost(chosenElev) <= Cost(id)
    BY ChosenIsCheapest
  <2>2. Cost(id) = Distance(id) - 1
    BY DEF Cost, Distance, CostFunction
  <2>3. QED
    BY <2>1, <2>2, DistancesAreNumbers
<1>2. QED
  BY <1>1, LoopInvHolds, PTL
=============================================================================
