---- MODULE HallSystemProofs ----
(***************************************************************************)
(* Type correctness and the hall lamps, for any number of elevators and    *)
(* slots, any costs and faults, and a network that loses, delays and       *)
(* reorders what it likes; and where nodes agree and no cabin stands still,*)
(* that no order is lost, and that lamps and files show the last reports.  *)
(***************************************************************************)
EXTENDS HallSystem, TLAPS

-----------------------------------------------------------------------------
(* The operations on a table.                                               *)

\* A confirmed order has an elevator, and a lamp shines for exactly these.
Taken(orders) == \A s \in Slots : orders[s].Confirmed => orders[s].ID # NoElev
LampsTell(tab) == \A s \in Slots : s \in tab.lamps <=> tab.orders[s].Confirmed

\* What every operation keeps.
Keeps(tab, new) ==
    /\ new \in TableType
    /\ Taken(tab.orders) => Taken(new.orders)
    /\ Taken(tab.orders) /\ LampsTell(tab) => LampsTell(new)

LEMMA ClearKeeps ==
    ASSUME NEW tab \in TableType, NEW S
    PROVE  Keeps(tab, ClearOrders(tab, S))
<1>1. Blank \in OrderType /\ ~ Blank.Confirmed
  BY DEF Blank, OrderType
<1>2. ClearOrders(tab, S) \in TableType
  BY <1>1 DEF ClearOrders, TableType
<1>3. QED
  BY <1>1, <1>2 DEF ClearOrders, TableType, Keeps, Taken, LampsTell

LEMMA ConfirmKeeps ==
    ASSUME NEW tab \in TableType, NEW id \in Elevs, NEW S \in SUBSET Slots
    PROVE  Keeps(tab, ConfirmOrders(tab, id, S))
<1>1. ConfirmOrders(tab, id, S) \in TableType
  BY DEF ConfirmOrders, TableType, OrderType
<1>2. ASSUME NEW s \in Slots
      PROVE  LET o == ConfirmOrders(tab, id, S).orders[s]
             IN  IF s \in S THEN o.ID = id /\ o.Confirmed ELSE o = tab.orders[s]
  BY DEF ConfirmOrders, TableType, OrderType
<1>3. ConfirmOrders(tab, id, S).lamps = tab.lamps \union S
  BY DEF ConfirmOrders
<1>4. QED
  BY <1>1, <1>2, <1>3, NoElevAssumption DEF Keeps, Taken, LampsTell

\* UpdateElevators clears some slots and confirms others.
LEMMA UpdateKeeps ==
    ASSUME NEW tab \in TableType, NEW id \in Elevs, NEW taken, NEW old
    PROVE  Keeps(tab, UpdateElevators(tab, id, taken, old))
<1>1. \A S \in SUBSET Slots : \A C :
          Keeps(tab, ConfirmOrders(ClearOrders(tab, C), id, S))
  <2>1. ASSUME NEW S \in SUBSET Slots, NEW C
        PROVE  /\ Keeps(tab, ClearOrders(tab, C))
               /\ Keeps(ClearOrders(tab, C), ConfirmOrders(ClearOrders(tab, C), id, S))
    BY ClearKeeps, ConfirmKeeps DEF Keeps
  <2>2. QED
    BY <2>1 DEF Keeps
<1>2. QED
  BY <1>1 DEF UpdateElevators

\* ChooseElevator gives a slot its elevator and leaves Confirmed and the lamp.
LEMMA ChooseKeeps ==
    ASSUME NEW tab \in TableType, NEW s \in Slots, NEW id \in Elevs
    PROVE  Keeps(tab, ChooseElevator(tab, s, id))
<1>1. ChooseElevator(tab, s, id) \in TableType
  BY DEF ChooseElevator, TableType, OrderType
<1>2. QED
  BY <1>1, NoElevAssumption
  DEF ChooseElevator, TableType, OrderType, Keeps, Taken, LampsTell

\* OnDisconnect clears.
LEMMA DisconnectKeeps ==
    ASSUME NEW tab \in TableType, NEW gone
    PROVE  Keeps(tab, OnDisconnect(tab, gone))
BY ClearKeeps DEF OnDisconnect

\* What Restart makes of the orders in a file.
Untimed(orders) == [s \in Slots |-> [orders[s] EXCEPT !.Timed = FALSE]]

LEMMA UntimedTypes ==
    ASSUME NEW orders \in [Slots -> OrderType]
    PROVE  /\ Untimed(orders) \in [Slots -> OrderType]
           /\ Taken(orders) => Taken(Untimed(orders))
BY DEF Untimed, OrderType, Taken

LEMMA NoOrdersTypes == NoOrders \in TableType /\ Taken(NoOrders.orders) /\ LampsTell(NoOrders)
BY DEF NoOrders, TableType, OrderType, Blank, Taken, LampsTell

-----------------------------------------------------------------------------
(* What an event does to the tables and to what is saved.                   *)

\* The tables of all nodes but n are left alone, that of n is kept good.
TableStep(n, tab) == Keeps(table[n], tab) /\ NewTable(n, tab)

\* A choice is an elevator.
LEMMA ChoicesAreElevs ==
    ASSUME TypeOK, NEW n \in Elevs, NEW s
    PROVE  Choices(n, s) \subseteq Elevs
BY DEF TypeOK, Choices, Cheapest

\* The saved file is the new table and elevator, or the old file.
LEMMA SaveTypes ==
    ASSUME TypeOK, NEW n \in Elevs, SaveToFile(n),
           table' \in [Elevs -> TableType], own' \in [Elevs -> SUBSET Slots],
           seen' \in [Elevs -> [Elevs -> SUBSET Slots]]
    PROVE  files' \in [Elevs -> File]
<1>1. OwnKnown(n)' \in SUBSET Slots
  BY DEF OwnKnown
<1>2. table'[n].orders \in [Slots -> OrderType] /\ (n \in avail'[n]) \in BOOLEAN
  BY DEF TableType
<1>3. [orders |-> table'[n].orders, own |-> OwnKnown(n)', up |-> n \in avail'[n]] \in File
  BY <1>1, <1>2 DEF File
<1>4. QED
  BY <1>3 DEF SaveToFile, TypeOK

-----------------------------------------------------------------------------
LEMMA TypeInit == Init => TypeOK
<1> SUFFICES ASSUME Init PROVE TypeOK
  OBVIOUS
<1>1. table \in [Elevs -> TableType] /\ NoOrders.orders \in [Slots -> OrderType]
  BY NoOrdersTypes DEF Init, TableType
<1>2. files \in [Elevs -> File]
  <2>1. \A n \in Elevs :
            [orders |-> NoOrders.orders, own |-> {}, up |-> n \in Heard] \in File
    BY <1>1 DEF File
  <2>2. QED
    BY <2>1 DEF Init
<1>3. resender \in [Elevs -> Resender]
  BY DEF Init, Resender, Idle
<1>4. QED
  BY <1>1, <1>2, <1>3, BoundsAssumption DEF Init, TypeOK

\* The two ways a broadcast and a loss change the copies on their way.
LEMMA BroadcastTypes ==
    ASSUME TypeOK, NEW n \in Elevs, NEW s \in Slots, BroadcastOrder(n, s)
    PROVE  orderNet' \in [Elevs -> [Slots -> Nat]]
<1>1. \A m \in Elevs : [orderNet[m] EXCEPT ![s] = @ + 1] \in [Slots -> Nat]
  BY DEF TypeOK
<1>2. QED
  BY <1>1 DEF TypeOK, BroadcastOrder

LEMMA OneCopyLess ==
    ASSUME TypeOK, NEW n \in Elevs, NEW s \in Slots, orderNet[n][s] > 0
    PROVE  [orderNet EXCEPT ![n][s] = @ - 1] \in [Elevs -> [Slots -> Nat]]
<1>1. orderNet[n] \in [Slots -> Nat] /\ orderNet[n][s] - 1 \in Nat
  BY DEF TypeOK
<1>2. [orderNet[n] EXCEPT ![s] = @ - 1] \in [Slots -> Nat]
  BY <1>1
<1>3. QED
  BY <1>2 DEF TypeOK

LEMMA FaultTypes ==
    ASSUME TypeOK, NEW k \in FaultKinds, Fault(k)
    PROVE  faults' \in [FaultKinds -> Nat] /\ waiting' = waiting /\ presses' = presses
BY DEF TypeOK, Fault

\* Every operation on a table leaves a table.
LEMMA NewTableTypes ==
    ASSUME TypeOK, NEW n \in Elevs, NEW tab \in TableType, NewTable(n, tab)
    PROVE  table' \in [Elevs -> TableType]
BY DEF TypeOK, NewTable

LEMMA WorldTypes ==
    ASSUME TypeOK, NEW n \in Elevs, World(n)
    PROVE  TypeOK'
<1> USE DEF FaultKinds
<1>1. ASSUME NEW s \in Slots, LoseOrder(n, s) PROVE TypeOK'
  <2>1. orderNet' \in [Elevs -> [Slots -> Nat]]
    BY <1>1, OneCopyLess DEF LoseOrder
  <2>2. QED
    BY <1>1, <2>1, FaultTypes DEF LoseOrder, TypeOK, handler, elevator, condition
<1>2. ASSUME NEW m \in Elevs, LoseStatus(m, n) PROVE TypeOK'
  <2>1. [statusNet[m] EXCEPT ![n] = {}] \in [Elevs -> SUBSET Status]
    BY DEF TypeOK
  <2>2. statusNet' \in [Elevs -> [Elevs -> SUBSET Status]]
    BY <1>2, <2>1 DEF LoseStatus, TypeOK
  <2>3. QED
    BY <1>2, <2>2, FaultTypes DEF LoseStatus, TypeOK, handler, elevator, condition
<1>3. ASSUME NothingFor(n)
      PROVE  /\ orderNet' \in [Elevs -> [Slots -> Nat]]
             /\ statusNet' \in [Elevs -> [Elevs -> SUBSET Status]]
             /\ UNCHANGED <<handler, resender, elevator, sent, lastSeen>>
  <2>1. \A m \in Elevs : [statusNet[m] EXCEPT ![n] = {}] \in [Elevs -> SUBSET Status]
    BY DEF TypeOK
  <2>2. QED
    BY <1>3, <2>1 DEF NothingFor, TypeOK
<1>4. CASE CutNetwork(n)
  BY <1>3, <1>4, FaultTypes DEF CutNetwork, TypeOK, handler, elevator
<1>5. CASE Crash(n)
  BY <1>3, <1>5, FaultTypes DEF Crash, TypeOK, handler, elevator
<1>6. CASE Reconnect(n)
  BY <1>6 DEF Reconnect, TypeOK, handler, elevator, network, history
<1>7. CASE GetStuck(n)
  BY <1>7, FaultTypes DEF GetStuck, TypeOK, handler, elevator, network
<1>8. CASE GetLoose(n)
  BY <1>8 DEF GetLoose, TypeOK, handler, elevator, network, history
<1>9. CASE Rest(n)
  BY <1>9, FaultTypes DEF Rest, TypeOK, handler, elevator, network
<1>10. QED
  BY <1>1, <1>2, <1>4, <1>5, <1>6, <1>7, <1>8, <1>9 DEF World

LEMMA HandlerTypes ==
    ASSUME TypeOK, NEW n \in Elevs, Handler(n)
    PROVE  TypeOK'
<1>1. ASSUME NEW s \in Slots, NewOrder(n, s) PROVE TypeOK'
  <2>1. PICK id \in Choices(n, s) :
            /\ NewTable(n, ChooseElevator(table[n], s, id))
            /\ own' = IF id = n THEN [own EXCEPT ![n] = @ \union {s}] ELSE own
    BY <1>1 DEF NewOrder
  <2>2. ChooseElevator(table[n], s, id) \in TableType
    BY <2>1, ChoicesAreElevs, ChooseKeeps DEF Keeps, TypeOK
  <2>3. table' \in [Elevs -> TableType] /\ own' \in [Elevs -> SUBSET Slots]
    BY <2>1, <2>2, NewTableTypes DEF TypeOK
  <2>4. orderNet' \in [Elevs -> [Slots -> Nat]]
    BY <1>1, OneCopyLess DEF NewOrder
  <2>5. late' \in [Elevs -> SUBSET Slots]
    BY <1>1 DEF NewOrder, TypeOK
  <2>6. files' \in [Elevs -> File]
    BY <1>1, <2>3, SaveTypes DEF NewOrder, TypeOK
  <2>7. QED
    BY <1>1, <2>3, <2>4, <2>5, <2>6 DEF NewOrder, TypeOK, condition, history
<1>2. ASSUME NEW s \in Slots, Expire(n, s) PROVE TypeOK'
  BY <1>2 DEF Expire, TypeOK, elevator, network, condition, history
<1>3. ASSUME NEW m \in Elevs, NewStatus(m, n) PROVE TypeOK'
  <2>1. PICK status \in statusNet[m][n] :
          /\ NewTable(n, UpdateElevators(table[n], m, status.own, late[n]))
          /\ outbox' = [outbox EXCEPT ![n] =
                          UpdateResends(table[n], m, status.own, late[n])]
          /\ seen' = [seen EXCEPT ![n][m] = status.own]
          /\ avail' = [avail EXCEPT ![n] = IF status.up THEN @ \union {m} ELSE @ \ {m}]
    BY <1>3 DEF NewStatus
  <2>2. status.own \in SUBSET Slots
    BY <2>1 DEF TypeOK, Status
  <2>3. table' \in [Elevs -> TableType]
    BY <2>1, UpdateKeeps, NewTableTypes DEF Keeps, TypeOK
  <2>4. outbox' \in [Elevs -> SUBSET Slots]
    BY <2>1 DEF TypeOK, UpdateResends
  <2>5. [seen[n] EXCEPT ![m] = status.own] \in [Elevs -> SUBSET Slots]
    BY <2>2 DEF TypeOK
  <2>6. seen' \in [Elevs -> [Elevs -> SUBSET Slots]] /\ avail' \in [Elevs -> SUBSET Elevs]
    BY <2>1, <2>5 DEF TypeOK
  <2>7. files' \in [Elevs -> File]
    BY <1>3, <2>3, <2>6, SaveTypes DEF NewStatus, TypeOK
  <2>8. [statusNet[m] EXCEPT ![n] = {}] \in [Elevs -> SUBSET Status]
    BY DEF TypeOK
  <2>9. statusNet' \in [Elevs -> [Elevs -> SUBSET Status]]
    BY <1>3, <2>8 DEF NewStatus, TypeOK
  <2>10. QED
    BY <1>3, <2>3, <2>4, <2>6, <2>7, <2>9 DEF NewStatus, TypeOK, condition, history
<1>4. ASSUME NEW gone, Disconnected(n, gone),
             lastSeen' \in [Elevs -> SUBSET Elevs], up' \subseteq Elevs,
             waiting' \in SUBSET Slots, presses' \in Nat, faults' \in [FaultKinds -> Nat]
      PROVE  TypeOK'
  <2>1. table' \in [Elevs -> TableType]
    BY <1>4, DisconnectKeeps, NewTableTypes DEF Disconnected, Keeps, TypeOK
  <2>2. outbox' \in [Elevs -> SUBSET Slots] /\ avail' \in [Elevs -> SUBSET Elevs]
    BY <1>4 DEF Disconnected, OrdersOf, TypeOK
  <2>3. files' \in [Elevs -> File]
    BY <1>4, <2>1, SaveTypes DEF Disconnected, TypeOK
  <2>4. QED
    BY <1>4, <2>1, <2>2, <2>3 DEF Disconnected, TypeOK, condition
<1>5. CASE LostPeers(n)
  <2>1. PICK gone : /\ Disconnected(n, gone)
                    /\ lastSeen' = [lastSeen EXCEPT ![n] = @ \ gone]
                    /\ UNCHANGED <<up, history>>
    BY <1>5 DEF LostPeers
  <2>2. lastSeen' \in [Elevs -> SUBSET Elevs]
    BY <2>1 DEF TypeOK
  <2>3. QED
    BY <1>4, <2>1, <2>2 DEF TypeOK, history
<1>6. ASSUME NEW m \in Elevs, TimeOut(n, m) PROVE TypeOK'
  BY <1>4, <1>6 DEF TimeOut, OnTimeout, TypeOK, history
<1>7. ASSUME NEW m \in Elevs, RestTimeOut(n, m) PROVE TypeOK'
  BY <1>4, <1>7, FaultTypes DEF RestTimeOut, OnTimeout, TypeOK, FaultKinds
<1>8. CASE CabTimeOut(n)
  BY <1>4, <1>8, FaultTypes DEF CabTimeOut, OnTimeout, TypeOK, FaultKinds
<1>9. QED
  BY <1>1, <1>2, <1>3, <1>5, <1>6, <1>7, <1>8 DEF Handler

LEMMA ResendingTypes ==
    ASSUME TypeOK, NEW n \in Elevs, Resending(n)
    PROVE  TypeOK'
<1>1. CASE TakeResend(n)
  <2>1. PICK s \in First(outbox[n]) :
            /\ resender' = [resender EXCEPT ![n] = <<"orderRemove", s>>]
            /\ outbox' = [outbox EXCEPT ![n] = @ \ {s}]
    BY <1>1 DEF TakeResend
  <2>2. s \in Slots
    BY <2>1 DEF First, TypeOK
  <2>3. resender' \in [Elevs -> Resender] /\ outbox' \in [Elevs -> SUBSET Slots]
    BY <2>1, <2>2 DEF TypeOK, Resender
  <2>4. files' \in [Elevs -> File]
    BY <1>1, SaveTypes DEF TakeResend, TypeOK, elevator
  <2>5. QED
    BY <1>1, <2>3, <2>4 DEF TakeResend, TypeOK, elevator, network, condition, history
<1>2. CASE RemoveFromElev(n)
  <2>1. PICK s \in Slots : /\ own' = [own EXCEPT ![n] = @ \ {s}]
                           /\ resender' = [resender EXCEPT ![n] = <<"orderFromElev", s>>]
    BY <1>2 DEF RemoveFromElev
  <2>2. own' \in [Elevs -> SUBSET Slots] /\ resender' \in [Elevs -> Resender]
    BY <2>1 DEF TypeOK, Resender
  <2>3. QED
    BY <1>2, <2>2 DEF RemoveFromElev, TypeOK, handler, network, condition, history
<1>3. CASE ResendToNetwork(n)
  <2>1. PICK s \in Slots : BroadcastOrder(n, s) /\ resender' = [resender EXCEPT ![n] = Idle]
    BY <1>3 DEF ResendToNetwork
  <2>2. orderNet' \in [Elevs -> [Slots -> Nat]] /\ resender' \in [Elevs -> Resender]
    BY <2>1, BroadcastTypes DEF TypeOK, Resender
  <2>3. QED
    BY <1>3, <2>2 DEF ResendToNetwork, TypeOK, handler, elevator, condition, history
<1>4. QED
  BY <1>1, <1>2, <1>3 DEF Resending

LEMMA ElevatorTypes ==
    ASSUME TypeOK, NEW n \in Elevs, Elevator(n)
    PROVE  TypeOK'
<1>1. CASE SendStatus(n)
  <2>1. [own |-> own[n], up |-> n \in up] \in Status
    BY DEF TypeOK, Status
  <2>2. [m \in Elevs |-> IF m \in Reached(n) THEN {[own |-> own[n], up |-> n \in up]}
                                             ELSE statusNet[n][m]] \in [Elevs -> SUBSET Status]
    BY <2>1 DEF TypeOK
  <2>3. statusNet' \in [Elevs -> [Elevs -> SUBSET Status]] /\ sent' \subseteq Elevs
    BY <1>1, <2>2 DEF SendStatus, TypeOK
  <2>4. QED
    BY <1>1, <2>3 DEF SendStatus, TypeOK, handler, elevator, condition, history
<1>2. CASE ReachFloor(n)
  BY <1>2 DEF ReachFloor, TypeOK, handler, network, condition, history
<1>3. ASSUME NEW s \in Slots, Serve(n, s) PROVE TypeOK'
  BY <1>3 DEF Serve, TypeOK, handler, network, condition
<1>4. ASSUME NEW s \in Slots, PressButton(n, s) PROVE TypeOK'
  <2>1. orderNet' \in [Elevs -> [Slots -> Nat]]
    BY <1>4, BroadcastTypes DEF PressButton
  <2>2. QED
    BY <1>4, <2>1 DEF PressButton, TypeOK, handler, elevator, condition
<1>5. CASE CloseDoor(n)
  BY <1>5 DEF CloseDoor, TypeOK, handler, network, condition, history
<1>6. QED
  BY <1>1, <1>2, <1>3, <1>4, <1>5 DEF Elevator

\* LoadFromFile finds what SaveToFile left.
LEMMA RestartTypes ==
    ASSUME TypeOK, NEW n \in Elevs, Restart(n)
    PROVE  TypeOK'
<1>1. files[n] \in File
  BY DEF TypeOK
<1>2. [orders |-> Untimed(files[n].orders), lamps |-> files[n].own] \in TableType
  BY <1>1, UntimedTypes DEF File, TableType
<1>3. table' \in [Elevs -> TableType]
  BY <1>2, NewTableTypes DEF Restart, Untimed
<1>4. [m \in Elevs |-> {s \in files[n].own : m = n}] \in [Elevs -> SUBSET Slots]
  BY <1>1 DEF File
<1>5. /\ seen' \in [Elevs -> [Elevs -> SUBSET Slots]]
      /\ own' \in [Elevs -> SUBSET Slots]
      /\ avail' \in [Elevs -> SUBSET Elevs]
  BY <1>1, <1>4 DEF Restart, TypeOK, File
<1>6. resender' \in [Elevs -> Resender]
  BY DEF Restart, TypeOK, Resender
<1>7. QED
  BY <1>3, <1>5, <1>6 DEF Restart, TypeOK, history

LEMMA TypeNext == TypeOK /\ [Next]_vars => TypeOK'
<1> SUFFICES ASSUME TypeOK, [Next]_vars PROVE TypeOK'
  OBVIOUS
<1>1. CASE Next
  BY <1>1, WorldTypes, HandlerTypes, ResendingTypes, ElevatorTypes, RestartTypes DEF Next
<1>2. CASE UNCHANGED vars
  BY <1>2 DEF vars, TypeOK, handler, elevator, network, condition, history
<1>3. QED
  BY <1>1, <1>2

\* Every record stays of its type: no handler gives an order to what is not an
\* elevator, no copy is taken that is not there, and the files hold what
\* LoadFromFile expects.
THEOREM TypeCorrect == Spec => []TypeOK
BY TypeInit, TypeNext, PTL DEF Spec

-----------------------------------------------------------------------------
(* The lamps.                                                               *)

\* Confirmed orders have an elevator in the tables and in the files they are
\* loaded from; and the lamps tell the table, until a restart.
LampInv ==
    /\ \A n \in Elevs : Taken(table[n].orders) /\ Taken(files[n].orders)
    /\ \A n \in Elevs \ restarted : LampsTell(table[n])

LEMMA LampInvInit == Init => LampInv
BY NoOrdersTypes DEF Init, LampInv

\* An event at n that keeps its table, and saves it or not.
LEMMA EventKeepsLampInv ==
    ASSUME TypeOK, LampInv, NEW n \in Elevs, NEW tab,
           Keeps(table[n], tab), NewTable(n, tab), SaveToFile(n), restarted' = restarted
    PROVE  LampInv'
<1>1. table' = [table EXCEPT ![n] = tab] /\ table \in [Elevs -> TableType]
  BY DEF NewTable, TypeOK
<1>2. \A m \in Elevs : Taken(table'[m].orders)
  BY <1>1 DEF LampInv, Keeps
<1>3. \A m \in Elevs \ restarted : LampsTell(table'[m])
  BY <1>1 DEF LampInv, Keeps
<1>4. \A m \in Elevs : Taken(files'[m].orders)
  <2>1. CASE files' = files
    BY <2>1 DEF LampInv
  <2>2. CASE files' # files
    BY <1>2, <2>2 DEF SaveToFile, LampInv, TypeOK
  <2>3. QED
    BY <2>1, <2>2
<1>5. QED
  BY <1>2, <1>3, <1>4 DEF LampInv

LEMMA LampInvNext == TypeOK /\ LampInv /\ [Next]_vars => LampInv'
<1> SUFFICES ASSUME TypeOK, LampInv, [Next]_vars PROVE LampInv'
  OBVIOUS
<1>1. ASSUME NEW n \in Elevs, NEW s \in Slots, NewOrder(n, s) PROVE LampInv'
  <2>1. PICK id \in Choices(n, s) : NewTable(n, ChooseElevator(table[n], s, id))
    BY <1>1 DEF NewOrder
  <2>2. Keeps(table[n], ChooseElevator(table[n], s, id))
    BY <2>1, ChoicesAreElevs, ChooseKeeps DEF TypeOK
  <2>3. QED
    BY <1>1, <2>1, <2>2, EventKeepsLampInv DEF NewOrder, condition
<1>2. ASSUME NEW m \in Elevs, NEW n \in Elevs, NewStatus(m, n) PROVE LampInv'
  <2>1. PICK status \in statusNet[m][n] :
            NewTable(n, UpdateElevators(table[n], m, status.own, late[n]))
    BY <1>2 DEF NewStatus
  <2>2. QED
    BY <1>2, <2>1, UpdateKeeps, EventKeepsLampInv DEF NewStatus, condition, TypeOK
<1>3. ASSUME NEW n \in Elevs, NEW gone, Disconnected(n, gone) PROVE LampInv'
  BY <1>3, DisconnectKeeps, EventKeepsLampInv DEF Disconnected, condition, TypeOK
<1>4. ASSUME NEW n \in Elevs, TakeResend(n) PROVE LampInv'
  <2>1. \A m \in Elevs : Taken(files'[m].orders)
    <3>1. CASE files' = files
      BY <3>1 DEF LampInv
    <3>2. CASE files' # files
      BY <1>4, <3>2 DEF TakeResend, SaveToFile, LampInv, TypeOK
    <3>3. QED
      BY <3>1, <3>2
  <2>2. QED
    BY <1>4, <2>1 DEF TakeResend, LampInv, condition
<1>5. ASSUME NEW n \in Elevs, Restart(n) PROVE LampInv'
  <2>1. Taken(files[n].orders) /\ restarted' = restarted \union {n} /\ files' = files
    BY <1>5 DEF Restart, LampInv
  <2>2. table' = [table EXCEPT ![n] = [orders |-> Untimed(files[n].orders), lamps |-> files[n].own]]
    BY <1>5 DEF Restart, NewTable, Untimed
  <2>3. Taken(Untimed(files[n].orders))
    BY <2>1, UntimedTypes DEF TypeOK, File
  <2>4. QED
    BY <2>1, <2>2, <2>3 DEF LampInv, TypeOK
<1>6. ASSUME NEW n \in Elevs,
             \/ World(n) \/ RemoveFromElev(n) \/ ResendToNetwork(n) \/ Elevator(n)
             \/ \E s \in Slots : Expire(n, s)
      PROVE  LampInv'
  <2>1. table' = table /\ files' = files /\ restarted' = restarted
    BY <1>6
    DEF World, LoseOrder, LoseStatus, CutNetwork, Reconnect, GetStuck, GetLoose, Rest,
        Crash, NothingFor, RemoveFromElev, ResendToNetwork, Elevator, SendStatus,
        ReachFloor, CloseDoor, Serve, PressButton, Expire, handler, condition
  <2>2. QED
    BY <2>1 DEF LampInv
<1>7. CASE UNCHANGED vars
  BY <1>7 DEF vars, handler, condition, LampInv
<1>8. ASSUME NEW n \in Elevs, Handler(n) PROVE LampInv'
  BY <1>1, <1>2, <1>3, <1>6, <1>8
  DEF Handler, LostPeers, TimeOut, RestTimeOut, CabTimeOut, OnTimeout
<1>9. QED
  BY <1>4, <1>5, <1>6, <1>7, <1>8 DEF Next, Resending

\* On every node the lamp of a hall button is lit exactly while its order is
\* confirmed, and a confirmed order has an elevator: ConfirmOrder, ClearOrder,
\* OnDisconnect and ChooseElevator change the two fields and the lamp each in
\* their own way, on events of any node, and a restart loads what was saved.
THEOREM LampsAreTruthful == Spec => []LampMeansTaken
<1>1. LampInv => LampMeansTaken
  BY DEF LampInv, Taken, LampsTell, LampMeansTaken
<1>2. QED
  BY <1>1, TypeInit, TypeNext, LampInvInit, LampInvNext, PTL DEF Spec

-----------------------------------------------------------------------------
(* Lit orders are saved, where an order keeps its elevator: the costs       *)
(* agree, every elevator is known from the start, nothing fails but that    *)
(* messages are lost, and no elevator rests for 20 s.  Otherwise            *)
(* ChooseElevator may hand a confirmed order over to an elevator that has   *)
(* not saved it yet.                                                        *)

SteadyChoice ==
    /\ CostsAgree /\ Heard = Elevs
    /\ \A most \in FaultBounds : \A k \in FaultKinds \ {"lost"} : most[k] = 0

\* The orders every node gives to elevator n.
Mine(n) == {s \in Slots : n \in Cheapest(s, Elevs)}

\* Nodes run, hear each other and can move their cabins;
SteadyNodes ==
    /\ \A k \in FaultKinds \ {"lost"} : faults[k] = 0
    /\ cut = {} /\ dead = {} /\ stuck = {} /\ fresh = {} /\ up = Elevs
    /\ rested = {} /\ restarted = {}
\* every node thinks so;
SteadyAvail == \A n \in Elevs : avail[n] = Elevs
\* nobody has, or tells of, an order that is another's to serve;
SteadyOwn == \A n \in Elevs : own[n] \subseteq Mine(n)
SteadyStatus ==
    \A m, n \in Elevs : \A status \in statusNet[m][n] :
        status.up /\ status.own \subseteq Mine(m)
\* and no table gives an order to another.
SteadyTable ==
    \A n \in Elevs : \A s \in Slots :
        table[n].orders[s].ID \in {NoElev} \union Cheapest(s, Elevs)

SteadyInv == SteadyNodes /\ SteadyAvail /\ SteadyOwn /\ SteadyStatus /\ SteadyTable

\* The order is confirmed for elevator m.
Has(o, m) == o.ID = m /\ o.Confirmed

\* A table has an order confirmed exactly for the elevator that reported it last.
ReportedInv ==
    \A n, m \in Elevs : \A s \in Slots :
        s \in seen[n][m] <=> Has(table[n].orders[s], m)

\* What a node has saved of its elevator is what its own status told last.
SavedInv == \A n \in Elevs : outbox[n] = {} => files[n].own = seen[n][n]

\* There is one cheapest elevator of all.
LEMMA CheapestIsOne ==
    ASSUME NEW s \in Slots, NEW m \in Cheapest(s, Elevs), NEW n \in Cheapest(s, Elevs)
    PROVE  m = n
<1>1. \A e \in Cheapest(s, Elevs) : e = Preferred[s][1]
  <2> SUFFICES ASSUME NEW e \in Elevs, NEW i \in DOMAIN Preferred[s],
                      Preferred[s][i] = e,
                      \A j \in 1 .. (i - 1) : Preferred[s][j] \notin Elevs
               PROVE  e = Preferred[s][1]
    BY DEF Cheapest
  <2>1. Preferred[s] \in Seq(Elevs)
    BY PreferredAssumption
  <2>2. i \in 1 .. Len(Preferred[s]) /\ Len(Preferred[s]) \in Nat
    BY <2>1
  <2>3. CASE i = 1
    BY <2>3
  <2>4. CASE i # 1
    <3>1. 1 \in 1 .. (i - 1) /\ 1 \in 1 .. Len(Preferred[s])
      BY <2>2, <2>4
    <3>2. Preferred[s][1] \in Elevs
      BY <2>1, <3>1
    <3>3. QED
      BY <3>1, <3>2
  <2>5. QED
    BY <2>3, <2>4
<1>2. QED
  BY <1>1

\* What UpdateElevators leaves in a slot.
LEMMA UpdatedSlot ==
    ASSUME NEW tab \in TableType, NEW id \in Elevs, NEW taken, NEW old, NEW s \in Slots
    PROVE  LET o == UpdateElevators(tab, id, taken, old).orders[s]
           IN  \/ Has(o, id) /\ s \in taken
              \/ o = Blank
              \/ /\ o = tab.orders[s]
                 /\ Has(o, id) => s \in taken
<1> DEFINE C == {r \in Slots : Clears(tab.orders[r], id, r \in taken, r \in old)}
           S == {r \in Slots : Confirms(tab.orders[r], id, r \in taken)}
           t == ClearOrders(tab, C)
<1>1. UpdateElevators(tab, id, taken, old).orders[s] =
          IF s \in S THEN [t.orders[s] EXCEPT !.ID = id, !.Confirmed = TRUE] ELSE t.orders[s]
  BY DEF UpdateElevators, ConfirmOrders
<1>2. t.orders[s] = IF s \in C THEN Blank ELSE tab.orders[s]
  BY DEF ClearOrders
<1>3. t.orders[s] \in OrderType
  BY ClearKeeps DEF Keeps, TableType
<1>4. s \in S => s \in taken
  BY DEF Confirms, Claimed, Unlisted
<1>5. s \notin C /\ Has(tab.orders[s], id) => s \in taken
  BY DEF Clears, Finished, Has
<1>6. CASE s \in S
  BY <1>1, <1>3, <1>4, <1>6 DEF OrderType, Has
<1>7. CASE s \notin S
  BY <1>1, <1>2, <1>5, <1>7
<1>8. QED
  BY <1>6, <1>7

\* What a status leaves in a slot its sender may have.
LEMMA ReportedSlot ==
    ASSUME NEW tab \in TableType, NEW id \in Elevs, NEW taken, NEW old, NEW s \in Slots
    PROVE  LET o == UpdateElevators(tab, id, taken, old).orders[s]
           IN  /\ s \in taken /\ tab.orders[s].ID \in {id, NoElev} => Has(o, id)
               /\ s \notin taken /\ tab.orders[s].ID # id => o = tab.orders[s]
<1> DEFINE C == {r \in Slots : Clears(tab.orders[r], id, r \in taken, r \in old)}
           S == {r \in Slots : Confirms(tab.orders[r], id, r \in taken)}
           t == ClearOrders(tab, C)
<1>1. UpdateElevators(tab, id, taken, old).orders[s] =
          IF s \in S THEN [t.orders[s] EXCEPT !.ID = id, !.Confirmed = TRUE] ELSE t.orders[s]
  BY DEF UpdateElevators, ConfirmOrders
<1>2. t.orders[s] = IF s \in C THEN Blank ELSE tab.orders[s]
  BY DEF ClearOrders
<1>3. t.orders[s] \in OrderType /\ tab.orders[s] \in OrderType
  BY ClearKeeps DEF Keeps, TableType
<1>4. s \in taken /\ tab.orders[s].ID \in {id, NoElev} =>
          s \in S \/ (s \notin C /\ Has(tab.orders[s], id))
  BY <1>3, NoElevAssumption
  DEF OrderType, Confirms, Claimed, Unlisted, Clears, Finished, Resends, Unclaimed, Contested, Has
<1>5. s \notin taken /\ tab.orders[s].ID # id => s \notin S /\ s \notin C
  BY DEF Confirms, Claimed, Unlisted, Clears, Finished, Resends, Unclaimed, Contested
<1>6. s \in S => Has(UpdateElevators(tab, id, taken, old).orders[s], id)
  BY <1>1, <1>3 DEF OrderType, Has
<1>7. s \notin S /\ s \notin C => UpdateElevators(tab, id, taken, old).orders[s] = tab.orders[s]
  BY <1>1, <1>2
<1>8. QED
  BY <1>4, <1>5, <1>6, <1>7

\* With nothing but losses, every node chooses the cheapest elevator, and no
\* peer is ever lost, timed out, stopped or started again.
LEMMA SteadyMeans ==
    ASSUME SteadyChoice, TypeOK, SteadyInv
    PROVE  /\ \A n \in Elevs, s \in Slots : Choices(n, s) = Cheapest(s, Elevs)
           /\ \A n \in Elevs : Missing(n) = {}
           /\ \A k \in FaultKinds \ {"lost"} : ~ Fault(k)
<1>1. ASSUME NEW n \in Elevs, NEW s \in Slots PROVE Choices(n, s) = Cheapest(s, Elevs)
  BY DEF SteadyChoice, SteadyInv, SteadyAvail, Choices
<1>2. \A n \in Elevs : Missing(n) = {}
  BY DEF SteadyInv, SteadyNodes, Missing
<1>3. ASSUME NEW k \in FaultKinds \ {"lost"} PROVE ~ Fault(k)
  <2>1. faults[k] = 0
    BY DEF SteadyInv, SteadyNodes
  <2>2. Fault(k) => faults'[k] = 1
    BY <2>1 DEF Fault, TypeOK
  <2>3. \A most \in FaultBounds : most[k] = 0
    BY DEF SteadyChoice
  <2>4. QED
    BY <2>2, <2>3 DEF Fault
<1>4. QED
  BY <1>1, <1>2, <1>3

LEMMA SteadyEvents ==
    ASSUME SteadyChoice, TypeOK, SteadyInv, NEW n \in Elevs
    PROVE  /\ ~ CutNetwork(n) /\ ~ Reconnect(n) /\ ~ GetStuck(n) /\ ~ GetLoose(n)
           /\ ~ Rest(n) /\ ~ ReachFloor(n) /\ ~ CloseDoor(n)
           /\ ~ Crash(n) /\ ~ Restart(n) /\ ~ LostPeers(n) /\ ~ CabTimeOut(n)
           /\ \A m \in Elevs : ~ TimeOut(n, m) /\ ~ RestTimeOut(n, m)
<1>1. ~ CutNetwork(n) /\ ~ GetStuck(n) /\ ~ Rest(n) /\ ~ Crash(n) /\ ~ CabTimeOut(n)
  BY SteadyMeans DEF FaultKinds, CutNetwork, GetStuck, Rest, Crash, CabTimeOut
<1>2. /\ ~ Reconnect(n) /\ ~ GetLoose(n) /\ ~ Restart(n)
      /\ ~ ReachFloor(n) /\ ~ CloseDoor(n)
  BY DEF SteadyInv, SteadyNodes, Reconnect, GetLoose, Restart, ReachFloor, CloseDoor
<1>3. ~ LostPeers(n)
  <2>1. lastSeen[n] \cap Missing(n) = {}
    BY SteadyMeans
  <2>2. (SUBSET (lastSeen[n] \cap Missing(n))) \ {{}} = {}
    BY <2>1
  <2>3. QED
    BY <2>2 DEF LostPeers
<1>4. \A m \in Elevs : ~ TimeOut(n, m) /\ ~ RestTimeOut(n, m)
  BY SteadyMeans DEF SteadyInv, SteadyNodes, TimeOut, RestTimeOut
<1>5. QED
  BY <1>1, <1>2, <1>3, <1>4

LEMMA SteadyInit == ASSUME SteadyChoice PROVE Init => SteadyInv
<1> SUFFICES ASSUME Init PROVE SteadyInv
  OBVIOUS
<1>1. \A n \in Elevs : \A s \in Slots : table[n].orders[s] = Blank
  BY DEF Init, NoOrders
<1>2. QED
  BY <1>1 DEF Init, SteadyInv, SteadyNodes, SteadyAvail, SteadyOwn, SteadyStatus, SteadyTable,
      SteadyChoice, Blank, FaultKinds

LEMMA SteadyNewOrder ==
    ASSUME SteadyChoice, TypeOK, SteadyInv, NEW n \in Elevs, NEW s \in Slots, NewOrder(n, s)
    PROVE  SteadyInv'
<1>1. PICK id \in Cheapest(s, Elevs) :
          /\ NewTable(n, ChooseElevator(table[n], s, id))
          /\ own' = IF id = n THEN [own EXCEPT ![n] = @ \union {s}] ELSE own
  BY SteadyMeans DEF NewOrder
<1>2. SteadyNodes' /\ SteadyAvail' /\ SteadyStatus'
  BY DEF SteadyInv, NewOrder, SteadyNodes, SteadyAvail, SteadyStatus, condition, history
<1>3. SteadyOwn'
  <2>1. \A m \in Elevs : own'[m] \subseteq own[m] \union {r \in {s} : m = id}
    BY <1>1 DEF TypeOK
  <2>2. \A m \in Elevs : m = id => s \in Mine(m)
    BY <1>1 DEF Mine
  <2>3. QED
    BY <2>1, <2>2 DEF SteadyInv, SteadyOwn
<1>4. SteadyTable'
  <2>1. table[n] \in TableType
    BY DEF TypeOK
  <2>2. \A r \in Slots : ChooseElevator(table[n], s, id).orders[r].ID =
                            IF r = s THEN id ELSE table[n].orders[r].ID
    BY <2>1 DEF ChooseElevator, TableType, OrderType
  <2>3. \A m \in Elevs : table'[m] = IF m = n THEN ChooseElevator(table[n], s, id) ELSE table[m]
    BY <1>1 DEF NewTable, TypeOK
  <2>4. QED
    BY <1>1, <2>2, <2>3 DEF SteadyInv, SteadyTable
<1>5. QED
  BY <1>2, <1>3, <1>4 DEF SteadyInv

LEMMA SteadyNewStatus ==
    ASSUME TypeOK, SteadyInv, NEW m \in Elevs, NEW n \in Elevs, NewStatus(m, n)
    PROVE  SteadyInv'
<1>1. PICK status \in statusNet[m][n] :
          /\ NewTable(n, UpdateElevators(table[n], m, status.own, late[n]))
          /\ avail' = [avail EXCEPT ![n] = IF status.up THEN @ \union {m} ELSE @ \ {m}]
  BY DEF NewStatus
<1>2. status.up /\ status.own \subseteq Mine(m)
  BY <1>1 DEF SteadyInv, SteadyStatus
<1>3. SteadyNodes'
  BY DEF SteadyInv, NewStatus, SteadyNodes, condition, history
<1>4. SteadyAvail'
  BY <1>1, <1>2 DEF SteadyInv, SteadyAvail, TypeOK
<1>5. SteadyOwn'
  BY DEF SteadyInv, NewStatus, SteadyOwn
<1>6. SteadyStatus'
  <2>1. \A k, l \in Elevs : statusNet'[k][l] \subseteq statusNet[k][l]
    BY DEF NewStatus, TypeOK
  <2>2. QED
    BY <2>1 DEF SteadyInv, SteadyStatus
<1>7. SteadyTable'
  <2>1. table[n] \in TableType
    BY DEF TypeOK
  <2>2. ASSUME NEW r \in Slots
        PROVE  UpdateElevators(table[n], m, status.own, late[n]).orders[r].ID
                   \in {NoElev} \union Cheapest(r, Elevs)
    <3>1. table[n].orders[r].ID \in {NoElev} \union Cheapest(r, Elevs)
      BY DEF SteadyInv, SteadyTable
    <3>2. r \in status.own => m \in Cheapest(r, Elevs)
      BY <1>2 DEF Mine
    <3> DEFINE o == UpdateElevators(table[n], m, status.own, late[n]).orders[r]
    <3>3. \/ Has(o, m) /\ r \in status.own
          \/ o = Blank
          \/ o = table[n].orders[r]
      BY <2>1, UpdatedSlot
    <3>4. QED
      BY <3>1, <3>2, <3>3 DEF Blank, Has
  <2>3. \A k \in Elevs : table'[k] =
            IF k = n THEN UpdateElevators(table[n], m, status.own, late[n]) ELSE table[k]
    BY <1>1 DEF NewTable, TypeOK
  <2>4. QED
    BY <2>2, <2>3 DEF SteadyInv, SteadyTable
<1>8. QED
  BY <1>3, <1>4, <1>5, <1>6, <1>7 DEF SteadyInv

\* The steps that change no table, no knowledge and no condition: they send,
\* lose or drop, and an elevator has fewer orders after them.
LEMMA SteadyOthers ==
    ASSUME TypeOK, SteadyInv, NEW n \in Elevs,
           \/ \E s \in Slots : LoseOrder(n, s) \/ Expire(n, s)
           \/ \E m \in Elevs : LoseStatus(m, n)
           \/ Resending(n) \/ Elevator(n)
    PROVE  SteadyInv'
<1>1. SteadyTable' /\ SteadyAvail'
  <2>1. table' = table /\ avail' = avail
    BY DEF LoseOrder, Expire, LoseStatus, Resending, TakeResend, RemoveFromElev,
           ResendToNetwork, Elevator, SendStatus, ReachFloor, CloseDoor, Serve,
           PressButton, handler
  <2>2. QED
    BY <2>1 DEF SteadyInv, SteadyTable, SteadyAvail
<1>2. SteadyNodes'
  <2>1. /\ UNCHANGED <<cut, dead, stuck, restarted, fresh>>
        /\ rested' = rested \/ rested' = rested \ {n}
        /\ up' = up \/ up' = up \union {n}
        /\ faults' = faults \/ faults' = [faults EXCEPT !["lost"] = @ + 1]
    BY DEF LoseOrder, Expire, LoseStatus, Resending, TakeResend, RemoveFromElev, Fault,
           ResendToNetwork, Elevator, SendStatus, ReachFloor, CloseDoor, Serve, PressButton,
           elevator, condition, history
  <2>2. \A k \in FaultKinds \ {"lost"} : faults'[k] = faults[k]
    BY <2>1 DEF TypeOK
  <2>3. up' = Elevs
    BY <2>1 DEF SteadyInv, SteadyNodes
  <2>4. rested' = {}
    BY <2>1 DEF SteadyInv, SteadyNodes
  <2>5. QED
    BY <2>1, <2>2, <2>3, <2>4 DEF SteadyInv, SteadyNodes
<1>3. SteadyOwn'
  <2>1. own' = own \/ \E s : own' = [own EXCEPT ![n] = @ \ {s}]
    BY DEF LoseOrder, Expire, LoseStatus, Resending, TakeResend, RemoveFromElev,
           ResendToNetwork, Elevator, SendStatus, ReachFloor, CloseDoor, Serve,
           PressButton, elevator
  <2>2. QED
    <3>1. \A m \in Elevs : own'[m] \subseteq own[m]
      <4>1. CASE own' = own
        BY <4>1
      <4>2. ASSUME NEW s, own' = [own EXCEPT ![n] = @ \ {s}]
            PROVE  \A m \in Elevs : own'[m] \subseteq own[m]
        BY <4>2 DEF TypeOK
      <4>3. QED
        BY <2>1, <4>1, <4>2
    <3>2. QED
      BY <3>1 DEF SteadyInv, SteadyOwn
<1>4. SteadyStatus'
  <2>1. \/ \E m : statusNet' \in {statusNet, [statusNet EXCEPT ![m][n] = {}]}
        \/ SendStatus(n)
    BY DEF LoseOrder, Expire, LoseStatus, Resending, TakeResend, RemoveFromElev,
           ResendToNetwork, Elevator, ReachFloor, CloseDoor, Serve, PressButton, network
  <2>2. CASE SendStatus(n)
    <3>1. \A m, l \in Elevs : statusNet'[m][l] \subseteq
              statusNet[m][l] \union {st \in {[own |-> own[n], up |-> n \in up]} : m = n}
      BY <2>2 DEF SendStatus, TypeOK
    <3>2. n \in up /\ own[n] \subseteq Mine(n)
      BY DEF SteadyInv, SteadyNodes, SteadyOwn
    <3>3. ASSUME NEW k \in Elevs, NEW l \in Elevs, NEW status \in statusNet'[k][l]
          PROVE  status.up /\ status.own \subseteq Mine(k)
      <4>1. CASE status \in statusNet[k][l]
        BY <4>1 DEF SteadyInv, SteadyStatus
      <4>2. CASE status = [own |-> own[n], up |-> n \in up] /\ k = n
        BY <3>2, <4>2
      <4>3. QED
        BY <3>1, <3>3, <4>1, <4>2
    <3>4. QED
      BY <3>3 DEF SteadyStatus
  <2>3. ASSUME NEW m, statusNet' \in {statusNet, [statusNet EXCEPT ![m][n] = {}]}
        PROVE  \A k, l \in Elevs : statusNet'[k][l] \subseteq statusNet[k][l]
    <3>1. CASE statusNet' = statusNet
      BY <3>1
    <3>2. CASE statusNet' = [statusNet EXCEPT ![m][n] = {}]
      <4>1. ASSUME NEW k \in Elevs, NEW l \in Elevs
            PROVE  statusNet'[k][l] = statusNet[k][l] \/ statusNet'[k][l] = {}
        BY <3>2 DEF TypeOK
      <4>2. QED
        BY <4>1
    <3>3. QED
      BY <2>3, <3>1, <3>2
  <2>4. CASE \A m, l \in Elevs : statusNet'[m][l] \subseteq statusNet[m][l]
    BY <2>4 DEF SteadyInv, SteadyStatus
  <2>5. CASE ~ SendStatus(n)
    <3>1. PICK m : statusNet' \in {statusNet, [statusNet EXCEPT ![m][n] = {}]}
      BY <2>1, <2>5
    <3>2. QED
      BY <3>1, <2>3, <2>4
  <2>6. QED
    BY <2>2, <2>5
<1>5. QED
  BY <1>1, <1>2, <1>3, <1>4 DEF SteadyInv

LEMMA SteadyNext ==
    ASSUME SteadyChoice
    PROVE  TypeOK /\ SteadyInv /\ [Next]_vars => SteadyInv'
<1> SUFFICES ASSUME TypeOK, SteadyInv, [Next]_vars PROVE SteadyInv'
  OBVIOUS
<1>1. CASE Next
  <2>1. PICK n \in Elevs :
            World(n) \/ Handler(n) \/ Resending(n) \/ Elevator(n) \/ Restart(n)
    BY <1>1 DEF Next
  <2>2. QED
    BY <2>1, SteadyEvents, SteadyNewOrder, SteadyNewStatus, SteadyOthers
    DEF World, Handler
<1>2. CASE UNCHANGED vars
  BY <1>2
  DEF vars, handler, elevator, network, condition, history, SteadyInv,
      SteadyNodes, SteadyAvail, SteadyOwn, SteadyStatus, SteadyTable
<1>3. QED
  BY <1>1, <1>2

-----------------------------------------------------------------------------
(* What is confirmed is what was reported.                                  *)

LEMMA ReportedInit == Init => ReportedInv
<1> SUFFICES ASSUME Init PROVE ReportedInv
  OBVIOUS
<1>1. \A n \in Elevs : \A s \in Slots : table[n].orders[s] = Blank
  BY DEF Init, NoOrders
<1>2. QED
  BY <1>1 DEF Init, ReportedInv, Blank, Has

\* A new order that is confirmed already had the elevator it gets now.
LEMMA ReportedNewOrder ==
    ASSUME SteadyChoice, TypeOK, LampInv, SteadyInv, ReportedInv,
           NEW n \in Elevs, NEW s \in Slots, NewOrder(n, s)
    PROVE  ReportedInv'
<1>1. PICK id \in Cheapest(s, Elevs) : NewTable(n, ChooseElevator(table[n], s, id))
  BY SteadyMeans DEF NewOrder
<1>2. \A k \in Elevs : table'[k] = IF k = n THEN ChooseElevator(table[n], s, id) ELSE table[k]
  BY <1>1 DEF NewTable, TypeOK
<1>3. table[n] \in TableType /\ table[n].orders[s] \in OrderType
  BY DEF TypeOK, TableType
<1>4. table[n].orders[s].Confirmed => table[n].orders[s].ID = id
  <2>1. table[n].orders[s].Confirmed => table[n].orders[s].ID \in Cheapest(s, Elevs)
    BY DEF LampInv, Taken, SteadyInv, SteadyTable
  <2>2. QED
    BY <2>1, CheapestIsOne
<1>5. ASSUME NEW m \in Elevs, NEW r \in Slots
      PROVE  Has(ChooseElevator(table[n], s, id).orders[r], m) <=> Has(table[n].orders[r], m)
  <2>1. CASE r = s
    BY <1>3, <1>4, <2>1 DEF ChooseElevator, TableType, OrderType, Has
  <2>2. CASE r # s
    BY <1>3, <2>2 DEF ChooseElevator, TableType
  <2>3. QED
    BY <2>1, <2>2
<1>6. seen' = seen
  BY DEF NewOrder
<1>7. ASSUME NEW k \in Elevs, NEW m \in Elevs, NEW r \in Slots
      PROVE  r \in seen'[k][m] <=> Has(table'[k].orders[r], m)
  <2>1. r \in seen[k][m] <=> Has(table[k].orders[r], m)
    BY DEF ReportedInv
  <2>2. CASE k = n
    BY <1>2, <1>5, <1>6, <2>1, <2>2
  <2>3. CASE k # n
    BY <1>2, <1>6, <2>1, <2>3
  <2>4. QED
    BY <2>2, <2>3
<1>8. QED
  BY <1>7 DEF ReportedInv

\* A status confirms what it lists and finishes what it no longer lists, and
\* touches no order of another elevator.
LEMMA ReportedNewStatus ==
    ASSUME TypeOK, SteadyInv, ReportedInv, NEW m \in Elevs, NEW n \in Elevs, NewStatus(m, n)
    PROVE  ReportedInv'
<1>1. PICK status \in statusNet[m][n] :
          /\ NewTable(n, UpdateElevators(table[n], m, status.own, late[n]))
          /\ seen' = [seen EXCEPT ![n][m] = status.own]
  BY DEF NewStatus
<1>2. \A k \in Elevs : table'[k] =
          IF k = n THEN UpdateElevators(table[n], m, status.own, late[n]) ELSE table[k]
  BY <1>1 DEF NewTable, TypeOK
<1>3. \A k, l \in Elevs : seen'[k][l] = IF k = n /\ l = m THEN status.own ELSE seen[k][l]
  BY <1>1 DEF TypeOK
<1>4. ASSUME NEW l \in Elevs, NEW r \in Slots
      PROVE  r \in seen'[n][l] <=> Has(table'[n].orders[r], l)
  <2> DEFINE o == UpdateElevators(table[n], m, status.own, late[n]).orders[r]
  <2>1. table[n] \in TableType /\ table'[n].orders[r] = o
    BY <1>2 DEF TypeOK
  <2>2. table[n].orders[r].ID \in {NoElev} \union Cheapest(r, Elevs)
    BY DEF SteadyInv, SteadyTable
  <2>3. r \in status.own => m \in Cheapest(r, Elevs)
    BY <1>1 DEF SteadyInv, SteadyStatus, Mine
  <2>4. /\ \/ Has(o, m) /\ r \in status.own
           \/ o = Blank
           \/ /\ o = table[n].orders[r]
              /\ Has(o, m) => r \in status.own
        /\ r \in status.own /\ table[n].orders[r].ID \in {m, NoElev} => Has(o, m)
        /\ r \notin status.own /\ table[n].orders[r].ID # m => o = table[n].orders[r]
    BY <2>1, UpdatedSlot, ReportedSlot
  <2>5. CASE l = m
    <3>1. r \in status.own => table[n].orders[r].ID \in {m, NoElev}
      BY <2>2, <2>3, CheapestIsOne
    <3>2. r \in status.own <=> Has(o, m)
      BY <2>4, <3>1, NoElevAssumption DEF Blank, Has
    <3>3. QED
      BY <1>3, <2>1, <2>5, <3>2
  <2>6. CASE l # m
    <3>1. Has(o, l) => o = table[n].orders[r]
      BY <2>4, <2>6, NoElevAssumption DEF Blank, Has
    <3>2. ASSUME Has(table[n].orders[r], l)
          PROVE  r \notin status.own /\ table[n].orders[r].ID # m
      <4>1. l \in Cheapest(r, Elevs)
        BY <2>2, <3>2, NoElevAssumption DEF Has
      <4>2. r \notin status.own
        BY <2>3, <2>6, <4>1, CheapestIsOne
      <4>3. QED
        BY <2>6, <3>2, <4>2 DEF Has
    <3>3. Has(o, l) <=> Has(table[n].orders[r], l)
      BY <2>4, <3>1, <3>2
    <3>4. QED
      BY <1>3, <2>1, <2>6, <3>3 DEF ReportedInv
  <2>7. QED
    BY <2>5, <2>6
<1>5. ASSUME NEW k \in Elevs \ {n}, NEW l \in Elevs, NEW r \in Slots
      PROVE  r \in seen'[k][l] <=> Has(table'[k].orders[r], l)
  BY <1>2, <1>3 DEF ReportedInv
<1>6. QED
  BY <1>4, <1>5 DEF ReportedInv

\* The other steps change neither a table nor what is known of an elevator.
LEMMA TableAndSeenKept ==
    ASSUME SteadyChoice, TypeOK, SteadyInv, NEW n \in Elevs,
           World(n) \/ Handler(n) \/ Resending(n) \/ Elevator(n) \/ Restart(n)
    PROVE  \/ UNCHANGED <<table, seen>>
           \/ \E s \in Slots : NewOrder(n, s)
           \/ \E m \in Elevs : NewStatus(m, n)
BY SteadyEvents
DEF World, Handler, Resending, Elevator, LoseOrder, Expire, LoseStatus, TakeResend,
    RemoveFromElev, ResendToNetwork, SendStatus, ReachFloor, CloseDoor, Serve,
           PressButton, handler

LEMMA ReportedNext ==
    ASSUME SteadyChoice
    PROVE  TypeOK /\ LampInv /\ SteadyInv /\ ReportedInv /\ [Next]_vars => ReportedInv'
<1> SUFFICES ASSUME TypeOK, LampInv, SteadyInv, ReportedInv, [Next]_vars PROVE ReportedInv'
  OBVIOUS
<1>1. CASE UNCHANGED <<table, seen>>
  BY <1>1 DEF ReportedInv
<1>2. CASE Next
  <2>1. PICK n \in Elevs :
            World(n) \/ Handler(n) \/ Resending(n) \/ Elevator(n) \/ Restart(n)
    BY <1>2 DEF Next
  <2>2. QED
    BY <1>1, <2>1, TableAndSeenKept, ReportedNewOrder, ReportedNewStatus
<1>3. QED
  BY <1>1, <1>2 DEF vars, handler

\* Where the nodes agree on the costs, nothing but messages is lost and no elevator
\* rests for 20 s, all hall lamps show the last reports, whatever statuses and orders
\* overtake.  (The node that has missed a copy times the order of a rested elevator
\* out, and puts out its lamp.)
THEOREM PanelsAgree == ASSUME SteadyChoice PROVE Spec => []LampsShowReports
<1>1. TypeOK /\ LampInv /\ SteadyInv /\ ReportedInv => LampsShowReports
  <2> SUFFICES ASSUME TypeOK, LampInv, SteadyInv, ReportedInv, NEW n \in Elevs, NEW s \in Slots
               PROVE  s \in table[n].lamps <=> \E m \in Elevs : s \in seen[n][m]
    BY DEF LampsShowReports
  <2>1. s \in table[n].lamps <=> table[n].orders[s].Confirmed = TRUE
    <3>1. table[n].orders[s].Confirmed \in BOOLEAN
      BY DEF TypeOK, TableType, OrderType
    <3>2. QED
      BY <3>1 DEF LampInv, LampsTell, SteadyInv, SteadyNodes
  <2>2. table[n].orders[s] \in OrderType
    BY DEF TypeOK, TableType
  <2>3. ASSUME table[n].orders[s].Confirmed = TRUE
        PROVE  \E m \in Elevs : s \in seen[n][m]
    <3>1. table[n].orders[s].ID \in Elevs
      BY <2>2, <2>3 DEF LampInv, Taken, OrderType
    <3>2. Has(table[n].orders[s], table[n].orders[s].ID)
      BY <2>3 DEF Has
    <3>3. s \in seen[n][table[n].orders[s].ID]
      BY <3>1, <3>2 DEF ReportedInv
    <3>4. QED
      BY <3>1, <3>3
  <2>4. ASSUME NEW m \in Elevs, s \in seen[n][m]
        PROVE  table[n].orders[s].Confirmed = TRUE
    <3>1. Has(table[n].orders[s], m) /\ table[n].orders[s].Confirmed \in BOOLEAN
      BY <2>2, <2>4 DEF ReportedInv, OrderType
    <3>2. QED
      BY <3>1 DEF Has
  <2>5. QED
    BY <2>1, <2>3, <2>4
<1>2. QED
  BY <1>1, TypeInit, TypeNext, LampInvInit, LampInvNext, SteadyInit, SteadyNext,
     ReportedInit, ReportedNext, PTL DEF Spec

-----------------------------------------------------------------------------
(* The files.                                                               *)

LEMMA SavedInit == Init => SavedInv
BY DEF Init, SavedInv

\* SaveToFile stores the hall orders the last status of the own elevator had.
LEMMA FileTells ==
    ASSUME TypeOK, NEW n \in Elevs, SaveToFile(n), fresh' = {}
    PROVE  /\ \A m \in Elevs \ {n} : files'[m] = files[m]
           /\ IF outbox'[n] = {} THEN files'[n].own = seen'[n][n] ELSE files' = files
BY DEF TypeOK, SaveToFile, OwnKnown

\* Only what node n knows of its elevator, and what it still sends, changes.
LEMMA EventIsSaved ==
    ASSUME TypeOK, SteadyInv, SavedInv, NEW n \in Elevs, SaveToFile(n), fresh' = {},
           \A m \in Elevs \ {n} : outbox'[m] = outbox[m] /\ seen'[m] = seen[m]
    PROVE  SavedInv'
BY FileTells DEF SavedInv

LEMMA SavedNext ==
    ASSUME SteadyChoice
    PROVE  TypeOK /\ SteadyInv /\ SavedInv /\ [Next]_vars => SavedInv'
<1> SUFFICES ASSUME TypeOK, SteadyInv, SavedInv, [Next]_vars PROVE SavedInv'
  OBVIOUS
<1>1. ASSUME NEW n \in Elevs,
             \/ \E s \in Slots : LoseOrder(n, s) \/ Expire(n, s)
             \/ \E m \in Elevs : LoseStatus(m, n)
             \/ RemoveFromElev(n) \/ ResendToNetwork(n) \/ Elevator(n)
      PROVE  SavedInv'
  <2>1. UNCHANGED <<seen, outbox, files>>
    BY <1>1
    DEF LoseOrder, Expire, LoseStatus, RemoveFromElev, ResendToNetwork, Elevator,
        SendStatus, ReachFloor, CloseDoor, Serve,
           PressButton, handler
  <2>2. QED
    BY <2>1 DEF SavedInv
<1>2. ASSUME NEW n \in Elevs, NEW s \in Slots, NewOrder(n, s) PROVE SavedInv'
  BY <1>2, EventIsSaved DEF NewOrder, SteadyInv, SteadyNodes
<1>3. ASSUME NEW n \in Elevs, NEW m \in Elevs, NewStatus(m, n) PROVE SavedInv'
  BY <1>3, EventIsSaved DEF NewStatus, SteadyInv, SteadyNodes, TypeOK
<1>4. ASSUME NEW n \in Elevs, TakeResend(n) PROVE SavedInv'
  BY <1>4, EventIsSaved DEF TakeResend, elevator, SteadyInv, SteadyNodes, TypeOK
<1>5. CASE Next
  <2>1. PICK n \in Elevs :
            World(n) \/ Handler(n) \/ Resending(n) \/ Elevator(n) \/ Restart(n)
    BY <1>5 DEF Next
  <2>2. QED
    BY <1>1, <1>2, <1>3, <1>4, <2>1, SteadyEvents DEF World, Handler, Resending
<1>6. CASE UNCHANGED vars
  BY <1>6 DEF vars, handler, SavedInv
<1>7. QED
  BY <1>5, <1>6

\* Where the nodes agree on the costs, nothing but messages is lost and no elevator
\* rests for 20 s, every lit order of a node's own is in its files whenever its
\* handler waits: SaveToFile stores the table as it is and the elevator as its last
\* status told, statuses may be late, overtaken or lost, and the elevator may have
\* served the order.
THEOREM LitOrdersAreSaved == ASSUME SteadyChoice PROVE Spec => []LitOrdersSaved
<1>1. ReportedInv /\ SavedInv => LitOrdersSaved
  BY DEF ReportedInv, SavedInv, LitOrdersSaved, Ready, Has
<1>2. QED
  BY <1>1, TypeInit, TypeNext, LampInvInit, LampInvNext, SteadyInit, SteadyNext,
     ReportedInit, ReportedNext, SavedInit, SavedNext, PTL DEF Spec

-----------------------------------------------------------------------------
(* No order is lost, where no copy is.                                      *)

\* One elevator is the cheapest for every slot.
LEMMA SomebodyIsCheapest ==
    ASSUME NEW s \in Slots, NEW n \in Elevs
    PROVE  \E m \in Elevs : m \in Cheapest(s, Elevs)
<1>1. Preferred[s] \in Seq(Elevs) /\ Range(Preferred[s]) = Elevs
  BY PreferredAssumption
<1>2. 1 \in DOMAIN Preferred[s]
  <2>1. PICK i \in DOMAIN Preferred[s] : Preferred[s][i] = n
    BY <1>1 DEF Range
  <2>2. QED
    BY <1>1, <2>1
<1>3. Preferred[s][1] \in Elevs /\ 1 .. (1 - 1) = {}
  BY <1>1, <1>2
<1>4. QED
  BY <1>2, <1>3 DEF Cheapest

\* Order s is with the elevator that goes, or on its way to it.
AtHand(s) == \E n \in Cheapest(s, Elevs) : s \in own[n] \/ orderNet[n][s] > 0

\* The slots whose order is at hand or about to be resent.
Kept == {s \in Slots : AtHand(s) \/ \E n \in Elevs \ dead : Resent(n, s)}

LEMMA NoOrderIsLostMeans == TypeOK => (NoOrderIsLost <=> waiting \subseteq Kept)
BY DEF TypeOK, NoOrderIsLost, Kept, AtHand

\* A broadcast reaches the elevator that goes, and takes no copy away.
LEMMA BroadcastArrives ==
    ASSUME TypeOK, SteadyInv, MaxCopies > 0, NEW n \in Elevs, NEW s \in Slots,
           BroadcastOrder(n, s)
    PROVE  /\ \E m \in Cheapest(s, Elevs) : orderNet'[m][s] > 0
           /\ \A m \in Elevs, r \in Slots : orderNet[m][r] > 0 => orderNet'[m][r] > 0
<1>1. Reached(n) = Elevs
  BY DEF SteadyInv, SteadyNodes, Reached
<1>2. \A m \in Elevs : orderNet'[m] = IF orderNet[m][s] < MaxCopies
                                      THEN [orderNet[m] EXCEPT ![s] = @ + 1] ELSE orderNet[m]
  BY <1>1 DEF BroadcastOrder
<1>3. ASSUME NEW m \in Elevs, NEW r \in Slots
      PROVE  /\ orderNet[m][r] > 0 => orderNet'[m][r] > 0
             /\ orderNet'[m][s] > 0
  <2>1. orderNet[m] \in [Slots -> Nat] /\ orderNet[m][s] \in Nat /\ MaxCopies \in Nat
    BY BoundsAssumption DEF TypeOK
  <2>2. CASE orderNet[m][s] < MaxCopies
    <3>1. orderNet'[m] = [orderNet[m] EXCEPT ![s] = orderNet[m][s] + 1]
      BY <1>2, <2>2
    <3>2. QED
      BY <2>1, <3>1
  <2>3. CASE ~ (orderNet[m][s] < MaxCopies)
    <3>1. orderNet'[m] = orderNet[m]
      BY <1>2, <2>3
    <3>2. orderNet[m][s] > 0
      BY <2>1, <2>3
    <3>3. QED
      BY <3>1, <3>2
  <2>4. QED
    BY <2>2, <2>3
<1>4. PICK m \in Elevs : m \in Cheapest(s, Elevs)
  BY SomebodyIsCheapest
<1>5. QED
  BY <1>3, <1>4

\* An order stays at hand, unless its elevator serves it or has it taken back.
LEMMA StaysAtHand ==
    ASSUME NEW s \in Slots, AtHand(s),
           \A m \in Cheapest(s, Elevs) : s \in own[m] \/ orderNet[m][s] > 0
               => s \in own'[m] \/ orderNet'[m][s] > 0
    PROVE  AtHand(s)'
BY DEF AtHand

\* Of the faults SteadyChoice leaves, none: no message is lost.  And every order is
\* given to the network.
NoLosses == SteadyChoice /\ (\A most \in FaultBounds : most["lost"] = 0) /\ MaxCopies > 0

LEMMA NothingIsLost ==
    ASSUME NoLosses, TypeOK, NEW n \in Elevs
    PROVE  /\ \A s \in Slots : ~ LoseOrder(n, s)
           /\ \A m \in Elevs : ~ LoseStatus(m, n)
<1>1. faults["lost"] \in Nat
  BY DEF TypeOK, FaultKinds
<1>2. ~ Fault("lost")
  <2>1. Fault("lost") => faults'["lost"] = faults["lost"] + 1
    BY DEF Fault, TypeOK, FaultKinds
  <2>2. QED
    BY <1>1, <2>1 DEF NoLosses, Fault, FaultKinds
<1>3. QED
  BY <1>2 DEF LoseOrder, LoseStatus

\* A slot that stays at hand or is still to be resent is kept.
LEMMA KeptIsKept ==
    ASSUME NEW s \in Kept, dead' = dead,
           \A m \in Cheapest(s, Elevs) : s \in own[m] \/ orderNet[m][s] > 0
               => AtHand(s)' \/ \E n \in Elevs \ dead : Resent(n, s)',
           \A n \in Elevs \ dead : Resent(n, s)
               => AtHand(s)' \/ Resent(n, s)'
    PROVE  s \in Kept'
BY DEF Kept, AtHand

LEMMA KeptNewOrder ==
    ASSUME NoLosses, TypeOK, SteadyInv, NEW n \in Elevs, NEW s \in Slots, NewOrder(n, s)
    PROVE  Kept \subseteq Kept'
<1>1. PICK id \in Cheapest(s, Elevs) :
          own' = IF id = n THEN [own EXCEPT ![n] = @ \union {s}] ELSE own
  BY SteadyMeans DEF NewOrder, NoLosses
<1>2. UNCHANGED <<dead, outbox, resender>> /\ orderNet' = [orderNet EXCEPT ![n][s] = @ - 1]
  BY DEF NewOrder, condition
<1>3. ASSUME NEW r \in Kept PROVE r \in Kept'
  <2>1. r \in Slots
    BY DEF Kept
  <2>2. \A k \in Elevs : Resent(k, r) => Resent(k, r)'
    BY <1>2 DEF Resent
  <2>3. ASSUME NEW m \in Cheapest(r, Elevs), r \in own[m] \/ orderNet[m][r] > 0
        PROVE  AtHand(r)'
    <3>1. m \in Elevs /\ own[m] \subseteq own'[m]
      BY <1>1 DEF TypeOK, Cheapest
    <3>2. CASE m = n /\ r = s
      <4>1. id = n
        BY <1>1, <2>3, <3>2, CheapestIsOne
      <4>2. r \in own'[m]
        BY <1>1, <3>1, <3>2, <4>1 DEF TypeOK
      <4>3. QED
        BY <4>2 DEF AtHand
    <3>3. CASE ~ (m = n /\ r = s)
      <4>1. orderNet'[m][r] = orderNet[m][r]
        BY <1>2, <2>1, <3>1, <3>3 DEF TypeOK
      <4>2. QED
        BY <2>3, <3>1, <4>1 DEF AtHand
    <3>4. QED
      BY <3>2, <3>3
  <2>4. QED
    BY <1>2, <2>2, <2>3, KeptIsKept
<1>4. QED
  BY <1>3

LEMMA KeptNewStatus ==
    ASSUME TypeOK, NEW m \in Elevs, NEW n \in Elevs, NewStatus(m, n)
    PROVE  Kept \subseteq Kept'
<1>1. UNCHANGED <<dead, own, orderNet, resender>>
  BY DEF NewStatus, condition
<1>2. \A k \in Elevs : outbox[k] \subseteq outbox'[k]
  BY DEF NewStatus, Ready, TypeOK
<1>3. QED
  BY <1>1, <1>2 DEF Kept, AtHand, Resent

\* The order goes from the handler to the resending goroutine, which has the
\* elevator take it back and broadcasts it.
LEMMA KeptTakeResend ==
    ASSUME TypeOK, NEW n \in Elevs, TakeResend(n)
    PROVE  Kept \subseteq Kept'
<1>1. PICK s \in First(outbox[n]) :
          /\ resender' = [resender EXCEPT ![n] = <<"orderRemove", s>>]
          /\ outbox' = [outbox EXCEPT ![n] = @ \ {s}]
  BY DEF TakeResend
<1>2. UNCHANGED <<dead, own, orderNet>> /\ resender[n] = Idle
  BY DEF TakeResend, elevator, network, condition
<1>3. ASSUME NEW k \in Elevs, NEW r, Resent(k, r)
      PROVE  Resent(k, r)'
  <2>1. CASE k # n
    BY <1>1, <1>3, <2>1 DEF Resent, TypeOK
  <2>2. CASE k = n /\ r = s
    BY <1>1, <2>2 DEF Resent, TypeOK
  <2>3. CASE k = n /\ r # s
    <3>1. r \in outbox[n]
      BY <1>2, <1>3, <2>3 DEF Resent, Idle
    <3>2. r \in outbox'[n]
      BY <1>1, <2>3, <3>1 DEF TypeOK
    <3>3. QED
      BY <2>3, <3>2 DEF Resent
  <2>4. QED
    BY <2>1, <2>2, <2>3
<1>4. QED
  BY <1>2, <1>3 DEF Kept, AtHand

LEMMA KeptRemoveFromElev ==
    ASSUME TypeOK, NEW n \in Elevs, RemoveFromElev(n)
    PROVE  Kept \subseteq Kept'
<1>1. PICK s \in Slots :
          /\ n \notin dead /\ resender[n] = <<"orderRemove", s>>
          /\ own' = [own EXCEPT ![n] = @ \ {s}]
          /\ resender' = [resender EXCEPT ![n] = <<"orderFromElev", s>>]
          /\ UNCHANGED <<outbox, dead, orderNet>>
  BY DEF RemoveFromElev, handler, network, condition
<1>2. ASSUME NEW r \in Kept PROVE r \in Kept'
  <2>1. CASE r = s
    <3>1. Resent(n, s)'
      BY <1>1 DEF Resent, TypeOK
    <3>2. QED
      BY <1>1, <2>1, <3>1 DEF Kept
  <2>2. CASE r # s
    <3>1. \A k \in Elevs : r \in own[k] => r \in own'[k]
      BY <1>1, <2>2 DEF TypeOK
    <3>2. \A k \in Elevs : Resent(k, r) => Resent(k, r)'
      BY <1>1, <2>2 DEF Resent, TypeOK
    <3>3. \A k \in Cheapest(r, Elevs) : k \in Elevs
      BY DEF Cheapest
    <3>4. QED
      BY <1>1, <3>1, <3>2, <3>3 DEF Kept, AtHand
  <2>3. QED
    BY <2>1, <2>2
<1>3. QED
  BY <1>2

LEMMA KeptResendToNetwork ==
    ASSUME NoLosses, TypeOK, SteadyInv, NEW n \in Elevs, ResendToNetwork(n)
    PROVE  Kept \subseteq Kept'
<1>1. PICK s \in Slots :
          /\ resender[n] = <<"orderFromElev", s>> /\ BroadcastOrder(n, s)
          /\ resender' = [resender EXCEPT ![n] = Idle]
          /\ UNCHANGED <<outbox, dead, own>>
  BY DEF ResendToNetwork, handler, elevator, condition
<1>2. /\ \E m \in Cheapest(s, Elevs) : orderNet'[m][s] > 0
      /\ \A m \in Elevs, r \in Slots : orderNet[m][r] > 0 => orderNet'[m][r] > 0
  BY <1>1, BroadcastArrives DEF NoLosses
<1>3. ASSUME NEW r \in Kept PROVE r \in Kept'
  <2>1. r \in Slots
    BY DEF Kept
  <2>2. CASE r = s
    BY <1>2, <2>2 DEF Kept, AtHand
  <2>3. CASE r # s
    <3>1. \A k \in Elevs : Resent(k, r) => Resent(k, r)'
      BY <1>1, <2>3 DEF Resent, TypeOK
    <3>2. \A k \in Cheapest(r, Elevs) : k \in Elevs
      BY DEF Cheapest
    <3>3. QED
      BY <1>1, <1>2, <2>1, <3>1, <3>2 DEF Kept, AtHand
  <2>4. QED
    BY <2>2, <2>3
<1>4. QED
  BY <1>3

LEMMA KeptServe ==
    ASSUME TypeOK, NEW n \in Elevs, NEW s \in Slots, Serve(n, s)
    PROVE  Kept \ {s} \subseteq Kept'
<1>1. /\ own' = [own EXCEPT ![n] = @ \ {s}]
      /\ UNCHANGED <<outbox, resender, dead, orderNet>>
  BY DEF Serve, handler, network, condition
<1>2. \A k \in Elevs : own[k] \ {s} \subseteq own'[k]
  BY <1>1 DEF TypeOK
<1>3. ASSUME NEW r \in Kept \ {s} PROVE r \in Kept'
  <2>1. \A k \in Cheapest(r, Elevs) : k \in Elevs
    BY DEF Cheapest
  <2>2. QED
    BY <1>1, <1>2, <1>3, <2>1 DEF Kept, AtHand, Resent
<1>4. QED
  BY <1>3

LEMMA KeptPressButton ==
    ASSUME NoLosses, TypeOK, SteadyInv, NEW n \in Elevs, NEW s \in Slots, PressButton(n, s)
    PROVE  Kept \union {s} \subseteq Kept'
<1>1. BroadcastOrder(n, s) /\ UNCHANGED <<outbox, resender, own, dead>>
  BY DEF PressButton, handler, elevator, condition
<1>2. /\ \E m \in Cheapest(s, Elevs) : orderNet'[m][s] > 0
      /\ \A m \in Elevs, r \in Slots : orderNet[m][r] > 0 => orderNet'[m][r] > 0
  BY <1>1, BroadcastArrives DEF NoLosses
<1>3. ASSUME NEW r \in Kept PROVE r \in Kept'
  <2>1. r \in Slots /\ \A k \in Cheapest(r, Elevs) : k \in Elevs
    BY DEF Kept, Cheapest
  <2>2. QED
    BY <1>1, <1>2, <2>1 DEF Kept, AtHand, Resent
<1>4. s \in Kept'
  BY <1>2 DEF Kept, AtHand
<1>5. QED
  BY <1>3, <1>4

LEMMA KeptNext ==
    ASSUME NoLosses
    PROVE  TypeOK /\ SteadyInv /\ waiting \subseteq Kept /\ [Next]_vars => (waiting \subseteq Kept)'
<1> SUFFICES ASSUME TypeOK, SteadyInv, waiting \subseteq Kept, [Next]_vars
             PROVE  waiting' \subseteq Kept'
  OBVIOUS
<1>1. ASSUME NEW n \in Elevs,
             \/ \E s \in Slots : NewOrder(n, s)
             \/ \E m \in Elevs : NewStatus(m, n)
             \/ Resending(n)
      PROVE  waiting' \subseteq Kept'
  <2>1. Kept \subseteq Kept'
    BY <1>1, KeptNewOrder, KeptNewStatus, KeptTakeResend, KeptRemoveFromElev,
       KeptResendToNetwork DEF Resending
  <2>2. waiting' = waiting
    BY <1>1 DEF NewOrder, NewStatus, Resending, TakeResend, RemoveFromElev,
                ResendToNetwork, history
  <2>3. QED
    BY <2>1, <2>2
<1>2. ASSUME NEW n \in Elevs, NEW s \in Slots, Serve(n, s) PROVE waiting' \subseteq Kept'
  BY <1>2, KeptServe DEF Serve
<1>3. ASSUME NEW n \in Elevs, NEW s \in Slots, PressButton(n, s) PROVE waiting' \subseteq Kept'
  BY <1>3, KeptPressButton DEF PressButton
<1>4. ASSUME UNCHANGED <<own, orderNet, outbox, resender, dead, waiting>>
      PROVE  waiting' \subseteq Kept'
  BY <1>4 DEF Kept, AtHand, Resent
<1>5. ASSUME NEW n \in Elevs, SendStatus(n) \/ \E s \in Slots : Expire(n, s)
      PROVE  waiting' \subseteq Kept'
  BY <1>4, <1>5
  DEF SendStatus, Expire, handler, elevator, network, condition, history
<1>6. CASE Next
  <2>1. PICK n \in Elevs :
            World(n) \/ Handler(n) \/ Resending(n) \/ Elevator(n) \/ Restart(n)
    BY <1>6 DEF Next
  <2>2. SteadyChoice
    BY DEF NoLosses
  <2>3. QED
    BY <1>1, <1>2, <1>3, <1>5, <2>1, <2>2, SteadyEvents, NothingIsLost
    DEF World, Handler, Elevator
<1>7. CASE UNCHANGED vars
  BY <1>4, <1>7 DEF vars, handler, elevator, network, condition, history
<1>8. QED
  BY <1>6, <1>7

\* Where the nodes agree on the costs, nothing fails and no elevator rests for 20 s,
\* no order is lost.  Messages may be later than the 250 ms given to confirm an
\* order, and than its serving; copies, statuses and the resending goroutine overtake
\* each other: orders that a late status contradicts, or that are confirmed too late,
\* go round through resend, removal and broadcast without ever being nowhere.
THEOREM OrdersAreNotLost == ASSUME NoLosses PROVE Spec => []NoOrderIsLost
<1>1. SteadyChoice
  BY DEF NoLosses
<1>2. Init => waiting \subseteq Kept
  BY DEF Init
<1>3. TypeOK /\ waiting \subseteq Kept => NoOrderIsLost
  BY NoOrderIsLostMeans
<1>4. QED
  BY <1>1, <1>2, <1>3, TypeInit, TypeNext, SteadyInit, SteadyNext, KeptNext, PTL DEF Spec
====
