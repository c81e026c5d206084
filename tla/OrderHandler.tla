---- MODULE OrderHandler ----
(***************************************************************************)
(* The table of hall orders one node keeps, and the operations of          *)
(* Orderhandler/orderHandler.go on it.  A slot is one hall button of one   *)
(* floor, ordersPt.Up[f] or ordersPt.Down[f].  Of a status message only    *)
(* the sender and the hall orders it has are read here.  Of TimeStarted is *)
(* kept whether it is the order's own; how long ago that is, is asked in   *)
(* HallSystem.                                                             *)
(***************************************************************************)
EXTENDS Integers, Sequences, Functions

CONSTANTS Elevs,    \* the ids of the elevators
          NoElev,   \* the empty id
          SlotSeq   \* the slots, in the order the handlers visit them

ASSUME NoElevAssumption == NoElev \notin Elevs
ASSUME SlotSeqAssumption == SlotSeq \in Seq(Range(SlotSeq))

Slots == Range(SlotSeq)

\* Timed: TimeStarted was set when this order was chosen an elevator for.
OrderType == [ID : Elevs \union {NoElev}, Confirmed : BOOLEAN, Timed : BOOLEAN]

\* ClearOrder keeps TimeStarted, which tells nothing of the order that comes next.
Blank == [ID |-> NoElev, Confirmed |-> FALSE, Timed |-> FALSE]

\* A node's table and the hall lamps of its panel.
TableType == [orders : [Slots -> OrderType], lamps : SUBSET Slots]

NoOrders == [orders |-> [s \in Slots |-> Blank], lamps |-> {}]

-----------------------------------------------------------------------------
(* The cases of UpdateElevators for one slot: o is the order in the table,  *)
(* id the sender of the status and taken whether it has the order.          *)

Finished(o, id, taken)  == id = o.ID /\ o.Confirmed /\ ~taken
Claimed(o, id, taken)   == id = o.ID /\ ~o.Confirmed /\ taken
Unclaimed(o, id, taken) == id = o.ID /\ ~o.Confirmed /\ ~taken
Unlisted(o, id, taken)  == id # o.ID /\ taken /\ o.ID = NoElev
Contested(o, id, taken) == id # o.ID /\ taken /\ o.ID # NoElev

\* The order is put back to the network as a new one; late says that the time
\* given to confirm it has passed.
Resends(o, id, taken, late) ==
    (Unclaimed(o, id, taken) /\ late) \/ Contested(o, id, taken)

Clears(o, id, taken, late) ==
    Finished(o, id, taken) \/ Resends(o, id, taken, late)

Confirms(o, id, taken) == Claimed(o, id, taken) \/ Unlisted(o, id, taken)

\* Seeded fault: the lamp of a cleared order stays lit.
ClearOrders_LampStays(tab, S) ==
    [orders |-> [s \in Slots |-> IF s \in S THEN Blank ELSE tab.orders[s]],
     lamps  |-> tab.lamps]

\* Cleared, a slot is blank and its lamp is off.
ClearOrders(tab, S) ==
    [orders |-> [s \in Slots |-> IF s \in S THEN Blank ELSE tab.orders[s]],
     lamps  |-> tab.lamps \ S]

\* Confirmed for elevator id, it has the lamp lit; TimeStarted is as it was.
ConfirmOrders(tab, id, S) ==
    [orders |-> [s \in Slots |->
                   IF s \in S THEN [tab.orders[s] EXCEPT !.ID = id, !.Confirmed = TRUE]
                              ELSE tab.orders[s]],
     lamps  |-> tab.lamps \union S]

\* A status of elevator id with the hall orders taken.
UpdateElevators(tab, id, taken, late) ==
    LET cleared == {s \in Slots :
                      Clears(tab.orders[s], id, s \in taken, s \in late)}
        confirmed == {s \in Slots : Confirms(tab.orders[s], id, s \in taken)}
    IN  ConfirmOrders(ClearOrders(tab, cleared), id, confirmed)

\* The orders that status makes the node resend.
UpdateResends(tab, id, taken, late) ==
    {s \in Slots : Resends(tab.orders[s], id, s \in taken, s \in late)}

\* The one of S the handler sends first.
First(S) ==
    {s \in S : \E i \in DOMAIN SlotSeq :
                  SlotSeq[i] = s /\ \A j \in 1 .. (i - 1) : SlotSeq[j] \notin S}

\* Seeded fault: the id takes the place of the whole order.
ChooseElevator_WholeOrder(tab, s, id) == [tab EXCEPT !.orders[s] = id]

\* A new order: the slot gets its elevator and the time; Confirmed and the lamp stay.
ChooseElevator(tab, s, id) ==
    [tab EXCEPT !.orders[s].ID = id, !.orders[s].Timed = TRUE]

\* Seeded fault: the confirmed orders of a lost elevator are passed over.
OrdersOf_Unconfirmed(tab, gone) ==
    {s \in Slots : tab.orders[s].ID \in gone /\ ~tab.orders[s].Confirmed}

\* The orders of the elevators in gone, which are lost or have timed out.
OrdersOf(tab, gone) == {s \in Slots : tab.orders[s].ID \in gone}

\* They are cleared here, and resent.
OnDisconnect(tab, gone) == ClearOrders(tab, OrdersOf(tab, gone))
=============================================================================
