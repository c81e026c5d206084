---- MODULE HallSystem ----
(***************************************************************************)
(* The hall orders of several elevators: the order handler of every node,  *)
(* the resending goroutine of main.go, the two broadcast channels of       *)
(* Network, and of each elevator the hall orders it has and serves.        *)
(*                                                                         *)
(* A broadcast puts one copy on the way to every node, the sender          *)
(* included.  Copies may overtake each other and may be lost.  Statuses    *)
(* are sent again and again, so at most one per sender and receiver is on  *)
(* its way.                                                                *)
(***************************************************************************)
EXTENDS OrderHandler, FiniteSets

CONSTANTS
    Preferred,    \* for each slot the elevators, the cheapest first
    CostsAgree,   \* TRUE: every node computes the costs Preferred ranks by;
                  \* FALSE: any available elevator may look cheapest
    Heard,        \* the elevators every node knows when the run begins
    Timely,       \* TRUE: the network is faster than the time-outs and than the
                  \* serving of an order; FALSE: only than the 20 s of TimeoutCheck
    MaxPresses,   \* presses of hall buttons
    MaxCopies,    \* copies of one order on the way to one node
    FaultBounds   \* how many faults of each kind a behaviour may have: it keeps
                  \* to one of these bounds

\* Copies lost; nodes that lose their network, stop, or cannot move their cabin
\* (no motor power, or obstructed).  And what is no fault, but is counted with
\* them: elevators that have rested for 20 s, and those timed out for no more than
\* that, over a hall order that is not old ("early") or a cab order.
FaultKinds == {"lost", "cut", "dead", "stuck", "rested", "early", "cab"}

ASSUME PreferredAssumption ==
    /\ Preferred \in [Slots -> Seq(Elevs)]
    /\ \A s \in Slots : Range(Preferred[s]) = Elevs
ASSUME BoundsAssumption ==
    /\ CostsAgree \in BOOLEAN /\ Timely \in BOOLEAN
    /\ Heard \subseteq Elevs
    /\ MaxPresses \in Nat /\ MaxCopies \in Nat
    /\ FaultBounds \subseteq [FaultKinds -> Nat]

VARIABLES
    table,     \* each node's hall orders and hall lamps
    avail,     \* the elevators each node's elevMap says are available
    seen,      \* the hall orders each node's elevMap gives each elevator
    late,      \* the slots older than the time given to confirm an order
    outbox,    \* what the handler is still sending on orderResend
    files,     \* what each node has saved of its table and its elevator
    resender,  \* the resending goroutine: nothing, or an order and a channel
    own,       \* the hall orders each elevator has
    up,        \* the elevators that call themselves available
    fresh,     \* the nodes that have not heard their own status since they started
    orderNet,  \* copies of each order on the way to each node
    statusNet, \* the status on the way from each node to each node
    sent,      \* the nodes that have sent their status in this round
    lastSeen,  \* the peers each node has heard of lately
    cut,       \* the nodes without network
    dead,      \* the nodes that do not run
    stuck,     \* the elevators whose cabin does not move
    rested,    \* the elevators whose TimeSinceNewFloor is 20 s ago
    restarted, \* history: the nodes that have been restarted
    waiting,   \* history: the slots pressed and not served since
    presses,   \* history: presses so far
    faults     \* history: faults so far

handler   == <<table, avail, seen, late, outbox, files>>
elevator  == <<own, up, fresh>>
network   == <<orderNet, statusNet, sent, lastSeen>>
condition == <<cut, dead, stuck, rested, restarted>>
history   == <<waiting, presses, faults>>
vars == <<handler, resender, elevator, network, condition, history>>

\* The resending goroutine waits, or it has an order to send on a channel.
Idle == <<>>
Resender == {Idle} \union ({"orderRemove", "orderFromElev"} \X Slots)

\* Of a status only the hall orders and Available are read.
Status == [own : SUBSET Slots, up : BOOLEAN]
File == [orders : [Slots -> OrderType], own : SUBSET Slots, up : BOOLEAN]

TypeOK ==
    /\ table \in [Elevs -> TableType]
    /\ avail \in [Elevs -> SUBSET Elevs]
    /\ seen \in [Elevs -> [Elevs -> SUBSET Slots]]
    /\ late \in [Elevs -> SUBSET Slots]
    /\ outbox \in [Elevs -> SUBSET Slots]
    /\ files \in [Elevs -> File]
    /\ resender \in [Elevs -> Resender]
    /\ own \in [Elevs -> SUBSET Slots]
    /\ orderNet \in [Elevs -> [Slots -> Nat]]
    /\ statusNet \in [Elevs -> [Elevs -> SUBSET Status]]
    /\ lastSeen \in [Elevs -> SUBSET Elevs]
    /\ up \subseteq Elevs /\ fresh \subseteq Elevs /\ sent \subseteq Elevs
    /\ cut \subseteq Elevs /\ dead \subseteq Elevs /\ stuck \subseteq Elevs
    /\ rested \subseteq Elevs /\ restarted \subseteq Elevs
    /\ waiting \in SUBSET Slots
    /\ presses \in Nat
    /\ faults \in [FaultKinds -> Nat]

\* No hall orders yet; nothing is heard of the elevators but of those in Heard.
Init ==
    /\ table = [n \in Elevs |-> NoOrders]
    /\ avail = [n \in Elevs |-> Heard]
    /\ seen = [n \in Elevs |-> [m \in Elevs |-> {}]]
    /\ late = [n \in Elevs |-> {}]
    /\ outbox = [n \in Elevs |-> {}]
    /\ files = [n \in Elevs |-> [orders |-> NoOrders.orders, own |-> {}, up |-> n \in Heard]]
    /\ resender = [n \in Elevs |-> Idle]
    /\ own = [n \in Elevs |-> {}]
    /\ up = Elevs
    /\ fresh = Elevs \ Heard
    /\ orderNet = [n \in Elevs |-> [s \in Slots |-> 0]]
    /\ statusNet = [n \in Elevs |-> [m \in Elevs |-> {}]]
    /\ sent = Elevs
    /\ lastSeen = [n \in Elevs |-> Heard]
    /\ cut = {} /\ dead = {} /\ stuck = {} /\ rested = {} /\ restarted = {}
    /\ waiting = {}
    /\ presses = 0
    /\ faults = [k \in FaultKinds |-> 0]

Fault(k) ==
    /\ faults' = [faults EXCEPT ![k] = @ + 1]
    /\ \E most \in FaultBounds : \A j \in FaultKinds : faults'[j] <= most[j]
    /\ UNCHANGED <<waiting, presses>>

-----------------------------------------------------------------------------
(* The network.                                                             *)

\* The nodes a broadcast of n reaches: none without network, not even itself.
Reached(n) == IF n \in cut THEN {} ELSE Elevs \ (cut \union dead)

BroadcastOrder(n, s) ==
    orderNet' = [m \in Elevs |->
                   IF m \in Reached(n) /\ orderNet[m][s] < MaxCopies
                   THEN [orderNet[m] EXCEPT ![s] = @ + 1]
                   ELSE orderNet[m]]

\* No message is on its way, and none is being resent.
Quiet ==
    \A n \in Elevs \ dead :
        /\ outbox[n] = {} /\ resender[n] = Idle
        /\ \A s \in Slots : orderNet[n][s] = 0
        /\ \A m \in Elevs : statusNet[m][n] = {}

\* The elevator's status goroutine and bcast.Transmitter.  Every node sends once
\* in a round of 50 ms, and messages that are not lost arrive within a round.
RoundOver == Elevs \ dead \subseteq sent

SendStatus(n) ==
    /\ n \notin dead
    /\ \A m \in Reached(n) : statusNet[n][m] = {}
    /\ Timely => IF RoundOver THEN Quiet ELSE n \notin sent
    /\ statusNet' = [statusNet EXCEPT ![n] =
                       [m \in Elevs |-> IF m \in Reached(n)
                                        THEN {[own |-> own[n], up |-> n \in up]} ELSE @[m]]]
    /\ sent' = IF RoundOver THEN {n} ELSE sent \union {n}
    /\ UNCHANGED <<handler, resender, elevator, orderNet, lastSeen, condition, history>>

LoseOrder(n, s) ==
    /\ Fault("lost")
    /\ orderNet[n][s] > 0
    /\ orderNet' = [orderNet EXCEPT ![n][s] = @ - 1]
    /\ UNCHANGED <<handler, resender, elevator, statusNet, sent, lastSeen, condition>>

LoseStatus(m, n) ==
    /\ Fault("lost")
    /\ statusNet[m][n] # {}
    /\ statusNet' = [statusNet EXCEPT ![m][n] = {}]
    /\ UNCHANGED <<handler, resender, elevator, orderNet, sent, lastSeen, condition>>

\* What was on its way to a node is gone.
NothingFor(n) ==
    /\ orderNet' = [orderNet EXCEPT ![n] = [s \in Slots |-> 0]]
    /\ statusNet' = [m \in Elevs |-> [statusNet[m] EXCEPT ![n] = {}]]
    /\ UNCHANGED <<handler, resender, elevator, sent, lastSeen>>

\* A node without network hears nobody, itself included; the others miss it.
Missing(n) == IF n \in cut THEN Elevs ELSE cut \union dead

\* Nothing about slot s is on its way.
Delivered(s) ==
    \A n \in Elevs \ dead :
        /\ orderNet[n][s] = 0
        /\ resender[n] = Idle /\ outbox[n] = {}
        /\ \A m \in Elevs : \A status \in statusNet[m][n] : s \in status.own <=> s \in own[m]

\* And the statuses, sent every 50 ms, have told every node how matters stand.
Settled(s) ==
    /\ Delivered(s)
    /\ \A n \in Elevs \ dead : \A m \in Elevs \ (Missing(n) \union fresh) :
          /\ s \in seen[n][m] <=> s \in own[m]
          /\ m \in avail[n] <=> m \in up

\* A node's network goes away, and may come back, after longer than it takes to
\* report a peer lost.
CutNetwork(n) ==
    /\ Fault("cut")
    /\ n \notin cut \union dead
    /\ cut' = cut \union {n}
    /\ NothingFor(n)
    /\ UNCHANGED <<dead, stuck, rested, restarted>>

Reconnect(n) ==
    /\ n \in cut
    /\ Timely => /\ \A s \in Slots : Settled(s)
                 /\ \A m \in Elevs \ dead : lastSeen[m] \cap Missing(m) = {}
    /\ cut' = cut \ {n}
    /\ UNCHANGED <<handler, resender, elevator, network, dead, stuck, rested, restarted, history>>

-----------------------------------------------------------------------------
(* The order handler's loop.  It sends on unbuffered channels: it reaches   *)
(* its select again when the resending goroutine has taken all it sends,    *)
(* and saves the files before it does.                                      *)

Ready(n) == n \notin dead /\ outbox[n] = {}

NewTable(n, tab) == table' = [table EXCEPT ![n] = tab]

\* elevMap[myID] shares its arrays with the elevator until a status replaces it.
OwnKnown(n) == IF n \in fresh THEN own[n] ELSE seen[n][n]

\* Seeded fault: the elevator saved is the one of before the event.
SaveToFile_OldStatus(n) ==
    files' = IF outbox'[n] = {}
             THEN [files EXCEPT ![n] = [orders |-> table'[n].orders,
                                        own    |-> OwnKnown(n),
                                        up     |-> n \in avail'[n]]]
             ELSE files

SaveToFile(n) ==
    files' = IF outbox'[n] = {}
             THEN [files EXCEPT ![n] = [orders |-> table'[n].orders,
                                        own    |-> OwnKnown(n)',
                                        up     |-> n \in avail'[n]]]
             ELSE files

\* The cheapest of the elevators in S for slot s.
Cheapest(s, S) ==
    {e \in S : \E i \in DOMAIN Preferred[s] :
                  /\ Preferred[s][i] = e
                  /\ \A j \in 1 .. (i - 1) : Preferred[s][j] \notin S}

\* The elevator node n may choose: itself when it knows of no available one.
Choices(n, s) ==
    IF avail[n] = {} THEN {n}
    ELSE IF CostsAgree THEN Cheapest(s, avail[n])
    ELSE avail[n]

NewOrder(n, s) ==
    /\ Ready(n)
    /\ orderNet[n][s] > 0
    /\ orderNet' = [orderNet EXCEPT ![n][s] = @ - 1]
    /\ \E id \in Choices(n, s) :
          /\ NewTable(n, ChooseElevator(table[n], s, id))
          /\ own' = IF id = n THEN [own EXCEPT ![n] = @ \union {s}] ELSE own
    /\ late' = [late EXCEPT ![n] = @ \ {s}]
    /\ UNCHANGED <<avail, seen, outbox, resender, up, fresh, statusNet, sent, lastSeen,
                   condition, history>>
    /\ SaveToFile(n)

NewStatus(m, n) ==
    /\ Ready(n)
    /\ \E status \in statusNet[m][n] :
          /\ NewTable(n, UpdateElevators(table[n], m, status.own, late[n]))
          /\ outbox' = [outbox EXCEPT ![n] =
                          UpdateResends(table[n], m, status.own, late[n])]
          /\ seen' = [seen EXCEPT ![n][m] = status.own]
          /\ avail' = [avail EXCEPT ![n] = IF status.up THEN @ \union {m} ELSE @ \ {m}]
    /\ fresh' = IF m = n THEN fresh \ {n} ELSE fresh
    /\ statusNet' = [statusNet EXCEPT ![m][n] = {}]
    /\ lastSeen' = [lastSeen EXCEPT ![n] = @ \union {m}]
    /\ UNCHANGED <<late, resender, own, up, orderNet, sent, condition, history>>
    /\ SaveToFile(n)

\* The elevators in gone are unavailable, their orders go back to the network.
Disconnected(n, gone) ==
    /\ Ready(n)
    /\ avail' = [avail EXCEPT ![n] = @ \ gone]
    /\ NewTable(n, OnDisconnect(table[n], gone))
    /\ outbox' = [outbox EXCEPT ![n] = OrdersOf(table[n], gone)]
    /\ UNCHANGED <<seen, late, resender, own, fresh, orderNet, statusNet, sent, condition>>
    /\ SaveToFile(n)

\* Nothing was heard of some peers for 500 ms: they are reported lost, once.
LostPeers(n) ==
    \E gone \in (SUBSET (lastSeen[n] \cap Missing(n))) \ {{}} :
        /\ Timely => \A m \in gone : statusNet[m][n] = {}
        /\ Disconnected(n, gone)
        /\ lastSeen' = [lastSeen EXCEPT ![n] = @ \ gone]
        /\ UNCHANGED <<up, history>>

\* OnTimeout: the own elevator is told, and calls itself unavailable.
OnTimeout(n, m) ==
    /\ Disconnected(n, {m})
    /\ up' = IF m = n THEN up \ {n} ELSE up
    /\ UNCHANGED lastSeen

\* TimeoutCheck: an order is 20 s old, and so is the last floor of its elevator,
\* as far as the node has heard.
TimeOut(n, m) ==
    /\ m \in stuck \union Missing(n)
    /\ OrdersOf(table[n], {m}) # {}
    /\ Timely => \A s \in OrdersOf(table[n], {m}) : Settled(s)
    /\ OnTimeout(n, m)
    /\ UNCHANGED history

\* The same for an order taken over from a status: its TimeStarted is none or of an
\* earlier order, and an elevator that has rested is timed out when it has hardly
\* got the order.
RestTimeOut(n, m) ==
    /\ Fault("early")
    /\ m \in rested
    /\ \E s \in OrdersOf(table[n], {m}) :
          ~ table[n].orders[s].Timed /\ (Timely => Settled(s))
    /\ OnTimeout(n, m)

\* The same for a cab order of the node's own: that it is old is not asked.
CabTimeOut(n) ==
    /\ Fault("cab")
    /\ n \in rested \union stuck
    /\ OnTimeout(n, n)

\* The time given to confirm an order passes.
Expire(n, s) ==
    /\ n \notin dead
    /\ table[n].orders[s].ID # NoElev
    /\ s \notin late[n]
    /\ Timely => Settled(s)
    /\ late' = [late EXCEPT ![n] = @ \union {s}]
    /\ UNCHANGED <<table, avail, seen, outbox, files, resender, elevator, network,
                   condition, history>>

-----------------------------------------------------------------------------
(* The goroutine of main.go that resends, the elevator, the buttons.        *)

TakeResend(n) ==
    /\ n \notin dead
    /\ resender[n] = Idle
    /\ \E s \in First(outbox[n]) :
          /\ resender' = [resender EXCEPT ![n] = <<"orderRemove", s>>]
          /\ outbox' = [outbox EXCEPT ![n] = @ \ {s}]
    /\ UNCHANGED <<table, avail, seen, late, elevator, network, condition, history>>
    /\ SaveToFile(n)

RemoveFromElev(n) ==
    \E s \in Slots :
        /\ n \notin dead /\ resender[n] = <<"orderRemove", s>>
        /\ own' = [own EXCEPT ![n] = @ \ {s}]
        /\ resender' = [resender EXCEPT ![n] = <<"orderFromElev", s>>]
        /\ UNCHANGED <<handler, up, fresh, network, condition, history>>

ResendToNetwork(n) ==
    \E s \in Slots :
        /\ n \notin dead /\ resender[n] = <<"orderFromElev", s>>
        /\ BroadcastOrder(n, s)
        /\ resender' = [resender EXCEPT ![n] = Idle]
        /\ UNCHANGED <<handler, elevator, statusNet, sent, lastSeen, condition, history>>

\* Seeded fault: the open door settles the orders of all floors.
Serve_EveryFloor(n, s) ==
    /\ n \notin dead \union stuck /\ s \in own[n]
    /\ Timely => /\ Delivered(s) /\ n \notin fresh
                 /\ \A m \in Reached(n) : s \in seen[m][n]
    /\ own' = [own EXCEPT ![n] = {}]
    /\ up' = up \union {n}
    /\ waiting' = waiting \ {s}
    /\ UNCHANGED <<handler, resender, fresh, network, condition, presses, faults>>

\* The elevator opens its door at the floor: onDoorTimeout settles the order.
\* That takes seconds, and statuses are sent every 50 ms.
Serve(n, s) ==
    /\ n \notin dead \union stuck /\ s \in own[n]
    /\ Timely => /\ Delivered(s) /\ n \notin fresh
                 /\ \A m \in Reached(n) : s \in seen[m][n]
    /\ own' = [own EXCEPT ![n] = @ \ {s}]
    /\ up' = up \union {n}
    /\ waiting' = waiting \ {s}
    /\ UNCHANGED <<handler, resender, fresh, network, condition, presses, faults>>

\* onFloorSensor.
ReachFloor(n) ==
    /\ n \notin dead \union stuck
    /\ n \notin up \/ n \in rested
    /\ up' = up \union {n}
    /\ rested' = rested \ {n}
    /\ UNCHANGED <<handler, resender, own, fresh, network, cut, dead, stuck, restarted, history>>

\* onDoorTimeout without a hall order: the cabin has not moved.
CloseDoor(n) ==
    /\ n \notin dead \union stuck \union up
    /\ up' = up \union {n}
    /\ UNCHANGED <<handler, resender, own, fresh, network, condition, history>>

\* An elevator with nothing to do stands at its floor for 20 s.
Rest(n) ==
    /\ Fault("rested")
    /\ n \notin dead \union rested /\ own[n] = {}
    /\ Timely => \A s \in Slots : Settled(s)
    /\ rested' = rested \union {n}
    /\ UNCHANGED <<handler, resender, elevator, network, cut, dead, stuck, restarted>>

\* The cabin cannot leave its floor, and can again.
GetStuck(n) ==
    /\ Fault("stuck")
    /\ n \notin dead
    /\ stuck' = stuck \union {n}
    /\ UNCHANGED <<handler, resender, elevator, network, cut, dead, rested, restarted>>

GetLoose(n) ==
    /\ n \in stuck
    /\ stuck' = stuck \ {n}
    /\ UNCHANGED <<handler, resender, elevator, network, cut, dead, rested, restarted, history>>

PressButton(n, s) ==
    /\ n \notin dead /\ presses < MaxPresses
    /\ BroadcastOrder(n, s)
    /\ presses' = presses + 1
    /\ waiting' = waiting \union {s}
    /\ UNCHANGED <<handler, resender, elevator, statusNet, sent, lastSeen, condition, faults>>

-----------------------------------------------------------------------------
(* A node stops, and may be started again from its files.                   *)

Crash(n) ==
    /\ Fault("dead")
    /\ n \notin dead
    /\ dead' = dead \union {n}
    /\ NothingFor(n)
    /\ UNCHANGED <<cut, stuck, rested, restarted>>

\* LoadFromFile; InitializeElevator lights the hall lamps of the own orders.  What
\* is saved of TimeStarted is a time before the stop.
Restart(n) ==
    /\ n \in dead
    /\ Timely => \A s \in Slots : Settled(s)
    /\ dead' = dead \ {n}
    /\ restarted' = restarted \union {n}
    /\ rested' = rested \ {n}
    /\ LET saved == files[n]
       IN  /\ NewTable(n, [orders |-> [s \in Slots |-> [saved.orders[s] EXCEPT !.Timed = FALSE]],
                        lamps  |-> saved.own])
           /\ avail' = [avail EXCEPT ![n] = {m \in {n} : saved.up}]
           /\ seen' = [seen EXCEPT ![n] = [m \in Elevs |-> {s \in saved.own : m = n}]]
           /\ own' = [own EXCEPT ![n] = saved.own]
    /\ late' = [late EXCEPT ![n] = Slots]
    /\ outbox' = [outbox EXCEPT ![n] = {}]
    /\ resender' = [resender EXCEPT ![n] = Idle]
    /\ up' = up \union {n}
    /\ fresh' = fresh \union {n}
    /\ lastSeen' = [lastSeen EXCEPT ![n] = {}]
    /\ UNCHANGED <<files, orderNet, statusNet, sent, cut, stuck, history>>

-----------------------------------------------------------------------------
World(n) ==
    \/ \E s \in Slots : LoseOrder(n, s)
    \/ \E m \in Elevs : LoseStatus(m, n)
    \/ CutNetwork(n) \/ Reconnect(n) \/ GetStuck(n) \/ GetLoose(n) \/ Rest(n) \/ Crash(n)

Handler(n) ==
    \/ \E s \in Slots : NewOrder(n, s) \/ Expire(n, s)
    \/ \E m \in Elevs : NewStatus(m, n) \/ TimeOut(n, m) \/ RestTimeOut(n, m)
    \/ LostPeers(n) \/ CabTimeOut(n)

Resending(n) == TakeResend(n) \/ RemoveFromElev(n) \/ ResendToNetwork(n)

Elevator(n) ==
    \/ SendStatus(n) \/ ReachFloor(n) \/ CloseDoor(n)
    \/ \E s \in Slots : Serve(n, s) \/ PressButton(n, s)

Next == \E n \in Elevs : World(n) \/ Handler(n) \/ Resending(n) \/ Elevator(n) \/ Restart(n)

\* Every goroutine keeps going, every elevator serves what it keeps having.
Fairness ==
    \A n \in Elevs :
        /\ WF_vars(SendStatus(n)) /\ WF_vars(n \notin up /\ ReachFloor(n))
        /\ WF_vars(Resending(n)) /\ WF_vars(LostPeers(n))
        /\ SF_vars(TimeOut(n, n))
        /\ \A m \in Elevs : WF_vars(NewStatus(m, n)) /\ WF_vars(TimeOut(n, m))
        /\ \A s \in Slots : WF_vars(NewOrder(n, s)) /\ SF_vars(Serve(n, s))
                              /\ WF_vars(Expire(n, s))

Spec == Init /\ [][Next]_vars

FairSpec == Spec /\ Fairness

-----------------------------------------------------------------------------
\* The lamp of a hall button is lit exactly while its order is confirmed, and a
\* confirmed order has an elevator, although the lamp and the two fields are
\* written by different functions, on events of different nodes.  (A node that
\* was restarted lights only the lamps of its own elevator's orders.)
LampMeansTaken ==
    \A n \in Elevs : \A s \in Slots :
        LET o == table[n].orders[s]
        IN  /\ n \notin restarted => (s \in table[n].lamps <=> o.Confirmed)
            /\ o.Confirmed => o.ID # NoElev

\* A lit order that is the node's own is in its files when its handler waits for
\* the next event, so that a restart still has it: the table is saved as it is,
\* the elevator as its last status told, and orders come and go in between.
\* (A confirmed order that ChooseElevator hands over to another elevator, because
\* nodes disagree on who is available or on the costs, is not saved by that
\* elevator before it has reported it.)
LitOrdersSaved ==
    \A n \in Elevs \ dead : \A s \in Slots :
        Ready(n) /\ table[n].orders[s].ID = n /\ table[n].orders[s].Confirmed
            => s \in files[n].own

\* "The lights on the hall buttons should show the same thing": at every node a
\* hall lamp is lit exactly when an elevator has last reported the order, though
\* lamps follow the table, and the table is changed by reports and by orders that
\* overtake each other.
LampsShowReports ==
    \A n \in Elevs \ dead : \A s \in Slots :
        s \in table[n].lamps <=> \E m \in Elevs : s \in seen[n][m]

\* Node n is to put the order back to the network.
Resent(n, s) ==
    s \in outbox[n] \/ \E ch \in {"orderRemove", "orderFromElev"} : resender[n] = <<ch, s>>

\* "No orders are lost": an order not served yet is with the elevator that goes,
\* on its way to it, or about to be resent by the handler or the resending
\* goroutine of a node, which take it back, and from the elevator, in between.
NoOrderIsLost ==
    \A s \in waiting :
        \/ \E n \in Cheapest(s, Elevs) : s \in own[n] \/ orderNet[n][s] > 0
        \/ \E n \in Elevs \ dead : Resent(n, s)

\* Once a hall button that nobody has served is lit somewhere, an elevator comes.
HallLampPromise ==
    \A s \in Slots :
        s \in waiting /\ (\E n \in Elevs \ dead : s \in table[n].lamps)
            ~> s \notin waiting

\* No hall lamp stays lit for ever once the pressing has stopped.
HallLampsGoOut == <>[](\A n \in Elevs \ dead : table[n].lamps = {})
=============================================================================
