---- MODULE Peers ----
(***************************************************************************)
(* How a node learns which peers there are: Network/peers, of which every  *)
(* node's Transmitter broadcasts its id and one node's Receiver keeps when *)
(* it last read each id, and the loop of Network that hands the lost peers *)
(* on to the order handler.                                                *)
(*                                                                         *)
(* Time passes in ticks of 15 ms, the interval of the transmitters.  Where *)
(* the receiver is late, ids wait for it in the socket, and one is read in *)
(* each of its loops.                                                      *)
(***************************************************************************)
EXTENDS Integers, Sequences

CONSTANTS
    Peer,     \* the ids, the node's own among them
    NoId,     \* no id was read before the deadline, or none is new
    Timeout,  \* ticks after which a silent peer is lost
    MaxGap,   \* ticks in which a datagram of a connected peer arrives
    MaxLag    \* ticks in which the receiver has caught up with the socket

\* The network and the order handler leave the receiver that much time.
ASSUME TimesAssumption ==
    /\ Timeout \in Nat /\ MaxGap \in Nat /\ MaxLag \in Nat
    /\ MaxGap + MaxLag <= Timeout
ASSUME NoIdAssumption == NoId \notin Peer

VARIABLES
    connected,  \* the peers whose broadcasts reach the node
    gap,        \* ticks since the last datagram of each peer arrived
    socket,     \* the ids that wait to be read
    lag,        \* ticks since the receiver last had nothing to do
    lastSeen,   \* the peers in the map lastSeen
    age,        \* of each of them, ticks since it was last read
    update,     \* the update the receiver is sending on peerUpdateCh
    pending,    \* the list of lost peers Network's loop is sending on disconCH
    away,       \* history: the peers the order handler was told are lost, or that
                \* were never read, and whose id has not been read since
    rejoined    \* history: the peers that came back since they were last read

air     == <<connected, gap>>
network == <<pending, away>>
vars == <<air, socket, lag, lastSeen, age, update, network, rejoined>>

\* At most one update, of at most one new peer.
Updates == [new : Peer \union {NoId}, lost : SUBSET Peer]

TypeOK ==
    /\ connected \in SUBSET Peer
    /\ gap \in [Peer -> Nat]
    /\ socket \in Seq(Peer)
    /\ lag \in 0 .. MaxLag
    /\ lastSeen \in SUBSET Peer
    /\ age \in [Peer -> Nat]
    /\ update \in SUBSET Updates
    /\ pending \in SUBSET (SUBSET Peer)
    /\ away \in SUBSET Peer
    /\ rejoined \in SUBSET Peer

Init ==
    /\ connected \in SUBSET Peer
    /\ gap = [p \in Peer |-> 0]
    /\ socket = <<>>
    /\ lag = 0
    /\ lastSeen = {}
    /\ age = [p \in Peer |-> 0]
    /\ update = {} /\ pending = {}
    /\ away = Peer
    /\ rejoined = {}

\* The receiver waits for a datagram.
CaughtUp == update = {} /\ socket = <<>>

\* Ages are counted up to what makes a peer lost.
Older(n) == IF n > Timeout THEN n ELSE n + 1

Tick ==
    /\ \A p \in connected : gap[p] < MaxGap
    /\ CaughtUp \/ lag < MaxLag
    /\ gap' = [p \in Peer |-> IF p \in connected THEN gap[p] + 1 ELSE 0]
    /\ age' = [p \in Peer |-> IF p \in lastSeen THEN Older(age[p]) ELSE 0]
    /\ lag' = IF CaughtUp THEN 0 ELSE lag + 1
    /\ UNCHANGED <<connected, socket, lastSeen, update, network, rejoined>>

\* Transmitter sends once in an interval; it is never disabled.  What does not
\* arrive was lost.
Arrive(p) ==
    /\ p \in connected /\ gap[p] > 0
    /\ gap' = [gap EXCEPT ![p] = 0]
    /\ socket' = Append(socket, p)
    /\ UNCHANGED <<connected, lag, lastSeen, age, update, network, rejoined>>

Leave(p) ==
    /\ p \in connected
    /\ connected' = connected \ {p}
    /\ UNCHANGED <<gap, socket, lag, lastSeen, age, update, network, rejoined>>

Join(p) ==
    /\ p \notin connected
    /\ connected' = connected \union {p}
    /\ gap' = [gap EXCEPT ![p] = 0]
    /\ rejoined' = rejoined \union {p}
    /\ UNCHANGED <<socket, lag, lastSeen, age, update, network>>

\* Seeded fault: a lost peer alone is no reason to send an update.
Loop_NewOnly(id, seen, ages) ==
    LET lost == {p \in seen : ages[p] > Timeout}
        new  == IF id \in lastSeen THEN NoId ELSE id
    IN  /\ lastSeen' = seen \ lost
        /\ age' = [p \in Peer |-> IF p \in lost THEN 0 ELSE ages[p]]
        /\ update' = IF new # NoId THEN {[new |-> new, lost |-> lost]} ELSE {}

\* The rest of a loop that has read id: silent peers are lost, and if anything
\* has changed an update is sent.
Loop(id, seen, ages) ==
    LET lost == {p \in seen : ages[p] > Timeout}
        new  == IF id \in lastSeen THEN NoId ELSE id
    IN  /\ lastSeen' = seen \ lost
        /\ age' = [p \in Peer |-> IF p \in lost THEN 0 ELSE ages[p]]
        /\ update' = IF new # NoId \/ lost # {} THEN {[new |-> new, lost |-> lost]} ELSE {}

\* Seeded fault: only a new peer's time is noted.
ReadId_FirstTimeOnly ==
    /\ update = {} /\ socket # <<>>
    /\ LET id == Head(socket)
       IN  /\ Loop(id, lastSeen \union {id}, age)
           /\ rejoined' = rejoined \ {id} /\ away' = away \ {id}
    /\ socket' = Tail(socket)
    /\ UNCHANGED <<air, lag, pending>>

ReadId ==
    /\ update = {} /\ socket # <<>>
    /\ LET id == Head(socket)
       IN  /\ Loop(id, lastSeen \union {id}, [age EXCEPT ![id] = 0])
           /\ rejoined' = rejoined \ {id} /\ away' = away \ {id}
    /\ socket' = Tail(socket)
    /\ UNCHANGED <<air, lag, pending>>

\* Seeded fault: that no id was read is not looked at.
ReadNothing_Unchecked ==
    /\ CaughtUp
    /\ Loop(NoId, lastSeen \union {NoId},
            [p \in Peer \union {NoId} |-> IF p = NoId THEN 0 ELSE age[p]])
    /\ UNCHANGED <<air, socket, lag, network, rejoined>>

\* The read deadline passes.
ReadNothing ==
    /\ CaughtUp
    /\ Loop(NoId, lastSeen, age)
    /\ UNCHANGED <<air, socket, lag, network, rejoined>>

\* Seeded fault: the loop does not wait for the order handler.
Forward_Overwrites ==
    /\ update # {}
    /\ pending' = {u.lost : u \in update}
    /\ update' = {}
    /\ UNCHANGED <<air, socket, lag, lastSeen, age, away, rejoined>>

\* Network's loop takes the update when the handler has taken the list before, and
\* hands on the lost peers: none, when the update tells of a new one.
Forward ==
    /\ update # {} /\ pending = {}
    /\ pending' = {u.lost : u \in update}
    /\ update' = {}
    /\ UNCHANGED <<air, socket, lag, lastSeen, age, away, rejoined>>

\* The order handler takes the list.
Hear ==
    /\ pending # {}
    /\ away' = away \union (UNION pending)
    /\ pending' = {}
    /\ UNCHANGED <<air, socket, lag, lastSeen, age, update, rejoined>>

Next ==
    \/ Tick
    \/ \E p \in Peer : Arrive(p) \/ Leave(p) \/ Join(p)
    \/ ReadId \/ ReadNothing \/ Forward \/ Hear

\* Time passes, the two loops go on, the handler comes back to its select, and
\* of a connected peer's datagrams some arrive.
Fairness ==
    /\ WF_vars(Tick)
    /\ WF_vars(ReadId \/ ReadNothing) /\ WF_vars(Forward) /\ WF_vars(Hear)
    /\ \A p \in Peer : WF_vars(Arrive(p))

Spec == Init /\ [][Next]_vars

FairSpec == Spec /\ Fairness

-----------------------------------------------------------------------------
\* A peer that has been connected since its id was last read is not lost, though
\* an update that waits for the order handler keeps the receiver from reading
\* the ids that have arrived.
OnlySilentAreLost ==
    \A u \in update : \A p \in u.lost : p \notin connected \/ p \in rejoined

\* The peers the updates us report lost.
Losses(us) == UNION {u.lost : u \in us}

\* No loss is left out: of a peer that is not in lastSeen (any more) the order
\* handler has been told, or will be by one of the two messages under way, though
\* an update may wait for it while peers come back and are lost once more.
LossesAreTold ==
    Peer \ lastSeen \subseteq away \union (UNION pending) \union Losses(update)

\* In the end every peer that stays away is reported lost, and no peer that stays
\* is: a loss that was told late, when the peer was back, is not repeated.
PeersAreTold ==
    \A p \in Peer :
        /\ <>[](p \notin connected) => <>[](p \in away)
        /\ <>[](p \in connected) => <>[](p \notin away)
=============================================================================
