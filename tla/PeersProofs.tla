---- MODULE PeersProofs ----
(***************************************************************************)
(* Proofs about Peers: its types, that no connected peer is lost, and that *)
(* no loss is kept from the order handler.                                 *)
(***************************************************************************)
EXTENDS Peers, TLAPS

\* An id of p waits in the socket.
Waits(p) == \E i \in DOMAIN socket : socket[i] = p

\* What was last read of a connected peer is no older than its last datagram; if
\* that has arrived and not been read, the receiver has been late since.
AgeBound(p) == IF Waits(p) THEN MaxGap + lag ELSE gap[p]

Recent ==
    \A p \in connected :
        /\ gap[p] <= MaxGap
        /\ p \in lastSeen \ rejoined => age[p] <= AgeBound(p)

IInv == TypeOK /\ Recent /\ OnlySilentAreLost

-----------------------------------------------------------------------------
(* The socket.                                                              *)

LEMMA ArrivedWaits ==
  ASSUME TypeOK, NEW p \in Peer, socket' = Append(socket, p)
  PROVE  \A q \in Peer : Waits(q)' <=> Waits(q) \/ q = p
<1>1. /\ DOMAIN socket = 1 .. Len(socket)
      /\ DOMAIN socket' = 1 .. (Len(socket) + 1)
      /\ Len(socket) \in Nat
      /\ \A i \in 1 .. Len(socket) : socket'[i] = socket[i]
      /\ socket'[Len(socket) + 1] = p
  BY DEF TypeOK
<1> QED
  BY <1>1 DEF Waits

LEMMA OthersStillWait ==
  ASSUME TypeOK, socket # <<>>, socket' = Tail(socket)
  PROVE  \A q \in Peer \ {Head(socket)} : Waits(q)' <=> Waits(q)
<1>1. /\ DOMAIN socket = 1 .. Len(socket)
      /\ DOMAIN socket' = 1 .. (Len(socket) - 1)
      /\ Len(socket) \in Nat \ {0}
      /\ Head(socket) = socket[1]
      /\ \A i \in 1 .. (Len(socket) - 1) : socket'[i] = socket[i + 1]
  BY DEF TypeOK
<1>2. SUFFICES ASSUME NEW q \in Peer, q # socket[1]
               PROVE  Waits(q)' <=> Waits(q)
  BY <1>1
<1>3. ASSUME Waits(q)'
      PROVE  Waits(q)
  <2>1. PICK i \in 1 .. (Len(socket) - 1) : socket[i + 1] = q
    BY <1>1, <1>3 DEF Waits
  <2> QED
    BY <1>1, <2>1 DEF Waits
<1>4. ASSUME Waits(q)
      PROVE  Waits(q)'
  <2>1. PICK i \in 1 .. Len(socket) : socket[i] = q
    BY <1>1, <1>4 DEF Waits
  <2>2. i - 1 \in 1 .. (Len(socket) - 1) /\ (i - 1) + 1 = i
    BY <1>1, <1>2, <2>1
  <2> QED
    BY <1>1, <2>1, <2>2 DEF Waits
<1> QED
  BY <1>3, <1>4

-----------------------------------------------------------------------------
(* One lemma for each action.                                               *)

LEMMA Initially == Init => IInv
  BY TimesAssumption DEF Init, IInv, TypeOK, Recent, OnlySilentAreLost

LEMMA TickKeeps ==
  ASSUME IInv, Tick
  PROVE  IInv'
<1>1. TypeOK'
  BY TimesAssumption DEF IInv, TypeOK, Tick, Older, network
<1>2. Recent'
  <2>1. SUFFICES ASSUME NEW p \in connected
                 PROVE  /\ gap'[p] <= MaxGap
                        /\ p \in lastSeen \ rejoined => age'[p] <= AgeBound(p)'
    BY DEF Recent, Tick
  <2>2. /\ gap[p] \in Nat /\ age[p] \in Nat /\ lag \in Nat
        /\ gap[p] < MaxGap /\ gap'[p] = gap[p] + 1
        /\ p \in lastSeen => age'[p] \in Nat /\ age'[p] <= age[p] + 1
    BY TimesAssumption DEF IInv, TypeOK, Tick, Older
  <2>3. Waits(p)' <=> Waits(p)
    BY DEF Tick, Waits
  <2>4. Waits(p) => lag' = lag + 1
    BY DEF Tick, Waits, CaughtUp
  <2>5. p \in lastSeen \ rejoined => age[p] <= AgeBound(p)
    BY DEF IInv, Recent
  <2>6. CASE Waits(p)
    BY <2>2, <2>3, <2>4, <2>5, <2>6, TimesAssumption DEF AgeBound
  <2>7. CASE ~Waits(p)
    BY <2>2, <2>3, <2>5, <2>7, TimesAssumption DEF AgeBound
  <2> QED
    BY <2>6, <2>7
<1>3. OnlySilentAreLost'
  BY DEF IInv, OnlySilentAreLost, Tick
<1> QED
  BY <1>1, <1>2, <1>3 DEF IInv

LEMMA ArriveKeeps ==
  ASSUME IInv, NEW p \in Peer, Arrive(p)
  PROVE  IInv'
<1>1. TypeOK'
  BY DEF IInv, TypeOK, Arrive, network
<1>2. Recent'
  <2>1. SUFFICES ASSUME NEW q \in connected
                 PROVE  /\ gap'[q] <= MaxGap
                        /\ q \in lastSeen \ rejoined => age[q] <= AgeBound(q)'
    BY DEF Recent, Arrive
  <2>2. Waits(q)' <=> Waits(q) \/ q = p
    BY ArrivedWaits DEF IInv, TypeOK, Arrive
  <2>3. /\ gap[q] \in Nat /\ gap[q] <= MaxGap /\ lag \in Nat
        /\ q \in lastSeen \ rejoined => age[q] <= AgeBound(q)
    BY DEF IInv, TypeOK, Recent
  <2>4. gap'[q] = IF q = p THEN 0 ELSE gap[q]
    BY DEF Arrive, IInv, TypeOK
  <2>5. lag' = lag /\ age[q] \in Nat
    BY DEF Arrive, IInv, TypeOK
  <2> QED
    BY <2>2, <2>3, <2>4, <2>5, TimesAssumption DEF AgeBound
<1>3. OnlySilentAreLost'
  BY DEF IInv, OnlySilentAreLost, Arrive
<1> QED
  BY <1>1, <1>2, <1>3 DEF IInv

LEMMA LeaveKeeps ==
  ASSUME IInv, NEW p \in Peer, Leave(p)
  PROVE  IInv'
<1>1. TypeOK'
  BY DEF IInv, TypeOK, Leave, network
<1>2. Recent' /\ OnlySilentAreLost'
  BY DEF IInv, Recent, AgeBound, Waits, OnlySilentAreLost, Leave
<1> QED
  BY <1>1, <1>2 DEF IInv

LEMMA JoinKeeps ==
  ASSUME IInv, NEW p \in Peer, Join(p)
  PROVE  IInv'
<1>1. TypeOK'
  BY DEF IInv, TypeOK, Join, network
<1>2. Recent'
  <2>1. \A q \in connected : q # p /\ gap'[q] = gap[q] /\ (q \in rejoined' <=> q \in rejoined)
    BY DEF IInv, TypeOK, Join
  <2>2. p \in rejoined' /\ gap'[p] <= MaxGap
    BY TimesAssumption DEF IInv, TypeOK, Join
  <2>3. connected' = connected \union {p} /\ UNCHANGED <<lastSeen, age, lag, socket>>
    BY DEF Join
  <2> QED
    BY <2>1, <2>2, <2>3 DEF IInv, Recent, AgeBound, Waits
<1>3. OnlySilentAreLost'
  BY DEF IInv, OnlySilentAreLost, Join
<1> QED
  BY <1>1, <1>2, <1>3 DEF IInv

\* A connected peer is younger than the timeout.
LEMMA YoungEnough ==
  ASSUME IInv
  PROVE  \A p \in connected : p \in lastSeen \ rejoined => age[p] <= Timeout
<1>1. SUFFICES ASSUME NEW p \in connected, p \in lastSeen \ rejoined
               PROVE  age[p] <= Timeout
  OBVIOUS
<1>2. age[p] <= AgeBound(p) /\ gap[p] <= MaxGap
  BY <1>1 DEF IInv, Recent
<1>3. age[p] \in Nat /\ gap[p] \in Nat /\ lag \in 0 .. MaxLag
  BY <1>1 DEF IInv, TypeOK
<1>4. CASE Waits(p)
  BY <1>2, <1>3, <1>4, TimesAssumption DEF AgeBound
<1>5. CASE ~Waits(p)
  BY <1>2, <1>3, <1>5, TimesAssumption DEF AgeBound
<1> QED
  BY <1>4, <1>5

LEMMA ReadIdKeeps ==
  ASSUME IInv, ReadId
  PROVE  IInv'
<1> DEFINE id == Head(socket)
           ages == [age EXCEPT ![id] = 0]
<1>1. id \in Peer /\ ages \in [Peer -> Nat] /\ Tail(socket) \in Seq(Peer)
  BY DEF ReadId, IInv, TypeOK
<1>2. \A p \in Peer : ages[p] = IF p = id THEN 0 ELSE age[p]
  BY <1>1 DEF IInv, TypeOK
<1>3. \A p \in connected : p \in (lastSeen \union {id}) \ (rejoined \ {id})
                               => ages[p] <= Timeout
  <2>1. \A p \in connected : p \in lastSeen \ rejoined => age[p] <= Timeout
    BY YoungEnough
  <2> QED
    BY <1>1, <1>2, <2>1, TimesAssumption DEF IInv, TypeOK
<1>4. /\ Loop(id, lastSeen \union {id}, ages)
      /\ rejoined' = rejoined \ {id} /\ away' = away \ {id}
      /\ socket # <<>> /\ socket' = Tail(socket)
      /\ UNCHANGED <<air, lag, pending>>
  BY DEF ReadId
<1>5. /\ lastSeen' \in SUBSET Peer /\ age' \in [Peer -> Nat]
      /\ update' \in SUBSET Updates /\ OnlySilentAreLost'
      /\ lastSeen' \subseteq lastSeen \union {id}
      /\ \A p \in lastSeen' : age'[p] = ages[p]
  <2> HIDE DEF id, ages
  <2>1. lastSeen' \in SUBSET Peer /\ lastSeen' \subseteq lastSeen \union {id}
    BY <1>1, <1>4 DEF Loop, IInv, TypeOK
  <2>2. age' \in [Peer -> Nat] /\ \A p \in lastSeen' : age'[p] = ages[p]
    BY <1>1, <1>4, <2>1 DEF Loop
  <2>3. update' \in SUBSET Updates
    BY <1>1, <1>4 DEF Loop, Updates, IInv, TypeOK
  <2>4. ASSUME NEW u \in update', NEW p \in u.lost
        PROVE  p \notin connected \/ p \in rejoined'
    <3>1. p \in lastSeen \union {id} /\ ages[p] > Timeout /\ p \in Peer
      BY <1>1, <1>4, <2>4 DEF Loop, IInv, TypeOK
    <3>2. ages[p] \in Nat
      BY <1>1, <3>1
    <3> QED
      BY <1>3, <1>4, <3>1, <3>2, TimesAssumption
  <2> QED
    BY <1>4, <2>1, <2>2, <2>3, <2>4 DEF OnlySilentAreLost, air
<1>6. TypeOK'
  BY <1>1, <1>4, <1>5 DEF IInv, TypeOK, air, network
<1>7. Recent'
  <2>1. SUFFICES ASSUME NEW p \in connected
                 PROVE  /\ gap[p] <= MaxGap
                        /\ p \in lastSeen' \ rejoined' => age'[p] <= AgeBound(p)'
    BY <1>4 DEF Recent, air
  <2>2. gap[p] <= MaxGap /\ gap[p] \in Nat /\ lag \in Nat
    BY DEF IInv, TypeOK, Recent
  <2>3. ASSUME p \in lastSeen' \ rejoined'
        PROVE  age'[p] <= AgeBound(p)'
    <3>1. CASE p = id
      BY <1>2, <1>4, <1>5, <2>2, <2>3, <3>1, TimesAssumption DEF AgeBound, air, IInv, TypeOK
    <3>2. CASE p # id
      <4>1. Waits(p)' <=> Waits(p)
        BY <1>4, <3>2, OthersStillWait DEF IInv, TypeOK
      <4>2. age'[p] = age[p] /\ age[p] <= AgeBound(p)
        BY <1>2, <1>4, <1>5, <2>3, <3>2 DEF IInv, TypeOK, Recent
      <4> QED
        BY <1>4, <4>1, <4>2 DEF AgeBound, air
    <3> QED
      BY <3>1, <3>2
  <2> QED
    BY <2>2, <2>3
<1> QED
  BY <1>5, <1>6, <1>7 DEF IInv

LEMMA ReadNothingKeeps ==
  ASSUME IInv, ReadNothing
  PROVE  IInv'
<1>1. \A p \in connected : p \in lastSeen \ rejoined => age[p] <= Timeout
  BY YoungEnough
<1>2. /\ Loop(NoId, lastSeen, age) /\ UNCHANGED <<air, socket, lag, network, rejoined>>
  BY DEF ReadNothing
<1>3. /\ lastSeen' \in SUBSET Peer /\ age' \in [Peer -> Nat]
      /\ update' \in SUBSET Updates /\ OnlySilentAreLost'
      /\ lastSeen' \subseteq lastSeen
      /\ \A p \in lastSeen' : age'[p] = age[p]
  <2>1. lastSeen' \in SUBSET Peer /\ lastSeen' \subseteq lastSeen
    BY <1>2 DEF Loop, IInv, TypeOK
  <2>2. age' \in [Peer -> Nat] /\ \A p \in lastSeen' : age'[p] = age[p]
    BY <1>2, <2>1 DEF Loop, IInv, TypeOK
  <2>3. update' \in SUBSET Updates
    BY <1>2 DEF Loop, Updates, IInv, TypeOK
  <2>4. ASSUME NEW u \in update', NEW p \in u.lost
        PROVE  p \notin connected \/ p \in rejoined'
    <3>1. p \in lastSeen /\ age[p] > Timeout /\ age[p] \in Nat
      BY <1>2, <2>4 DEF Loop, IInv, TypeOK
    <3> QED
      BY <1>1, <1>2, <3>1, TimesAssumption
  <2> QED
    BY <1>2, <2>1, <2>2, <2>3, <2>4 DEF OnlySilentAreLost, air
<1>4. TypeOK'
  BY <1>2, <1>3 DEF IInv, TypeOK, air, network
<1>5. Recent'
  BY <1>2, <1>3 DEF IInv, Recent, AgeBound, Waits, air
<1> QED
  BY <1>3, <1>4, <1>5 DEF IInv

LEMMA HandOnKeeps ==
  ASSUME IInv, Forward \/ Hear
  PROVE  IInv'
<1>1. TypeOK'
  <2>1. CASE Forward
    <3>1. pending' \in SUBSET (SUBSET Peer)
      BY <2>1 DEF IInv, TypeOK, Forward, Updates
    <3> QED
      BY <2>1, <3>1 DEF IInv, TypeOK, Forward, air
  <2>2. CASE Hear
    BY <2>2 DEF IInv, TypeOK, Hear, air
  <2> QED
    BY <2>1, <2>2
<1>2. Recent' /\ OnlySilentAreLost'
  BY DEF IInv, Recent, AgeBound, Waits, OnlySilentAreLost, Forward, Hear, air
<1> QED
  BY <1>1, <1>2 DEF IInv

LEMMA Kept == IInv /\ [Next]_vars => IInv'
<1>1. SUFFICES ASSUME IInv, Next \/ UNCHANGED vars
               PROVE  IInv'
  OBVIOUS
<1>2. CASE UNCHANGED vars
  BY <1>1, <1>2
  DEF IInv, TypeOK, Recent, AgeBound, Waits, OnlySilentAreLost, vars, air, network
<1> QED
  BY <1>1, <1>2, TickKeeps, ArriveKeeps, LeaveKeeps, JoinKeeps, ReadIdKeeps,
     ReadNothingKeeps, HandOnKeeps DEF Next

-----------------------------------------------------------------------------
\* Every variable keeps a value of its type: no empty id gets into lastSeen.
THEOREM TypeCorrect == Spec => []TypeOK
<1>1. IInv => TypeOK
  BY DEF IInv
<1> QED
  BY <1>1, Initially, Kept, PTL DEF Spec

\* Whatever the number of peers and however their ids wait for a receiver that
\* waits for the order handler: if the time without a datagram and the time to
\* catch up are together within the timeout, no connected peer is reported lost.
THEOREM NoConnectedPeerIsLost == Spec => []OnlySilentAreLost
<1>1. IInv => OnlySilentAreLost
  BY DEF IInv
<1> QED
  BY <1>1, Initially, Kept, PTL DEF Spec

-----------------------------------------------------------------------------
(* The losses.                                                              *)

\* What a loop takes out of lastSeen it puts into an update.
LEMMA LoopTells ==
  ASSUME NEW id, NEW seen, NEW ages, Loop(id, seen, ages)
  PROVE  seen \ lastSeen' \subseteq Losses(update')
<1> DEFINE lost == {p \in seen : ages[p] > Timeout}
           new  == IF id \in lastSeen THEN NoId ELSE id
<1>1. /\ lastSeen' = seen \ lost
      /\ update' = IF new # NoId \/ lost # {} THEN {[new |-> new, lost |-> lost]} ELSE {}
  BY DEF Loop
<1>2. CASE lost = {}
  BY <1>1, <1>2
<1>3. CASE lost # {}
  <2>1. update' = {[new |-> new, lost |-> lost]}
    BY <1>1, <1>3
  <2>2. Losses(update') = lost
    BY <2>1 DEF Losses
  <2> QED
    BY <1>1, <2>2
<1> QED
  BY <1>2, <1>3

LEMMA LossesKept == TypeOK /\ LossesAreTold /\ [Next]_vars => LossesAreTold'
<1>1. SUFFICES ASSUME TypeOK, LossesAreTold, [Next]_vars
               PROVE  LossesAreTold'
  OBVIOUS
<1>2. CASE ReadId
  <2> DEFINE id == Head(socket)
  <2>1. /\ Loop(id, lastSeen \union {id}, [age EXCEPT ![id] = 0])
        /\ update = {} /\ away' = away \ {id} /\ pending' = pending
    BY <1>2 DEF ReadId
  <2>2. (lastSeen \union {id}) \ lastSeen' \subseteq Losses(update')
    BY <2>1, LoopTells
  <2>3. Peer \ lastSeen \subseteq away \union (UNION pending)
    BY <1>1, <2>1 DEF LossesAreTold, Losses
  <2> HIDE DEF id
  <2> QED
    BY <2>1, <2>2, <2>3 DEF LossesAreTold
<1>3. CASE ReadNothing
  <2>1. Loop(NoId, lastSeen, age) /\ update = {} /\ UNCHANGED network
    BY <1>3 DEF ReadNothing, CaughtUp
  <2>2. lastSeen \ lastSeen' \subseteq Losses(update')
    BY <2>1, LoopTells
  <2>3. Peer \ lastSeen \subseteq away \union (UNION pending)
    BY <1>1, <2>1 DEF LossesAreTold, Losses
  <2> QED
    BY <2>1, <2>2, <2>3 DEF LossesAreTold, network
<1>4. CASE Forward
  <2>1. UNION pending = {}
    BY <1>4 DEF Forward
  <2>2. UNION pending' = Losses(update) /\ UNCHANGED <<away, lastSeen>>
    BY <1>4 DEF Forward, Losses
  <2> QED
    BY <1>1, <2>1, <2>2 DEF LossesAreTold
<1>5. CASE Hear
  BY <1>1, <1>5 DEF LossesAreTold, Hear
<1>6. CASE UNCHANGED <<lastSeen, update, network>>
  BY <1>1, <1>6 DEF LossesAreTold, network
<1> QED
  BY <1>1, <1>2, <1>3, <1>4, <1>5, <1>6 DEF Next, Tick, Arrive, Leave, Join, vars, network

\* Whatever peers come and go while an update waits for Network's loop and a list of
\* lost peers for the order handler, every peer that is taken out of lastSeen is told
\* to the order handler, or one of these two messages will tell it.
THEOREM NoLossIsKeptBack == Spec => []LossesAreTold
<1>1. Init => LossesAreTold
  BY DEF Init, LossesAreTold
<1> QED
  BY <1>1, LossesKept, TypeCorrect, PTL DEF Spec
=============================================================================
