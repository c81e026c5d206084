---- MODULE PanelConn ----
(***************************************************************************)
(* The driver of the panel, Elevator/elevio, and the panel server at the   *)
(* other end of its one TCP connection.  The polling goroutines ask and    *)
(* wait for the answer, the goroutines that set lamps and the motor only   *)
(* write; the mutex _mtx keeps a question and its answer together.         *)
(*                                                                         *)
(* The connection delivers in order.  The server takes one request at a    *)
(* time.  Nothing is known of when the channel of a poller is received     *)
(* from, but for those in Listened.                                        *)
(***************************************************************************)
EXTENDS Integers, Sequences

CONSTANTS Pollers, Inputs, Values, Rest, Visits, SilentAtRest,   \* see PanelRead
    Setters,   \* the goroutines that call a setter
    NoOne,     \* nobody: the mutex is free
    Command,   \* a setter's request
    Buffer,    \* requests the connection holds before a Write blocks
    Listened   \* the pollers whose reports are received sooner or later

ASSUME PanelAssumption ==
    /\ Rest \in Values
    /\ Visits \in [Pollers -> Seq(Inputs)]
    /\ \A p \in Pollers : Visits[p] # <<>>
ASSUME GoroutinesAssumption ==
    /\ Pollers \cap Setters = {}
    /\ NoOne \notin Pollers \union Setters
    /\ Command \notin Inputs
    /\ Listened \subseteq Pollers
ASSUME BufferAssumption == Buffer \in Nat

VARIABLES
    panel,  \* what each input shows
    prev,   \* prev of each input's poller
    at,     \* how far each poller is in its loops
    got,    \* the last answer each poller has read
    pc,     \* where each goroutine is
    mutex,  \* who holds _mtx
    up,     \* requests on the way to the server
    down    \* answers on the way back

vars == <<panel, prev, at, got, pc, mutex, up, down>>

Goroutines == Pollers \union Setters

Answer == [input : Inputs, value : Values]

\* A poller that is asked for an answer, and the value it is given.
HasAnswer(p) == pc[p] = "asked" /\ down # <<>>

\* The answer is as good as read when the server has given it.
lookState == [p \in Pollers |-> IF HasAnswer(p) THEN "seen"
                               ELSE IF pc[p] = "report" THEN "report" ELSE "look"]
answered  == [p \in Pollers |-> IF HasAnswer(p) THEN Head(down).value ELSE got[p]]

P == INSTANCE PanelRead WITH state <- lookState, got <- answered

Input(p) == Visits[p][at[p]]

TypeOK ==
    /\ panel \in [Inputs -> Values]
    /\ prev \in [Inputs -> Values]
    /\ at \in [Pollers -> Nat] /\ \A p \in Pollers : at[p] \in DOMAIN Visits[p]
    /\ got \in [Pollers -> Values]
    /\ pc \in [Goroutines -> {"call", "locked", "asked", "report"}]
    /\ mutex \in Goroutines \union {NoOne}
    /\ up \in Seq(Inputs \union {Command})
    /\ down \in Seq(Answer)

Init ==
    /\ panel \in [Inputs -> Values]
    /\ prev = [i \in Inputs |-> Rest]
    /\ at = [p \in Pollers |-> 1]
    /\ got = [p \in Pollers |-> Rest]
    /\ pc = [g \in Goroutines |-> "call"]
    /\ mutex = NoOne
    /\ up = <<>> /\ down = <<>>

\* Seeded fault: the mutex is not asked for.
Lock_Always(g) ==
    /\ pc[g] = "call"
    /\ mutex' = g
    /\ pc' = [pc EXCEPT ![g] = "locked"]
    /\ UNCHANGED <<panel, prev, at, got, up, down>>

Lock(g) ==
    /\ pc[g] = "call"
    /\ mutex = NoOne
    /\ mutex' = g
    /\ pc' = [pc EXCEPT ![g] = "locked"]
    /\ UNCHANGED <<panel, prev, at, got, up, down>>

\* SetMotorDirection, SetButtonLamp and the others: written, and done.
Set(g) ==
    /\ pc[g] = "locked" /\ Len(up) < Buffer
    /\ up' = Append(up, Command)
    /\ pc' = [pc EXCEPT ![g] = "call"]
    /\ mutex' = NoOne
    /\ UNCHANGED <<panel, prev, at, got, down>>

\* getButton, getFloor, getStop, getObstruction write their question ...
Ask(p) ==
    /\ pc[p] = "locked" /\ Len(up) < Buffer
    /\ up' = Append(up, Input(p))
    /\ pc' = [pc EXCEPT ![p] = "asked"]
    /\ UNCHANGED <<panel, prev, at, got, mutex, down>>

\* Seeded fault: the poller remembers what the panel shows by then.
GoOn_PanelNow(p, v) ==
    /\ prev' = [prev EXCEPT ![Input(p)] = panel[Input(p)]]
    /\ at' = [at EXCEPT ![p] = P!NextAt(p, @)]
    /\ pc' = [pc EXCEPT ![p] = "call"]

\* The poller goes on to its next input.
GoOn(p, v) ==
    /\ prev' = [prev EXCEPT ![Input(p)] = v]
    /\ at' = [at EXCEPT ![p] = P!NextAt(p, @)]
    /\ pc' = [pc EXCEPT ![p] = "call"]

\* Seeded fault: a change is reported with the mutex held.
Read_KeepsMutex(p) ==
    /\ HasAnswer(p)
    /\ got' = [got EXCEPT ![p] = Head(down).value]
    /\ down' = Tail(down)
    /\ IF P!News(p, prev[Input(p)], Head(down).value)
       THEN pc' = [pc EXCEPT ![p] = "report"] /\ UNCHANGED <<prev, at, mutex>>
       ELSE GoOn(p, Head(down).value) /\ mutex' = NoOne
    /\ UNCHANGED <<panel, up>>

\* ... and read the first answer that comes; the poller compares it.
Read(p) ==
    /\ HasAnswer(p)
    /\ got' = [got EXCEPT ![p] = Head(down).value]
    /\ down' = Tail(down)
    /\ mutex' = NoOne
    /\ IF P!News(p, prev[Input(p)], Head(down).value)
       THEN pc' = [pc EXCEPT ![p] = "report"] /\ UNCHANGED <<prev, at>>
       ELSE GoOn(p, Head(down).value)
    /\ UNCHANGED <<panel, up>>

\* Its report is received.
Report(p) ==
    /\ pc[p] = "report"
    /\ GoOn(p, got[p])
    /\ UNCHANGED <<panel, got, mutex, up, down>>

\* The panel server takes a request; a question it answers.
Serve ==
    /\ up # <<>>
    /\ up' = Tail(up)
    /\ down' = IF Head(up) = Command THEN down
               ELSE Append(down, [input |-> Head(up), value |-> panel[Head(up)]])
    /\ UNCHANGED <<panel, prev, at, got, pc, mutex>>

\* People press and release, the cabin comes and goes.
Change(i) ==
    /\ \E v \in Values : panel' = [panel EXCEPT ![i] = v]
    /\ UNCHANGED <<prev, at, got, pc, mutex, up, down>>

Poll(p) == Lock(p) \/ Ask(p) \/ Read(p) \/ Report(p)

Next ==
    \/ \E p \in Pollers : Poll(p)
    \/ \E g \in Setters : Lock(g) \/ Set(g)
    \/ Serve
    \/ \E i \in Inputs : Change(i)

\* A goroutine that waits for the mutex gets it: Go's mutex does not starve.
Fairness ==
    /\ \A g \in Goroutines : SF_vars(Lock(g))
    /\ \A g \in Setters : WF_vars(Set(g))
    /\ \A p \in Pollers : WF_vars(Ask(p)) /\ WF_vars(Read(p))
    /\ \A p \in Listened : WF_vars(Report(p))
    /\ WF_vars(Serve)

Spec == Init /\ [][Next]_vars

FairSpec == Spec /\ Fairness

-----------------------------------------------------------------------------
\* The answer a getter reads is the one to its own question, whoever else polls
\* or sets a lamp: nothing in the four bytes says what they answer.
OwnAnswer ==
    \A p \in Pollers : HasAnswer(p) => Head(down).input = Input(p)

\* Polling over the shared connection is polling the panel itself: what a poller
\* reports and remembers was shown between its question and its answer.
ReadsThePanel == P!Spec

\* What an input shows for good is in the end what its poller remembers, whatever it
\* has noticed before, though the stop button's poller waits for ever for a receiver.
KeptIsNoticed ==
    \A p \in Listened : \A k \in DOMAIN Visits[p] : \A v \in Values :
        <>[](panel[Visits[p][k]] = v) => <>[](prev[Visits[p][k]] = v)
=============================================================================
