---- MODULE PanelRead ----
(***************************************************************************)
(* What the pollers of elevio promise: each looks at its inputs in turn,   *)
(* as if the panel were in the program's own memory, and reports the       *)
(* changes.  PanelConn shows that asking the panel over a shared           *)
(* connection comes to the same.                                           *)
(***************************************************************************)
EXTENDS Integers, Sequences

CONSTANTS
    Pollers,       \* the polling goroutines
    Inputs,        \* buttons, switches and sensors of the panel
    Values,        \* what they show
    Rest,          \* what they show when nothing is pressed or reached
    Visits,        \* for each poller its inputs, in the order of its loops
    SilentAtRest   \* the pollers that do not report a return to Rest

VARIABLES
    panel,  \* what each input shows
    prev,   \* prev of each input's poller
    at,     \* how far each poller is in its loops
    state,  \* whether a poller is to look, has looked, or reports
    got     \* what a poller has seen

vars == <<panel, prev, at, state, got>>

\* A value worth reporting.
News(p, old, v) == v # old /\ (v # Rest \/ p \notin SilentAtRest)

\* Seeded fault: the loop does not start again.
NextAt_PastEnd(p, k) == k + 1

NextAt(p, k) == IF k = Len(Visits[p]) THEN 1 ELSE k + 1

Input(p) == Visits[p][at[p]]

Init ==
    /\ panel \in [Inputs -> Values]
    /\ prev = [i \in Inputs |-> Rest]
    /\ at = [p \in Pollers |-> 1]
    /\ state = [p \in Pollers |-> "look"]
    /\ got = [p \in Pollers |-> Rest]

Change(i) ==
    /\ \E v \in Values : panel' = [panel EXCEPT ![i] = v]
    /\ UNCHANGED <<prev, at, state, got>>

Look(p) ==
    /\ state[p] = "look"
    /\ state' = [state EXCEPT ![p] = "seen"]
    /\ got' = [got EXCEPT ![p] = panel[Input(p)]]
    /\ UNCHANGED <<panel, prev, at>>

\* The poller goes on to its next input.
GoOn(p) ==
    /\ prev' = [prev EXCEPT ![Input(p)] = got[p]]
    /\ at' = [at EXCEPT ![p] = NextAt(p, @)]
    /\ state' = [state EXCEPT ![p] = "look"]
    /\ UNCHANGED <<panel, got>>

Pass(p) ==
    /\ state[p] = "seen"
    /\ ~News(p, prev[Input(p)], got[p])
    /\ GoOn(p)

Announce(p) ==
    /\ state[p] = "seen"
    /\ News(p, prev[Input(p)], got[p])
    /\ state' = [state EXCEPT ![p] = "report"]
    /\ UNCHANGED <<panel, prev, at, got>>

Report(p) ==
    /\ state[p] = "report"
    /\ GoOn(p)

Next ==
    \/ \E i \in Inputs : Change(i)
    \/ \E p \in Pollers : Look(p) \/ Pass(p) \/ Announce(p) \/ Report(p)

Spec == Init /\ [][Next]_vars
=============================================================================
