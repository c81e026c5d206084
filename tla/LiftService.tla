---- MODULE LiftService ----
(***************************************************************************)
(* What one elevator promises, without its goroutines, timers and motor    *)
(* commands: calls are taken, a hall call may be withdrawn, the doors open *)
(* at a floor at rest, and closing them answers calls at that floor, the   *)
(* cab's call among them.  The cabin moves floor by floor, doors shut.     *)
(***************************************************************************)
EXTENDS Integers

CONSTANTS Calls,      \* the calls there are
          HallCalls,  \* those that another elevator may take over
          At(_),      \* the floor of a call
          Levels      \* the floors

VARIABLES calls, doorOpen, running, level, last

vars == <<calls, doorOpen, running, level, last>>

Nowhere == -1

Init ==
    /\ calls \in SUBSET Calls
    /\ doorOpen = FALSE
    /\ running \in BOOLEAN
    /\ last \in Levels
    /\ level \in {Nowhere, last}

\* A call is taken; it may set a resting cabin with its doors shut in motion.
Call(c) ==
    /\ calls' = calls \union {c}
    /\ running' \in BOOLEAN
    /\ doorOpen => ~running'
    /\ UNCHANGED <<doorOpen, level, last>>

Withdraw(c) ==
    /\ calls' = calls \ {c}
    /\ UNCHANGED <<doorOpen, running, level, last>>

OpenDoor ==
    /\ ~doorOpen /\ ~running /\ level # Nowhere
    /\ doorOpen' = TRUE
    /\ UNCHANGED <<calls, running, level, last>>

\* Answered calls are at this floor, and no cab call at this floor is left.
CloseDoor ==
    /\ doorOpen
    /\ doorOpen' = FALSE
    /\ calls' \in SUBSET calls
    /\ \A c \in calls \ calls' : At(c) = level
    /\ \A c \in calls' : At(c) = level => c \in HallCalls
    /\ running' \in BOOLEAN
    /\ UNCHANGED <<level, last>>

\* The motor is switched.
Drive ==
    /\ ~doorOpen
    /\ running' = ~running
    /\ UNCHANGED <<calls, doorOpen, level, last>>

Leave ==
    /\ running /\ ~doorOpen /\ level # Nowhere
    /\ level' = Nowhere
    /\ UNCHANGED <<calls, doorOpen, running, last>>

Reach(l) ==
    /\ running /\ ~doorOpen /\ level = Nowhere
    /\ l \in {last - 1, last, last + 1}
    /\ level' = l /\ last' = l
    /\ UNCHANGED <<calls, doorOpen, running>>

Next ==
    \/ \E c \in Calls : Call(c)
    \/ \E c \in HallCalls : Withdraw(c)
    \/ OpenDoor \/ CloseDoor \/ Drive \/ Leave
    \/ \E l \in Levels : Reach(l)

Spec == Init /\ [][Next]_vars
=============================================================================
