---- MODULE MCHall ----
(***************************************************************************)
(* Values for model checking HallSystem.                                   *)
(***************************************************************************)
EXTENDS HallSystem

CONSTANTS a, b, s1, s2

OneSlot  == <<s1>>
TwoSlots == <<s1, s2>>

PreferA  == [s \in Slots |-> <<a, b>>]

\* One bound on the faults: as given, and none of the other kinds.
Only(most) == [k \in FaultKinds |-> IF k \in DOMAIN most THEN most[k] ELSE 0]

NoFaults  == {Only(<<>>)}
CabOrder  == {Only([rested |-> 1, cab |-> 1])}
Halts     == {Only([stuck |-> 1, cab |-> 1]), Only([rested |-> 1, cab |-> 1, early |-> 1])}
Outages   == {Only([lost |-> 2]), Only([cut |-> 1]), Only([dead |-> 1]),
              Only([lost |-> 1, rested |-> 1, early |-> 1])}
=============================================================================
