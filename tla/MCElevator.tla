---- MODULE MCElevator ----
(***************************************************************************)
(* Values for model checking ElevatorFSM.                                  *)
(***************************************************************************)
EXTENDS ElevatorFSM, TLC

\* Goroutines of one kind are interchangeable (safety runs only).
Interchangeable == Permutations(DoorTimers) \union Permutations(TimeoutTasks)

\* Two cab buttons and a hall button of the floor between them.
FewRequests == {Order(0, "BT_Cab"), Order(2, "BT_Cab"), Order(1, "BT_HallUp")}
=============================================================================
