---- MODULE MCPanel ----
(***************************************************************************)
(* Values for model checking PanelConn.                                    *)
(***************************************************************************)
EXTENDS PanelConn

CONSTANTS PollButtons, PollStopButton, b1, b2, stop

ThePollers == {PollButtons, PollStopButton}
TheVisits  == [p \in ThePollers |-> IF p = PollButtons THEN <<b1, b2>> ELSE <<stop>>]
=============================================================================
