---- MODULE Cabin ----
(***************************************************************************)
(* The cabin and its motor as the panel server simulates them: class       *)
(* SimulationState and the movement handlers of sim_server.d.  A cabin is  *)
(* the record of the four fields that move it; the event the server has    *)
(* scheduled (at most one) is determined by them: a departure when the     *)
(* motor runs at a floor, an arrival when it runs between two floors.      *)
(***************************************************************************)
EXTENDS ElevHandler

Dirn == {MD_Up, MD_Down}
Between == -1

CabinState == [currDirn   : MotorDirection,
               currFloor  : Floors \union {Between},
               departDirn : Dirn,
               prevFloor  : Floors]

isOutOfBounds(c) ==
    /\ c.currFloor = Between
    /\ \/ c.departDirn = MD_Down /\ c.prevFloor = 0
       \/ c.departDirn = MD_Up /\ c.prevFloor = NumFloors - 1

\* Where the server places the cabin when it starts.
randomStart ==
    {c \in CabinState :
        /\ c.currDirn = MD_Stop
        /\ c.currFloor \in {Between, c.prevFloor}
        /\ ~isOutOfBounds(c)}

\* The motor command: nothing happens when the motor runs that way already or
\* the cabin has left the shaft's bounds.
SetMotor(c, md) ==
    IF c.currDirn = md \/ isOutOfBounds(c) THEN c
    ELSE IF md # MD_Stop /\ c.currFloor # Between
         THEN [c EXCEPT !.currDirn = md, !.departDirn = md]
         ELSE [c EXCEPT !.currDirn = md]

\* The floor a running cabin between two floors reaches next: onward in the
\* direction it left, or back to the floor it left.
NextFloor(c) ==
    IF c.departDirn = c.currDirn THEN c.prevFloor + c.currDirn ELSE c.prevFloor

CanArrive(c) ==
    c.currFloor = Between /\ c.currDirn # MD_Stop /\ ~isOutOfBounds(c)

Arrive(c) == [c EXCEPT !.currFloor = NextFloor(c), !.prevFloor = NextFloor(c)]

CanDepart(c) == c.currFloor # Between /\ c.currDirn # MD_Stop

Depart(c) == [c EXCEPT !.currFloor = Between, !.departDirn = c.currDirn]

\* A cabin out of bounds is moved back by hand.
MoveWithinBounds(c) == [c EXCEPT !.currFloor = c.prevFloor, !.currDirn = MD_Stop]
=============================================================================
