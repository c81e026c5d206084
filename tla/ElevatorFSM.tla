---- MODULE ElevatorFSM ----
(***************************************************************************)
(* One elevator: the event loop of Elevator/elevatorFSM.go, the doorTimer  *)
(* and onTimeout goroutines it starts, the pollers of elevio that feed it, *)
(* InitializeElevator, and the cabin, the lamps and the switch at the other*)
(* end of the connection to the panel server.                              *)
(*                                                                         *)
(* Every channel of the program is unbuffered, so a send and its receive   *)
(* are one step; between two channel operations, and between two lamp or   *)
(* motor commands of a goroutine, every other goroutine may move.          *)
(*                                                                         *)
(* What is left out: the clock.  Only the orders of magnitude the code     *)
(* relies on remain, in the guards of FloorArrival, FloorDeparture and     *)
(* TimerFires (20 ms polls against half a second and more of travel and    *)
(* three seconds of open door).                                            *)
(***************************************************************************)
EXTENDS Cabin

CONSTANTS
    Requests,        \* the button events that may occur
    DoorTimers,      \* doorTimer goroutines that may exist at once
    TimeoutTasks,    \* onTimeout goroutines that may exist at once
    RestoredStates,  \* the State values a restart may load from file
    DoorOpensAtOnce  \* TRUE: doorOpen is received before any further order

ASSUME RequestsAssumption == Requests \subseteq ButtonEvent
ASSUME RestoredAssumption == RestoredStates \subseteq ElevatorState
ASSUME DoorOpensAtOnceAssumption == DoorOpensAtOnce \in BOOLEAN
ASSUME GoroutinesAssumption == DoorTimers \cap TimeoutTasks = {}

VARIABLES
    booted,     \* InitializeElevator has returned
    elev,       \* *elevPt
    timer,      \* where each doorTimer goroutine is
    task,       \* where each onTimeout goroutine is
    polled,     \* prev of PollFloorSensor
    obstrPoll,  \* PollObstructionSwitch: prev, and whether it is sending
    cabin,      \* the cabin and its motor
    doorLamp,   \* the door-open lamp
    cabLamps,   \* the floors whose cab button lamp is lit
    obstr       \* the obstruction switch

vars == <<booted, elev, timer, task, polled, obstrPoll,
          cabin, doorLamp, cabLamps, obstr>>

goroutines == <<timer, task>>
pollers    == <<polled, obstrPoll>>

HallRequests == {o \in Requests : o.Button # "BT_Cab"}

TimerPhase == {"none",       \* not running
               "opening",    \* doorOpen <- true
               "lamp",       \* SetDoorOpenLamp(true), NewTimer
               "running",    \* in select, the timer counts
               "stopped",    \* in select, the timer was stopped
               "fired",      \* in select, timer.C is readable
               "finishing"}  \* finished <- true

TaskPhase == {"none", "start", "check", "sleep", "up", "down"}

\* Seeded fault: a door timer is also started by an open door.
Stopping_OpenToo == {"ST_StopUp", "ST_StopDown", "ST_DoorOpen"}

Stopping == {"ST_StopUp", "ST_StopDown"}
InSelect == {"running", "stopped", "fired"}

TypeOK ==
    /\ booted \in BOOLEAN
    /\ elev \in ElevatorStatus
    /\ timer \in [DoorTimers -> TimerPhase]
    /\ task \in [TimeoutTasks -> TaskPhase]
    /\ polled \in Floors \union {Between}
    /\ obstrPoll \in [prev : BOOLEAN, sending : BOOLEAN]
    /\ cabin \in CabinState
    /\ doorLamp \in BOOLEAN
    /\ cabLamps \in SUBSET Floors
    /\ obstr \in BOOLEAN

-----------------------------------------------------------------------------
(* Start-up.  The initial states are those in which InitializeElevator      *)
(* waits for the first floor: it has the status the order handler loaded    *)
(* (the copy that is sent and saved is taken without a lock, so its fields  *)
(* need not agree), has lit the lamps by it and has sent the cabin down.    *)
(* Endstation and Floor are overwritten before they are read.               *)

Init ==
    /\ booted = FALSE
    /\ elev \in [Endstation : {0}, Floor : {0}, Available : {FALSE},
                 Orders : SUBSET Requests, Direction : MotorDirection,
                 State : RestoredStates]
    /\ timer = [t \in DoorTimers |-> "none"]
    /\ task = [k \in TimeoutTasks |-> "none"]
    /\ polled = Between
    /\ obstrPoll = [prev |-> FALSE, sending |-> FALSE]
    /\ cabin \in {SetMotor(c, MD_Down) : c \in randomStart}
    /\ doorLamp = (elev.State = "ST_DoorOpen")
    /\ cabLamps = Inside(elev)
    /\ obstr \in BOOLEAN

\* Seeded fault: the door timer knows stops on the way up only.
StartDoorTimer_UpOnly(state) ==
    IF state = "ST_StopUp"
    THEN \E t \in DoorTimers :
            timer[t] = "none" /\ timer' = [timer EXCEPT ![t] = "opening"]
    ELSE timer' = timer

\* `go doorTimer(elevPt.State, ...)`: the goroutine outlives its first line only
\* when the state it was given is a stop.
StartDoorTimer(state) ==
    IF state \in Stopping
    THEN \E t \in DoorTimers :
            timer[t] = "none" /\ timer' = [timer EXCEPT ![t] = "opening"]
    ELSE timer' = timer

\* Seeded fault: the motor starts and the state stays.
MovesDown_NoState(e) == [e EXCEPT !.Direction = MD_Down]

\* The motor and status an elevator leaves a floor with.
MovesDown(e) == [e EXCEPT !.Direction = MD_Down, !.State = "ST_MovingDown"]
MovesUp(e)   == [e EXCEPT !.Direction = MD_Up, !.State = "ST_MovingUp"]

\* The stop an elevator makes at its end station, if it has an order there.
StopsHere(e) ==
    IF e.Floor \in Inside(e) \union Down(e)
    THEN [e EXCEPT !.Direction = MD_Down, !.State = "ST_StopDown"]
    ELSE IF e.Floor \in Up(e)
         THEN [e EXCEPT !.Direction = MD_Up, !.State = "ST_StopUp"]
         ELSE e

Rests(e) == [e EXCEPT !.Direction = MD_Stop, !.State = "ST_Idle"]

\* The first floor the poller reports ends the initialisation.
InitializeElevator ==
    /\ ~booted
    /\ cabin.currFloor \notin {Between, polled}
    /\ booted' = TRUE
    /\ polled' = cabin.currFloor
    /\ LET e == [SetEndstation([elev EXCEPT !.Floor = cabin.currFloor])
                     EXCEPT !.Available = TRUE]
       IN  IF e.Endstation < e.Floor
           THEN elev' = MovesDown(e) /\ cabin' = SetMotor(cabin, MD_Down)
           ELSE IF e.Endstation > e.Floor
           THEN elev' = MovesUp(e) /\ cabin' = SetMotor(cabin, MD_Up)
           ELSE /\ cabin' = SetMotor(cabin, MD_Stop)
                /\ elev' = IF e.Floor \in Requested(e) THEN StopsHere(e) ELSE Rests(e)
    /\ StartDoorTimer(elev'.State)
    /\ UNCHANGED <<task, obstrPoll, doorLamp, cabLamps, obstr>>

-----------------------------------------------------------------------------
(* The event loop.                                                          *)

NewOrder(o) ==
    /\ booted
    /\ DoorOpensAtOnce => \A t \in DoorTimers : timer[t] # "opening"
    /\ LET e == AddOrder(elev, o)
       IN  IF e.State # "ST_Idle"
           THEN elev' = e /\ cabin' = cabin
           ELSE IF e.Endstation < e.Floor
           THEN elev' = MovesDown(e) /\ cabin' = SetMotor(cabin, MD_Down)
           ELSE IF e.Endstation > e.Floor
           THEN elev' = MovesUp(e) /\ cabin' = SetMotor(cabin, MD_Up)
           ELSE elev' = StopsHere(e) /\ cabin' = cabin
    /\ cabLamps' = IF o.Button = "BT_Cab" THEN cabLamps \union {o.Floor} ELSE cabLamps
    /\ StartDoorTimer(elev'.State)
    /\ UNCHANGED <<booted, task, pollers, doorLamp, obstr>>

\* Only hall orders are ever taken back: the order handler knows no others.
OnRemoveOrder(o) ==
    /\ booted
    /\ elev' = RemoveOrder(elev, o)
    /\ UNCHANGED <<booted, goroutines, pollers, cabin, doorLamp, cabLamps, obstr>>

\* Seeded fault: the end station itself is passed.
StopsGoingDown_Strict(e) ==
    e.Floor \in Down(e) \union Inside(e) \/ e.Endstation > e.Floor

\* Whether a moving elevator stops at the floor it has reached.
StopsGoingUp(e)   == e.Floor \in Up(e) \union Inside(e) \/ e.Endstation <= e.Floor
StopsGoingDown(e) == e.Floor \in Down(e) \union Inside(e) \/ e.Endstation >= e.Floor

OnFloorSensor ==
    /\ booted
    /\ cabin.currFloor \notin {Between, polled}
    /\ polled' = cabin.currFloor
    /\ LET e == [elev EXCEPT !.Floor = cabin.currFloor, !.Available = TRUE]
       IN  CASE e.State = "ST_MovingUp" /\ StopsGoingUp(e) ->
                  /\ elev' = [e EXCEPT !.Direction = MD_Up, !.State = "ST_StopUp"]
                  /\ cabin' = SetMotor(cabin, MD_Stop)
             [] e.State = "ST_MovingDown" /\ StopsGoingDown(e) ->
                  /\ elev' = [e EXCEPT !.Direction = MD_Down, !.State = "ST_StopDown"]
                  /\ cabin' = SetMotor(cabin, MD_Stop)
             [] e.State = "ST_Idle" ->
                  elev' = e /\ cabin' = SetMotor(cabin, MD_Stop)
             [] OTHER ->
                  elev' = e /\ cabin' = cabin
    /\ StartDoorTimer(elev'.State)
    /\ UNCHANGED <<booted, task, obstrPoll, doorLamp, cabLamps, obstr>>

\* The loop receives doorOpen, the goroutine goes on to the lamp.
DoorOpened(t) ==
    /\ timer[t] = "opening"
    /\ timer' = [timer EXCEPT ![t] = "lamp"]
    /\ elev' = [elev EXCEPT !.State = "ST_DoorOpen"]
    /\ UNCHANGED <<booted, task, pollers, cabin, doorLamp, cabLamps, obstr>>

\* The loop receives doorTimeout: onDoorTimeout.
OnDoorTimeout(t) ==
    /\ timer[t] = "finishing"
    /\ timer' = [timer EXCEPT ![t] = "none"]
    /\ LET e == [ClearOrdersAtFloor(elev) EXCEPT !.Available = TRUE]
       IN  CASE e.Endstation = e.Floor ->
                  elev' = Rests(e) /\ cabin' = SetMotor(cabin, MD_Stop)
             [] e.Endstation > e.Floor ->
                  elev' = MovesUp(e) /\ cabin' = SetMotor(cabin, MD_Up)
             [] e.Endstation < e.Floor ->
                  elev' = MovesDown(e) /\ cabin' = SetMotor(cabin, MD_Down)
    /\ doorLamp' = FALSE
    /\ cabLamps' = cabLamps \ {elev.Floor}
    /\ UNCHANGED <<booted, task, pollers, obstr>>

\* The order handler reports a time-out: the loop starts onTimeout.
TimeOutToElev(k) ==
    /\ booted
    /\ task[k] = "none"
    /\ task' = [task EXCEPT ![k] = "start"]
    /\ UNCHANGED <<booted, elev, timer, pollers, cabin, doorLamp, cabLamps, obstr>>

-----------------------------------------------------------------------------
(* The doorTimer goroutines.                                                *)

\* The lamp is lit and the three seconds start.
LampOn(t) ==
    /\ timer[t] = "lamp"
    /\ timer' = [timer EXCEPT ![t] = "running"]
    /\ doorLamp' = TRUE
    /\ UNCHANGED <<booted, elev, task, pollers, cabin, cabLamps, obstr>>

\* No timer counts three seconds down while another goroutine is between two
\* statements.
TimerFires(t) ==
    /\ timer[t] = "running"
    /\ \A u \in DoorTimers : timer[u] \notin {"opening", "lamp"}
    /\ timer' = [timer EXCEPT ![t] = "fired"]
    /\ UNCHANGED <<booted, elev, task, pollers, cabin, doorLamp, cabLamps, obstr>>

\* A goroutine in select receives what the obstruction poller sends: TRUE stops
\* its timer (too late once timer.C is readable), FALSE starts a new one.
ObstructionReceived(t) ==
    /\ obstrPoll.sending
    /\ timer[t] \in InSelect
    /\ LET o == ~obstrPoll.prev
       IN  /\ timer' = [timer EXCEPT ![t] = IF ~o THEN "running"
                                             ELSE IF @ = "fired" THEN "fired"
                                             ELSE "stopped"]
           /\ obstrPoll' = [prev |-> o, sending |-> FALSE]
    /\ UNCHANGED <<booted, elev, task, polled, cabin, doorLamp, cabLamps, obstr>>

TimerRead(t) ==
    /\ timer[t] = "fired"
    /\ timer' = [timer EXCEPT ![t] = "finishing"]
    /\ UNCHANGED <<booted, elev, task, pollers, cabin, doorLamp, cabLamps, obstr>>

-----------------------------------------------------------------------------
(* The onTimeout goroutines: they write the elevator's status and command   *)
(* the motor beside the event loop.                                         *)

TaskStarts(k) ==
    /\ task[k] = "start"
    /\ task' = [task EXCEPT ![k] = "check"]
    /\ elev' = [elev EXCEPT !.Available = FALSE]
    /\ UNCHANGED <<booted, timer, pollers, cabin, doorLamp, cabLamps, obstr>>

TaskChecks(k) ==
    /\ task[k] = "check"
    /\ task' = [task EXCEPT ![k] = IF elev.Available THEN "none" ELSE "sleep"]
    /\ UNCHANGED <<booted, elev, timer, pollers, cabin, doorLamp, cabLamps, obstr>>

\* After the sleep the state decides the next motor command, or the return.
TaskReads(k) ==
    /\ task[k] = "sleep"
    /\ task' = [task EXCEPT ![k] =
         CASE elev.State = "ST_Idle" -> IF elev.Floor = 0 THEN "up" ELSE "down"
           [] elev.State = "ST_MovingUp"   -> "up"
           [] elev.State = "ST_MovingDown" -> "down"
           [] elev.State \in Stopping      -> "none"
           [] elev.State = "ST_DoorOpen"   -> "check"]
    /\ UNCHANGED <<booted, elev, timer, pollers, cabin, doorLamp, cabLamps, obstr>>

TaskDrives(k) ==
    /\ task[k] \in {"up", "down"}
    /\ task' = [task EXCEPT ![k] = "check"]
    /\ cabin' = SetMotor(cabin, IF task[k] = "up" THEN MD_Up ELSE MD_Down)
    /\ UNCHANGED <<booted, elev, timer, pollers, doorLamp, cabLamps, obstr>>

-----------------------------------------------------------------------------
(* The pollers, the cabin and the people at the panel.                      *)

\* PollFloorSensor sees that the cabin has left the floor: nothing is sent.
SensorLeft ==
    /\ cabin.currFloor = Between
    /\ polled # Between
    /\ polled' = Between
    /\ UNCHANGED <<booted, elev, goroutines, obstrPoll, cabin, doorLamp, cabLamps, obstr>>

\* PollObstructionSwitch sees a change and blocks until a doorTimer receives it.
PollObstructionSwitch ==
    /\ ~obstrPoll.sending
    /\ obstr # obstrPoll.prev
    /\ obstrPoll' = [obstrPoll EXCEPT !.sending = TRUE]
    /\ UNCHANGED <<booted, elev, goroutines, polled, cabin, doorLamp, cabLamps, obstr>>

\* Half a second and more of travel are long for a goroutine that is neither
\* waiting for its timer nor asleep.
Quiet == \A t \in DoorTimers : timer[t] \in {"none", "running", "stopped"}

FloorArrival ==
    /\ CanArrive(cabin)
    /\ polled = Between /\ Quiet
    /\ cabin' = Arrive(cabin)
    /\ UNCHANGED <<booted, elev, goroutines, pollers, doorLamp, cabLamps, obstr>>

FloorDeparture ==
    /\ CanDepart(cabin)
    /\ polled = cabin.currFloor /\ Quiet
    /\ cabin' = Depart(cabin)
    /\ UNCHANGED <<booted, elev, goroutines, pollers, doorLamp, cabLamps, obstr>>

ManualMoveWithinBounds ==
    /\ isOutOfBounds(cabin)
    /\ cabin' = MoveWithinBounds(cabin)
    /\ UNCHANGED <<booted, elev, goroutines, pollers, doorLamp, cabLamps, obstr>>

ObstructionSwitch ==
    /\ obstr' = ~obstr
    /\ UNCHANGED <<booted, elev, goroutines, pollers, cabin, doorLamp, cabLamps>>

-----------------------------------------------------------------------------
DoorTimer(t) ==
    DoorOpened(t) \/ LampOn(t) \/ TimerFires(t) \/ TimerRead(t)
        \/ ObstructionReceived(t) \/ OnDoorTimeout(t)

OnTimeout(k) == TaskStarts(k) \/ TaskChecks(k) \/ TaskReads(k) \/ TaskDrives(k)

Panel ==
    \/ \E o \in Requests : NewOrder(o)
    \/ \E o \in HallRequests : OnRemoveOrder(o)
    \/ \E k \in TimeoutTasks : TimeOutToElev(k)
    \/ ObstructionSwitch
    \/ ManualMoveWithinBounds

System ==
    \/ InitializeElevator
    \/ OnFloorSensor
    \/ \E t \in DoorTimers : DoorTimer(t)
    \/ \E k \in TimeoutTasks : OnTimeout(k)
    \/ SensorLeft
    \/ PollObstructionSwitch
    \/ FloorArrival
    \/ FloorDeparture

Next == Panel \/ System

\* The program's goroutines, its pollers and the cabin keep going; nobody has to
\* press a button.  A running timer is paused by an obstruction only.
Fairness ==
    /\ WF_vars(InitializeElevator)
    /\ WF_vars(OnFloorSensor)
    /\ WF_vars(SensorLeft)
    /\ WF_vars(PollObstructionSwitch)
    /\ WF_vars(FloorArrival)
    /\ WF_vars(FloorDeparture)
    /\ \A t \in DoorTimers :
          /\ WF_vars(DoorOpened(t))
          /\ WF_vars(LampOn(t))
          /\ WF_vars(TimerFires(t))
          /\ WF_vars(TimerRead(t))
          /\ WF_vars(ObstructionReceived(t))
          /\ WF_vars(OnDoorTimeout(t))
    /\ \A k \in TimeoutTasks : WF_vars(OnTimeout(k))

Spec == Init /\ [][Next]_vars

FairSpec == Spec /\ Fairness

-----------------------------------------------------------------------------
(* Properties.                                                              *)

\* The door is open only while the cabin stands at the floor the program thinks
\* it is at, whatever the door timers, the obstruction and new orders do: the
\* lamp is lit by one goroutine and put out by another, which drives the motor.
DoorOpenOnlyAtRest ==
    doorLamp => cabin.currDirn = MD_Stop /\ cabin.currFloor = elev.Floor

\* The door lamp is not lit while the motor runs.
DoorLampOffWhileMoving == doorLamp => cabin.currDirn = MD_Stop

\* The cabin never leaves the shaft: at the bottom and the top floor the end
\* station, recomputed by every order added or taken back, makes it stop.
StaysInBounds == ~isOutOfBounds(cabin)

\* Once an obstruction has stopped a door timer, the door is open and the cabin
\* stands still.
ObstructionHoldsCabin ==
    \A t \in DoorTimers :
        timer[t] = "stopped" => doorLamp /\ cabin.currDirn = MD_Stop

\* A door timer does not count down to the door's closing while the way is
\* blocked and the pollers have told the program so.
NoCountdownWhenObstructed ==
    obstr /\ obstrPoll.prev => \A t \in DoorTimers : timer[t] # "running"

\* The state of the program and the motor agree after every step.
StateMatchesMotor ==
    booted => cabin.currDirn = CASE elev.State = "ST_MovingUp"   -> MD_Up
                                 [] elev.State = "ST_MovingDown" -> MD_Down
                                 [] OTHER                        -> MD_Stop

\* An elevator rests only when it has no order at all: the end station equals
\* the floor after the door has closed only if every order there was settled.
\* Not so where a second door timer or an onTimeout goroutine exists: a drive
\* between the stop and the closing of the door takes the elevator to a floor it
\* did not stop for.
IdleMeansNoOrders == booted /\ elev.State = "ST_Idle" => elev.Orders = {}

\* A stopping elevator has a door timer on its way, an open door one that will
\* close it.
StopHasDoorTimer ==
    booted => /\ elev.State \in Stopping => \E t \in DoorTimers : timer[t] = "opening"
              /\ elev.State = "ST_DoorOpen" => \E t \in DoorTimers : timer[t] # "none"

\* An elevator on its way up passes a floor where nobody wants to go up or get
\* off while it has an order further up.
PassesOppositeOrders ==
    [][elev.State = "ST_MovingUp" /\ elev'.State = "ST_StopUp" =>
          \/ elev'.Floor \in Up(elev) \union Inside(elev)
          \/ \A f \in Requested(elev) : f <= elev'.Floor]_vars

\* A lit cab button is a promise: if the obstruction is eventually left off, the
\* cabin comes to that floor and opens its door.
CabLampPromise ==
    <>[]~obstr =>
        \A f \in Floors :
            f \in cabLamps ~> (doorLamp /\ cabin.currFloor = f)

\* A hall order the elevator has is served or taken back, never kept for ever
\* while the elevator serves others.
HallOrdersLeave ==
    <>[]~obstr =>
        \A o \in HallRequests : o \in elev.Orders ~> o \notin elev.Orders

\* The elevator implements the lift service: no order leaves its table but by an
\* open door at its floor or by a withdrawal, and the doors are shut whenever
\* the motor runs or the cabin changes floors.
Lift == INSTANCE LiftService WITH
    Calls     <- Requests,
    HallCalls <- HallRequests,
    At        <- LAMBDA o : o.Floor,
    Levels    <- Floors,
    calls     <- elev.Orders,
    doorOpen  <- doorLamp,
    running   <- cabin.currDirn # MD_Stop,
    level     <- cabin.currFloor,
    last      <- cabin.prevFloor

ImplementsLift == Lift!Spec
=============================================================================
