# Verification of the elevator system

TLA+ models, TLC configurations and TLAPS proofs for the distributed elevator
controller in `src/`: N Go programs, one per elevator, that share hall orders by
UDP broadcast and each drive one cabin through a panel server (the simulator in
`src/99_Resources/simulator` or the lab's I/O server).

Contents: [1 The system](#1-the-system) · [2 Modules](#2-modules) ·
[3 From code to model](#3-from-code-to-model) ·
[4 Timing and fairness](#4-timing-and-fairness) · [5 Runs](#5-runs) ·
[6 Disagreements found](#6-disagreements-between-code-and-description) ·
[7 Proofs](#7-proofs) · [8 Not modelled](#8-what-is-not-modelled) ·
[9 Plan](#9-plan)

To repeat a check, in `tla/`: `tlc -config hall_faults.cfg MCHall` (the module of
each configuration is in the tables of section 5), `tlapm ElevatorFSMProofs.tla`.

## 1 The system

### Components, state, operations

| Component | State | Operations |
|---|---|---|
| `Elevator/elevatorFSM.go`, the event loop | `*elevPt` (State, Direction, Floor, Endstation, Orders, Available), shared by pointer with other goroutines | receive an order, an order to give up, a floor, `doorOpen`, `doorTimeout`, a time-out; `onFloorSensor`, `onDoorTimeout`, `onNewOrder` |
| goroutine `doorTimer` | a `time.Timer`, where it is in its `select` | announce the open door, light the lamp, count 3 s, stop and restart on obstruction events, announce the end |
| goroutine `onTimeout` | none of its own; reads and writes `*elevPt`, drives the motor | mark unavailable, then every few seconds push the motor the way State says, until Available |
| `Elevator/elevhandler` | operations on `*elevPt` | `AddOrder`, `RemoveOrder`, `ClearOrdersAtFloor`, `SetEndstation` |
| `Elevator/elevinit` | - | lamps, status and first motor command from the status in the file |
| `Elevator/elevio` | each poller's `prev`; one TCP connection under a mutex | poll buttons, floor sensor, obstruction and stop switch; motor and lamp commands |
| panel server (`sim_server.d`) | cabin (`currDirn`, `currFloor`, `departDirn`, `prevFloor`), lamps, switches, a queue of timed events | answer a question, motor and lamp commands, floor arrival and departure, manual moves |
| `Orderhandler`: hall orders | per node the table `Up/Down[f]` of {ID, TimeStarted, Confirmed}, `elevMap` of statuses, hall lamps | `ChooseElevator`, `UpdateElevators`, `ConfirmOrder`, `ClearOrder`, `ResendOrder`, `OnDisconnect` |
| `Orderhandler`: time-outs | reads table and map from a goroutine of its own | `TimeoutCheck`, `OnTimeout` |
| `Orderhandler`: files | `HallOrders.JSON`, `ElevatorStatus.JSON` | `SaveToFile` at the end of every event, `LoadFromFile` at start-up |
| `main.go` | the goroutine that hands a resent order to the elevator, then to the network | wiring, flags |
| `Network/peers` and the loop of `Network` | `lastSeen` of each peer, the update on its way | broadcast the own id, report new and lost peers |
| `Network` (`bcast`, `conn`, `localip`) | sockets | broadcast and receive orders and statuses |
| `Reboot` | the heartbeat file `count.data` | the primary counts in it, the backup watches it and takes over |

### How they interact

All channels inside one program are unbuffered, so sender and receiver meet and
a goroutine that sends waits. The order handler and the event loop run one
`select` each. Between them stand: the channel of new orders (handler →
elevator), of orders to give up (handler → resender → elevator), of orders and
statuses to the network (buttons, resender, status ticker → `bcast`), of lost
peers (`peers` → `Network` → handler), and of what the network delivers, *the
sender's own broadcasts included*: a hall order pressed at a node reaches its own
handler only as a copy from the network, and the node knows its own elevator
only by the status it hears of itself. `*elevPt` is shared without a lock by the
event loop, by `onTimeout` and by the goroutine that copies it every 50 ms into
the status that is broadcast and saved. All goroutines talk to the panel over one
connection.

A node is two processes: a primary, which runs all of the above, and a backup,
which only reads `count.data`. When the count stands still for two seconds the
backup becomes the primary, loads the saved files and starts a backup of its own.

### What is hard, and what has to be right

- **One elevator.** Events in any order while a door is being opened: an order
  or a floor between a stop and `doorOpen`; the obstruction, which is an *event*
  received by whichever door timer happens to be in its `select`; the end
  station recomputed by each order, in a direction that the orders do not
  change; `onTimeout` beside the loop; a restart with any saved status. It must
  keep its door shut when it moves, stay in the shaft, never rest with an order
  left, and come to every floor whose cab button it has lit.
- **The hall orders.** Every node decides for itself, from statuses that are
  late or missing, who has an order, who must take it back, and when it is
  finished. A lit hall button must be served though copies are lost, overtake
  each other, nodes lose their network and get it back, stop and are started
  again; lamps must go out.
- **The choice of the elevator.** It must be the same on every node that knows
  the same, whatever the node; closest first, those passing by preferred.
- **Peers.** A peer must be told lost when it is, and not because the receiver
  was kept from reading its ids.
- **Reboot and files.** A stopped primary must be replaced, a late one must not;
  what was lit and saved must be served by the next one, and the lamps of the
  panel, which outlive the program, must agree with what it loads.
- **The panel's connection.** Answers carry no mark of their question, so one
  poller could take another's; a poller whose reports nobody receives must not
  hold up the others.

`PROJECT.json` lists each hazard at its line with the properties that watch it.

## 2 Modules

```
 ElevHandler  status of one elevator, operations on its orders
   |-- Cabin         motor and cabin of the panel server
   |     `-- ElevatorFSM    event loop, doorTimer, onTimeout, pollers, cabin
   |           |   `~> LiftService   the abstract service it implements
   |           `-- MCElevator        values for TLC
   `-- Dispatch      CostFunction and the loop of ChooseElevator

 OrderHandler  a node's hall-order table and the operations on it
   `-- HallSystem    all nodes: handlers, files, resenders, network, elevators
         `-- MCHall  values for TLC

 Reboot        primary and backup of a node, count.data
   `-- Recovery      the program the primary runs: cab orders, lamps, files

 Peers         transmitters, receiver, the loop of Network

 PanelConn     pollers, setters, mutex, connection, panel server
   |   `~> PanelRead   the abstract polling it implements
   `-- MCPanel         values for TLC

 ElevHandlerProofs -- ElevatorFSMProofs -- ElevatorServiceProofs,
 DispatchProofs, HallSystemProofs, RecoveryProofs, PeersProofs, PanelConnProofs
```

`~>` is a refinement, `--` an EXTENDS. The models meet at what one needs of
another:

- `ElevatorFSM` is one elevator in full; of the other nodes it sees only that
  hall orders come and are taken back. `HallSystem` is all nodes; of an elevator
  it keeps the hall orders it has, and that it serves one some time after it has
  it — what `ElevatorFSM` establishes as `HallOrdersLeave` and `ImplementsLift`.
- `Dispatch` is the choice that `HallSystem` takes as a ranking of the elevators.
- `HallSystem` has that every lost peer is reported to the order handler and a
  present one is not, which `Peers` establishes (of an update `Network` hands on
  the lost peers only; of a new one the handler learns by its statuses); `Recovery` has
  the crash in the middle of saving, where `HallSystem` saves in one step and
  restarts from what was saved.
- `ElevatorFSM` polls the panel as `PanelRead` does; `PanelConn` shows that the
  shared connection comes to that.

Operators called `X_Something` under the comment *Seeded fault* are wrong
variants of `X`, kept to show that each property can fail: with the variant in
place of `X`, TLC finds the property violated. No specification uses them.

## 3 From code to model

The exact lines of every definition are in `PROJECT.json` under `map`.

**ElevHandler.** `Orders` is three boolean arrays in the code; in the model a
set of button events (`Inside`, `Up`, `Down` give the arrays back). `Furthest`
is the scan of `SetEndstation`, whose direction decides which end wins;
`Settled` is what `ClearOrdersAtFloor` clears. There is no "up" at the top floor
nor "down" at floor 0, since the panel server never reports those.

**Cabin.** The four fields of `SimulationState` that move the cabin. At most one
movement event is scheduled, and the fields determine it (departure at a floor,
arrival between two), so `CanArrive`/`CanDepart` replace the queue. `SetMotor` is
the whole motor handler, the "same direction" and "out of bounds" returns
included.

**ElevatorFSM.** One action per `select` case and per step of a goroutine
between two channel operations or two lamp/motor commands:

| Code | Action |
|---|---|
| `InitializeElevator`, the first floor, `SetEndstation`, first motion | `Init`, `InitializeElevator` |
| `case newOrder` / `onNewOrder` and the `go doorTimer` at the end of the loop | `NewOrder` |
| `case removeOrder` | `OnRemoveOrder` |
| `case floor` / `onFloorSensor` | `OnFloorSensor` |
| `case doorOpen`, and the send in `doorTimer` | `DoorOpened` |
| `case doorTimeout` / `onDoorTimeout`, and the send | `OnDoorTimeout` |
| `case timeOutToElev` | `TimeOutToElev` |
| body of `doorTimer` | `LampOn`, `TimerFires`, `ObstructionReceived`, `TimerRead` |
| body of `onTimeout` | `TaskStarts`, `TaskChecks`, `TaskReads`, `TaskDrives` |
| `PollFloorSensor`, `PollObstructionSwitch` | `SensorLeft` (and the receive in `OnFloorSensor`), `PollObstructionSwitch` |
| the simulator | `FloorArrival`, `FloorDeparture`, `ManualMoveWithinBounds`, `ObstructionSwitch` |

Every one of these ends with `StartDoorTimer` where the loop does: the goroutine
is started with the state of that moment, and exists only if that is a stop.
`DoorTimers` and `TimeoutTasks` bound how many such goroutines exist at once.
A case that must start a door timer when all are in use is not enabled; the
runs that let a second timer come into being have two.

**LiftService** (abstract). Calls are taken and withdrawn; the doors open at
rest at a floor; closing them answers calls of that floor only, the cab's calls
certainly; the cabin moves by neighbouring floors with doors shut. The mapping
is in `ElevatorFSM` (`Lift`): calls are `elev.Orders`, the door is the door lamp,
running is `cabin.currDirn # MD_Stop`.

**Dispatch.** One behaviour is one call of `ChooseElevator`, one step a round of
the loop over the sorted ids. `Travel` is every
combination of floor, direction and end station: also that of an idle cabin which
`onTimeout` has driven to another floor, where `onFloorSensor` changes the floor
and not the end station. `NoCost` stands for the code's start value of 10^18; that
it exceeds any cost is the lemma `CostBounds`.

**OrderHandler, HallSystem.** A *slot* is one hall button of one floor. Of a
status only its sender, its hall orders and `Available` are read by the handler,
so only those travel. `TimeStarted` is reduced to the questions the code asks of
it: `late` says that the time given to confirm an order has passed; `Timed` that
the time is this order's own, which it is not for one taken over from a status
(`Unlisted`), since only `ChooseElevator` sets it and `ClearOrder` leaves the old
one. Such an order counts as 20 s old at once. `TimeSinceNewFloor` is `rested`: the
elevators that have stood at a floor for 20 s because they had nothing to do.
`TimeOut` is the report of an elevator that is stuck or missing, whose orders have
then waited 20 s; `RestTimeOut` that of one that has only rested, over an order
that is not `Timed`, counted as `early`. The five cases that
`UpdateElevators` distinguishes are `Finished`, `Claimed`, `Unclaimed`,
`Unlisted`, `Contested`. A broadcast puts one copy on the way to every node that
is reached; copies are counted per slot and node, so they may overtake each
other. A node without network (`cut`) misses itself too, as `peers.go` hears its
own heartbeat over the network.

| Code | Action |
|---|---|
| `case o := <-newOrder` (`ChooseElevator`) | `NewOrder` |
| `case e := <-elev` (`UpdateElevators`, the map) | `NewStatus` |
| `case d := <-disconCH` (`OnDisconnect`) | `LostPeers` |
| `case t := <-elevTimedOut` (`OnTimeout`), and `TimeoutCheck` that reports it | `TimeOut` and `RestTimeOut` for hall orders, `CabTimeOut` for cab orders |
| `SaveToFile` at the end of every case | `SaveToFile`, part of each of these |
| the sends of `ResendOrder` inside a case | `outbox`, emptied by `TakeResend`; `Ready` is the guard of every case |
| the goroutine of `main.go` | `TakeResend`, `RemoveFromElev`, `ResendToNetwork` |
| status ticker, `bcast` | `SendStatus` |
| `LoadFromFile`, `InitializeElevator` at start-up | `Restart` |
| the elevator | `Serve`, `ReachFloor`, `CloseDoor`, `PressButton` |
| the world | `LoseOrder`, `LoseStatus`, `CutNetwork`, `Reconnect`, `GetStuck`, `GetLoose`, `Rest`, `Crash` |

A case that sends on `orderResend` saves only after its last send has been
received; in the model the handler saves in the step in which `outbox` becomes
empty. Until it first hears its own status, `elevMap` of a node shares its
arrays with the elevator (`LoadFromFile` keeps and sends on the same slices), so that
what is saved follows the elevator without a status: `fresh`, `OwnKnown`.

**Reboot.** A process is none, starting, backup, spawning (in `exec.Command`),
primary, or cut (inside `WriteFile`, the file emptied and not yet written). Of
the count only whether two readings are equal is kept: `written` are the backups
since whose last reading a count was written.

**Recovery.** Reboot, and of the program the cab orders, their lamps, the saved
files and the status on its way to the own handler. Saving is four steps
(`CutHallFile`, `SaveHallFile`, `CutElevFile`, `SaveElevFile`), since
`os.Create` empties a file long before `Flush` writes it; a crash may fall
between any two. `NoTable` is the nil slice of a status decoded from an empty
file, which `InitializeElevator` indexes: `Panic`. A crash ends the process and
everything in its memory; the panel and its lamps stay.

**Peers.** `Tick` is the 15 ms interval of the transmitters. The receiver reads
one id in each of its loops (`ReadId`) or none before its deadline
(`ReadNothing`), judges the silence of all (`Loop`), and sends an update that
waits for `Network`'s loop (`Forward`). That hands on the list of lost peers, an
empty one when the update only tells of a new peer, and waits for the order
handler (`Hear`). Meanwhile ids wait in the socket. The history variable `away`
has the peers that were told lost and not read since.

**PanelConn, PanelRead.** A getter is `Lock`, `Ask`, `Read`, where the mutex is
freed, and `Report` if the poller has news and until it is received; a setter is
`Lock`, `Set`. The connection holds `Buffer` requests before a write blocks.
`PanelRead` (abstract) looks straight at the panel: `Look`, then `Pass`, or
`Announce` and `Report`. In the mapping the look is the moment the server
answers: `got` is the answer as soon as there is one.

## 4 Timing and fairness

Three models have no clock and keep orders of magnitude of the real system, each
a guard with a name:

- `Quiet` (`ElevatorFSM`): half a second and more of travel between two sensor
  changes is longer than a goroutine needs for its next statement, and pollers
  (20 ms) see each change of the sensor. `TimerFires` likewise: no 3 s timer
  expires while another goroutine stands between two statements.
- `DoorOpensAtOnce`: *assumed TRUE only where a run or theorem says so*: the loop
  receives `doorOpen` of a door timer it has just started before it receives
  another order. Nothing in the code ensures it - the run `bug_two_timers` shows
  what follows without it - but it is what nearly always happens.
- `Timely` (`HallSystem`): a copy that is not lost arrives within the round of
  50 ms in which statuses are sent; the time given to confirm an order, the 20 s
  of a time-out or of a rest, the seconds of a served order are longer than it
  takes for every node to know how matters stand (`Settled`, `Delivered`), and
  `TimeoutCheck`, which looks once a second, does not look in the milliseconds
  before an order that is already confirmed has arrived (section 6 says what if it
  does); a node that
  comes back has been away for longer than the 500 ms after which it is reported
  lost. A lost copy stays lost: `Timely` does not excuse it.

Two models count time:

- `Reboot`: ticks of half a second. The primary sleeps two, the backup four, `go
  run` compiles for at least `Compile`, and any process may go on up to `Slack`
  late. `TimingAssumption` says what the machine must provide: lateness below the
  difference of the two sleeps, and below the compilation. With it `OnePrimary`
  holds for all values. `CutReads = FALSE` excludes that the backup reads
  the file between its truncation and the writing of the few bytes of the count
  (section 6).
- `Peers`: ticks of 15 ms. Of a connected peer some datagram arrives within
  `MaxGap` ticks, and the receiver has emptied its socket within `MaxLag`, which
  bounds how long the order handler may keep an update waiting;
  `MaxGap + MaxLag <= Timeout` is assumed (500 ms is 33 ticks).

Fairness: weak fairness for every step of a goroutine, poller, process and the
cabin, because the Go scheduler and the operating system run all that are ready,
a lone sender finds its receiver's `select`, and the panel server handles its
events. People and the world are not fair: no button must be pressed, no
obstruction removed (the properties have `<>[]~obstr` as their premise), no
message lost, no node cut, reconnected or restarted, no stuck cabin get loose, no
elevator rest, and `TimeoutCheck` need not report one that did.
Strong fairness stands in three places:

- `Serve(n, s)`: an elevator that has an order again and again, while statuses
  come and go between, does get to the floor - the travel is not restarted by a
  status; `HallOrdersLeave` of the run `elevator_service` is its justification.
- `TimeOut(n, n)`: `TimeoutCheck` looks every so often at a condition that stays
  true until the handler is told; only that the handler is in its `select` comes
  and goes, and that `select` picks at random among what is ready.
- `Lock(g)` (`PanelConn`): a goroutine that waits for the mutex gets it; Go's
  `sync.Mutex` hands itself to a waiter of more than 1 ms.

`Recovery` asks nothing of statuses, spawns and saves: `SavedOrderSurvives`
must not depend on them. In `PanelConn` only the pollers in `Listened` have
their reports received.

Deadlock is checked in every run but `dispatch_choice`, whose one call returns.

## 5 Runs

Symmetry (of door timers and of onTimeout goroutines) is used in safety runs
only. Each run finishes within a few minutes.

### One elevator (`MCElevator`)

| Configuration | Instance | Shows |
|---|---|---|
| `elevator_service` | 3 floors, all 7 buttons, 2 door timers, `DoorOpensAtOnce`, fair | `TypeOK`; the door is open only at rest at the elevator's floor; the cabin stays in the shaft; a timer stopped by the obstruction holds it; state and motor agree; it comes to rest only without orders; it implements `LiftService`; a lit cab button gets an open door at its floor; no hall order is kept for ever |
| `elevator_overlap` | 3 floors, 2 cab buttons and a hall button between them, 2 timers that may overlap, an `onTimeout` goroutine beside the loop, restart into DoorOpen | no stop without its door timer, no open door that nobody will close |

Three floors have a bottom, a top and a floor where an elevator passes by, with
both hall buttons; the interesting cases - the order ahead taken back, an order
behind, one on either side of a turning elevator - all occur. Two door timers are
one more than the code means to have. The safety invariants of
`elevator_service` are proved for any number of floors, requests and timers
(section 7), and so is that it implements `LiftService`. `IdleMeansNoOrders` is
not a property of `elevator_overlap`: it holds there on three floors and fails on
four (section 6). `elevator_overlap` leaves out four buttons, each of a kind that is
kept at another floor or in the other direction, to afford all goroutines at once.

### All nodes (`MCHall`)

| Configuration | Instance | Shows |
|---|---|---|
| `hall_two_orders` | 2 nodes, 2 slots that go to the same elevator, 2 presses of any, nothing lost | a lit button is served; lamps go out; a lit order is in its elevator's files whenever the handler waits; all panels light what the elevators last reported; an order is at every moment with its elevator, on its way to it, or about to be resent |
| `hall_faults` | 2 nodes, 1 slot; any 2 copies are lost, or one copy is and an elevator rests 20 s and is timed out early, or one node loses its network and gets it back, or one node stops and is started again from its files, at any time | the same promises: what is not confirmed is resent, what a missing node had is taken over, what a returning one still has is settled, what a rested one is made to give up is taken by another |
| `hall_records` | 2 nodes, 1 slot; a cabin that gets stuck and loose, or an elevator that rests 20 s; a cab order timed out in either | `TypeOK`, and lamp and table agree, with two owners of one order, time-outs and orders given up |

`FaultBounds` is a set of bounds on the faults of each kind; a behaviour keeps to
one of them (`Outages`, `Halts` in `MCHall`; section 6 says what more faults do).
`MaxCopies` bounds copies of one order to one node; a
copy beyond it is swallowed. Two are enough for the original and a resent one
to coexist; handling a third is handling the second again. A press of a slot
after it has been served starts from the same state as the first, so presses
matter that overlap: of another slot, or of the same button while it is on its way
or lit (`hall_two_orders` has both). With both slots at one elevator, statuses,
files and the serving of one order are those of the other too. Two nodes show
each pairing the code distinguishes: the sender is the owner, or it is not. A
third matters when two survivors both resend the orders of a dead node: on the
plan (section 9). `LampMeansTaken` is proved for any number of nodes, and so are the three
invariants of `hall_two_orders`, there also with `Timely = FALSE` and, but for
`NoOrderIsLost`, with messages lost, as long as no elevator rests 20 s (section 7;
TLC confirms both variants). `hall_records` takes agreeing costs, as a rest beside
disagreeing nodes is more than TLC explores in minutes; the theorems do not need it.

### Restarts (`Recovery`)

`recovery`: 2 processes, 1 floor, at most 2 crashes at any step, every process up
to one tick late. One primary at a time; a backup takes over from a primary that
stopped, wherever it was in writing the count; the lamps show what was loaded;
an order that is in the file when the program stops is served by a process that
takes over. A node never has more than two processes (a primary starts one
backup, in its life), and the name of one that is gone is used again; two
crashes are what it takes to lose the primary and then the one that took over.
Presses and servings are not bounded. `OnePrimary`, `CabLampsTrue` and the types
are proved for any number of processes, floors and crashes.

### Peers (`Peers`)

`peers`: 2 peers (the node itself is one), a timeout of 4 ticks, a datagram in at
most 2, a receiver at most 2 late - the largest values the assumption allows.
Peers leave and come back at any time. No connected peer is reported lost, no
loss is kept back from the order handler however the updates wait, and what the
handler was told last is in the end right. With 3 instead of 2 for either bound
`OnlySilentAreLost` fails (and the assumption has to go). It is proved for any
number of peers and any bounds the assumption allows, and so is `LossesAreTold`.

### The panel's connection (`MCPanel`)

`panel_connection`: 2 pollers - two buttons and the stop button, whose reports
nobody receives -, 2 setters, 2 requests in the connection. Answers are not mixed
up; polling implements `PanelRead`; an input that keeps its
value is in the end the one remembered. Two
askers and two writers are all the pairings at the mutex; two buttons make a
poller that remembers a value while it asks for another.

### The choice (`Dispatch`)

`dispatch_choice`: 3 elevators, 3 floors, every combination of statuses, every
hall order, every node: agreement; an idle elevator is sent only when no idle one at
its end station is closer; moving ones preferred. All three are proved for every number (section 7).

## 6 Disagreements between code and description

Each is a run whose only property TLC finds violated. The requirements are those
of `src/99_Resources/Project_Description.md` and of the code's comments; the
quotes are in `PROJECT.json`.

| Configuration | What happens |
|---|---|
| `bug_two_timers` | An order received between a stop and `doorOpen` starts a second door timer (the loop starts one after *every* event while State is a stop). The obstruction's event reaches one of them; the other shuts the door and drives off. |
| `bug_hall_timeout` | Of a cab order `TimeoutCheck` asks only when the elevator last reached a floor. One that rested 20 s times out with its next order and gives up the lit hall orders it has; a status it sent just before confirms the order again, the nodes choose each other, and the order is lost though its lamp was lit. |
| `bug_recovery` | A crash between `os.Create` and `Flush` leaves an empty file. `LoadFromFile` takes that for a file and starts without its tables: without `HallOrders.JSON`'s (the trace) the program stops at the first hall order, without `ElevatorStatus.JSON`'s at the first floor, at every start. |

More is one edit away. Of `elevator_service`, `elevator_overlap` and
`bug_two_timers`:

- with `RestoredStates = {"ST_Idle", "ST_DoorOpen"}`, one timer and the invariant
  `DoorLampOffWhileMoving`: a saved State of DoorOpen lights the door lamp at
  start-up, and the cabin is sent down;
- the same invariant with `TimeoutTasks = {k1}` and `RestoredStates = {"ST_Idle"}`:
  `onTimeout` has read a moving state, the loop stops, the door opens, and
  `onTimeout` starts the motor;
- with the invariant `NoCountdownWhenObstructed`: a door timer whose `timer.C` has
  fired receives the obstruction and throws it away, or the event came to an
  earlier timer: the next one counts down in front of the obstruction;
- with the property `PassesOppositeOrders`: the end station depends on the
  direction and is stale while the cabin turns, so that it stops on its way up at
  a floor with a downward order only, with an order further up;
- `elevator_service` with `DoorOpensAtOnce = FALSE` and `CabLampPromise` alone: a
  second door timer's time-out settles the cab order of a floor the cabin is
  passing; its lamp goes out and no door opens.

- `IdleMeansNoOrders` with four floors and either an `onTimeout` goroutine or a
  second door timer: it drives the cabin on after a stop, the time-out of the door
  settles the orders of the floor it has come to, and the elevator, at its end
  station by then, rests with a hall and a cab order left.

Of `hall_two_orders`, the invariant `LitOrdersSaved` with `CostsAgree = FALSE` or
one fault of any kind but "lost": nodes that choose differently make `ChooseElevator`
hand a confirmed order over; its new elevator has it lit and not yet saved, since
it saves what its own status told last. `LampsShowReports` fails likewise.

With one elevator that rests and is timed out early
(`Only([rested |-> 1, early |-> 1])`), and nothing lost, each of the three invariants of
that run fails: a status sent before its elevator took the order "finishes" it, the
next one brings it back without a time (`Unlisted`), the elevator is timed out, and
the order goes to another than the cheapest.

Of `hall_faults`, in each case `HallLampPromise`, by a different `FaultBounds`:

- a lost copy beside a cut or a stop: `ResendOrder` clears the order and broadcasts
  it once. With one node left and that copy lost, the lit order is gone;
- two cuts: a node without network misses itself as a peer, clears its own hall
  orders and makes its elevator give them up; nobody takes the resent copy;
- any number of early time-outs (`early`; one is checked, two pass as well): a node
  that times the elevator out again and again, each time between a resent order
  and the status that tells of it, keeps the order and `HallLampsGoOut` waiting;
- a rested elevator beside two lost copies, or beside a cut: the order that its
  time-out resends is lost like the first. Beside a stop `HallLampsGoOut` fails
  with any number of early time-outs too;
- a cabin that is stuck and gets loose during its time-out: the elevator serves
  again what has been given to another, and two owners of the order end as in
  `bug_hall_timeout`;
- two presses of the slot and one lost copy: a button pressed again while its lamp
  still shines, its order served but not cleared, keeps `Confirmed`; when the copy
  to its elevator is lost nobody resends it, and the next status "finishes" it;
- `RestTimeOut` without its `Timely` conjunct, one lost copy and one rest: in the
  milliseconds before a copy arrives `TimeoutCheck` finds the order as taken over
  from the status, and its resent copy races the first;
- `Timely = FALSE`: an outage shorter than 500 ms is not noticed by anybody.

Of `dispatch_choice`: without the clause on the end station `ClosestIdleChosen` fails.
An idle cabin that `onTimeout` has driven away (`elevatorFSM.go:209-214`) keeps its
old end station (`126`, `146-147`); its cost is the way by that floor, and it may be
the closest and not be sent.

Of `recovery`: with `CutReads = TRUE` two readings of an empty file, both in the
middle of a `WriteFile`, count as a count that stands still, and there are two
primaries. A lit cab order is lost when the program stops before a status has
told the handler of it; `SavedOrderSurvives` therefore asks for it to be in the
file.

## 7 Proofs

All proofs are checked with tlapm for every value of the constants that the
named assumptions allow (at least two floors, any sets of requests, timers,
nodes, slots, processes, peers, pollers).

**ElevHandlerProofs.** The lowest and highest member of a non-empty set of
floors exist and belong to it, so the end station is always a floor; each
operation on a status and each cabin movement keeps its type. The later lemmas
(`FurthestIsLast`, `Heads` and what `AddOrder`, `RemoveOrder` and
`ClearOrdersAtFloor` do to it) say where the end station lies: no order is beyond
it, and if it is the elevator's floor there is no order elsewhere.

**ElevatorFSMProofs.**
- `TypeCorrect`: `Spec => []TypeOK`. This has content in two places: the end
  station, and `Arrive`, which lands on a floor only because it needs a cabin
  that is not out of bounds.
- `StopsGetDoorTimers`: `Spec => []StopHasDoorTimer`, with any number of timers,
  with `onTimeout` running beside the loop and with any restored state. It is
  inductive with `TypeOK`.
- `DoorOpensAtRest`, `CabinStaysInShaft`, `MotorFollowsState`,
  `ObstructedCabinRests`, under
  `Undisturbed == DoorOpensAtOnce /\ TimeoutTasks = {} /\ "ST_DoorOpen" \notin RestoredStates`.
  Each part of the assumption is needed: `bug_two_timers` and the first two
  variants of section 6 drop one each. The invariant that carries them,
  `DoorMotorInv == TypeOK /\ DoorInv /\ MotorInv`, says that at most one door
  timer is alive and exactly in the states Stop and DoorOpen, which of its
  phases go with which state and lamp, that the motor runs as State says with
  the cabin at `elev.Floor` and the poller knowing it whenever State is not a
  moving one, and that a cabin which runs at a floor the poller has reported does
  not head out of the shaft there. The four invariants are weaker and not
  inductive: that the door is shut when the cabin departs depends on there being
  no second timer, and that the top floor stops the cabin depends on the order in
  which the poller, the loop and the cabin move.

**ElevatorServiceProofs**, under `Undisturbed` again.
- `RestsWithoutOrders`: `Spec => []IdleMeansNoOrders`. `ServiceInv` extends
  `DoorMotorInv` by where the cabin is (`PositionInv`: from a stop to the time-out
  of its door it stays at `elev.Floor`) and by what direction and end station say
  of the orders (`WellHeaded`): a moving elevator goes in its Direction and its
  end station is the one `SetEndstation` would compute or lies ahead of it; one
  that has stopped will settle its floor completely when the door shuts, or has an
  order further on in its direction; the end station is a floor with an order.
  `SetEndstation` uses the direction of its moment and the direction changes later,
  so that the direction is part of the invariant. `Undisturbed` is needed: see
  section 6.
- `LiftServiceImplemented`: `Spec => ImplementsLift`. Initial states map to
  initial states; every step of the loop, of the timers, pollers and of the cabin
  is a step of `LiftService` or leaves `Lift`'s variables alone (`LiftNext`). The step
  with content is `OnDoorTimeout` (`LiftCloseDoor`), where the calls answered must be
  those of the floor the abstract cabin is at: that is `PositionInv`.

**HallSystemProofs.** For any nodes, slots, losses, cuts, crashes, restarts, rests and
time-outs, whether or not costs agree or the network is timely:
- `TypeCorrect`: `Spec => []TypeOK`; a restart loads what was saved, so the files
  are part of it.
- `LampsAreTruthful`: `Spec => []LampMeansTaken`. The invariant `LampInv` says it
  of the tables and of the saved files, which a restart turns into tables, and of
  the lamps at nodes that have not been restarted.

For any nodes, slots and presses, where nodes agree on the costs, know all
elevators from the start, nothing fails but that messages are lost, and *no
elevator rests for 20 s* (`SteadyChoice`; section 6 says what each other fault and
what a rest does). Messages may be later than the 250 ms given to confirm an order
and than its serving; that they are not 20 s late, and that no present peer is
reported lost, is part of `HallSystem`:
- `PanelsAgree`: `Spec => []LampsShowReports`. `SteadyInv` says that no node has
  reason to choose another elevator than the cheapest: all are available, no table
  gives a slot to another, and nobody has or tells of an order that is another's.
  From it `ReportedInv`: a table has an order confirmed for an elevator exactly when
  its last status listed it. The two steps with content: a new order keeps the
  elevator of a confirmed one (`CheapestIsOne`, and `LampInv`, by which a confirmed
  order has one); a status confirms what it lists and clears what it does not,
  and touches no other elevator's order (`ReportedSlot`).
- `LitOrdersAreSaved`: `Spec => []LitOrdersSaved`, from `ReportedInv` and `SavedInv`:
  whenever the handler waits, the file has what the own status told last.
- `OrdersAreNotLost`: `Spec => []NoOrderIsLost`, where also no message is lost
  (`NoLosses`). It is inductive on `SteadyInv` in the form `waiting \subseteq Kept`,
  with one lemma for each action that moves an order: from the network to its
  elevator, into `outbox`, to the resender, off the elevator, and out again.

**RecoveryProofs.**
- `NodeHasOnePrimary`: `Spec => []OnePrimary`, under `~CutReads`. Neither that nor the timing alone
  is inductive. `NodeInv` adds that there is at most one backup, and none before
  the primary has started one; how far each process is from going on
  (`DueInTime`); and the fact everything rests on, `WritesInTime`: as long as a
  backup would take over from the file as it is, the primary writes it before
  that backup reads again, however late either is. `TimingAssumption` is used
  where the backup starts to sleep and where the backup is started.
- `TypeCorrect`, with `FileThere`: a file that was read stays. `LampsShowOrders`,
  with `LampsInv`: a program with tables has its lamps as its orders from the
  moment it has loaded them, and one without does not get beyond its first floor.

**PeersProofs.** `TypeCorrect`; `NoConnectedPeerIsLost`:
`Spec => []OnlySilentAreLost`. The invariant `Recent` says that of a connected
peer, read since it came back, the age of the last reading is at most the age of
its last datagram, or `MaxGap + lag` when that one waits in the socket unread.
`NoLossIsKeptBack`: `Spec => []LossesAreTold`; the step with content is the loop's, where
what leaves `lastSeen` must be in the update, and the id just read must stay.

**PanelConnProofs.** `TypeCorrect`, `AnswersAreOwn`, `PollingIsReading`
(`Spec => P!Spec`, initial states and every step). `ConnInv` says that whoever is
between `Lock` and the freeing of the mutex holds it, and that a question is
then the last request on its way with nothing on the way back, and an answer the
only one with no request: the panel answers what was asked.

**DispatchProofs.** The loop invariant `LoopInv` says: no round so far has met
an available elevator and the choice is the node itself, or the choice is the
best of the available ones seen, by cost and then by id, and `minCost` is its cost.
From it follows `ChoiceIsAgreed`; with the arithmetic of `CostFunction`, `ClosestIsChosen`
(an elevator that stands costs at least its distance, and no more when it is at its
end station) and `MovingIsPrioritised`.

**Model-checked only.** Everything temporal beyond `[]` and step refinement
(`CabLampPromise`, `HallOrdersLeave`, `HallLampPromise`, `HallLampsGoOut`,
`BackupTakesOver`, `SavedOrderSurvives`, `PeersAreTold`, `KeptIsNoticed`),
because liveness under fairness is out of the prover's reach. Every invariant of a
passing run is proved, and both refinements.

## 8 What is not modelled

- Wording, logging, JSON and its sizes, the type tags of `bcast` and its
  1024-byte buffer; sockets and addresses; the floor indicator.
- The byte format of `elevio`, and a `Read` that returns fewer than four bytes of
  an answer (`Read` is not `ReadFull`).
- What a concurrent access to a Go map does: `TimeoutCheck` and the order handler
  share `elevMap` without a lock. A program that stops at any step is what
  `recovery` and `hall_faults` cover.
- Data races on `*elevPt` are modelled as the interleaving of single reads and
  writes; a status copied while it is written is an arbitrary mix, which is why
  the initial states of `ElevatorFSM` do not require its fields to agree.
- The flags a backup is started with (`numFloors` is not passed on).
- The simulator's console, drawing and timed event queue, and the Rust elevator
  server, which stands behind the same protocol: both are the course's, and not
  part of the program.

## 9 Plan

Done: `ElevHandler`, `Cabin`, `ElevatorFSM`, `LiftService`, `OrderHandler`,
`HallSystem`, `Dispatch`, `Reboot`, `Recovery`, `Peers`, `PanelConn`, `PanelRead`
and their proofs.

Next, in this order:

1. `HallSystem` with three nodes: needs a smaller state and strong fairness for
   `LostPeers` (a survivor that has not heard of the loss may resend one order to
   the dead node over and over, and its handler is busy whenever it does).
2. An invariant for `NoOrderIsLost` with lost messages or a lost node: who of the
   others still has the order in its table and will resend it. It needs `Timely` as
   part of the invariant, since without it an order can be lost then.
3. The timed event queue of the panel server with its mailbox, shown to
   implement `Cabin`.
