---- MODULE Recovery ----
(***************************************************************************)
(* A node that is restarted: the processes of Reboot, and of the program   *)
(* the primary runs the cab orders, their lamps, and the two files the     *)
(* order handler saves on every event and loads when it starts.            *)
(*                                                                         *)
(* Of the hall orders only matters whether there is a table of them; of    *)
(* the file of the elevator's status its cab orders.  The panel and its    *)
(* lamps outlive the program.                                              *)
(***************************************************************************)
EXTENDS Reboot

CONSTANTS Floors,      \* the floors of the building
          NoTable,     \* the slices of a status that was never given any
          HallTable,   \* a table of hall orders
          Missing,     \* there is no file
          MaxCrashes   \* crashes of the node's processes but by a panic

ASSUME CrashesAssumption == MaxCrashes \in Nat
ASSUME NoTableAssumption == \A S \in SUBSET Floors : S # NoTable /\ S # Missing

VARIABLES
    program,    \* the elevator is "off", on its way to a floor, or "on"
    orders,     \* its cab orders, or NoTable
    lamps,      \* the cab lamps of the panel
    hallTable,  \* whether the handler has a table of hall orders
    known,      \* the cab orders elevMap says the own elevator has, or NoTable
    fresh,      \* elevMap's arrays are still the elevator's own
    statusNet,  \* the status on its way from the node to itself
    saver,      \* how far the handler is in SaveToFile
    hallFile,   \* HallOrders.JSON
    elevFile,   \* ElevatorStatus.JSON, cab orders or a word for there being none
    waiting,    \* history: the floors asked for and not served since
    crashes     \* history: crashes so far

elevator == <<program, orders, lamps>>
handler  == <<hallTable, known, fresh, saver>>
files    == <<hallFile, elevFile>>
history  == <<waiting, crashes>>
vars == <<node, elevator, handler, statusNet, files, history>>

Tables == {NoTable} \union SUBSET Floors

\* What follows an empty file, or one with nil in it, is as if it had no table.
ElevFiles == {Missing} \union Tables

TypeOK ==
    /\ NodeTypeOK
    /\ program \in {"off", "init", "on"}
    /\ orders \in Tables /\ known \in Tables
    /\ lamps \in SUBSET Floors /\ waiting \in SUBSET Floors
    /\ hallTable \in BOOLEAN /\ fresh \in BOOLEAN
    /\ statusNet \in SUBSET SUBSET Floors
    /\ saver \in {"idle", "begin", "hallCut", "hallSaved", "elevCut"}
    /\ hallFile \in {Missing, NoTable, HallTable}
    /\ elevFile \in ElevFiles
    /\ crashes \in Nat

\* The program has not run before.
Init ==
    /\ NodeInit
    /\ program = "off"
    /\ orders = {} /\ lamps = {} /\ known = {}
    /\ hallTable = TRUE /\ fresh = TRUE
    /\ statusNet = {}
    /\ saver = "idle"
    /\ hallFile = Missing /\ elevFile = Missing
    /\ waiting = {}
    /\ crashes = 0

-----------------------------------------------------------------------------
(* The program.                                                             *)

\* Seeded fault: the lamps are left as the last run of the program left them.
InitializeElevator_LampsStay(saved) ==
    /\ program' = "init"
    /\ orders' = saved
    /\ lamps' = lamps

\* The lamps show the loaded orders; without a table no lamp is set.
InitializeElevator(saved) ==
    /\ program' = "init"
    /\ orders' = saved
    /\ lamps' = IF saved = NoTable THEN lamps ELSE saved

\* Seeded fault: what was saved of the elevator is passed over.
LoadedElevator_Blank == {}

\* Without a file there are no orders, from an empty one there is no table.
LoadedElevator == IF elevFile = Missing THEN {} ELSE elevFile

\* A process takes over: LoadFromFile, up to the waiting for a floor.
Load(p) ==
    /\ TakeOver(p)
    /\ InitializeElevator(LoadedElevator)
    /\ hallTable' = (hallFile # NoTable)
    /\ known' = LoadedElevator
    /\ fresh' = TRUE
    /\ saver' = "idle"
    /\ statusNet' = {}
    /\ UNCHANGED <<files, history>>

\* The cabin reaches its first floor.
FirstFloor ==
    /\ program = "init" /\ orders # NoTable
    /\ program' = "on"
    /\ UNCHANGED <<node, orders, lamps, handler, statusNet, files, history>>

Press(f) ==
    /\ program = "on"
    /\ orders' = orders \union {f}
    /\ lamps' = lamps \union {f}
    /\ waiting' = waiting \union {f}
    /\ UNCHANGED <<node, program, handler, statusNet, files, crashes>>

\* The cabin opens its door: ClearOrdersAtFloor.
Serve(f) ==
    /\ program = "on" /\ f \in orders
    /\ orders' = orders \ {f}
    /\ lamps' = lamps \ {f}
    /\ waiting' = waiting \ {f}
    /\ UNCHANGED <<node, program, handler, statusNet, files, crashes>>

SendStatus ==
    /\ program = "on" /\ statusNet = {}
    /\ statusNet' = {orders}
    /\ UNCHANGED <<node, elevator, handler, files, history>>

\* Seeded fault: the statuses on the way are taken for the one heard.
HearOwn_AllOfThem ==
    /\ program = "on" /\ saver = "idle"
    /\ statusNet # {}
    /\ known' = statusNet
    /\ fresh' = FALSE
    /\ statusNet' = {}
    /\ saver' = "begin"
    /\ UNCHANGED <<node, elevator, hallTable, files, history>>

\* The handler's events: the own status, or anything else.
HearOwn ==
    /\ program = "on" /\ saver = "idle"
    /\ statusNet # {}
    /\ known' \in statusNet
    /\ fresh' = FALSE
    /\ statusNet' = {}
    /\ saver' = "begin"
    /\ UNCHANGED <<node, elevator, hallTable, files, history>>

HearOther ==
    /\ program # "off" /\ saver = "idle"
    /\ saver' = "begin"
    /\ UNCHANGED <<node, elevator, hallTable, known, fresh, statusNet, files, history>>

\* SaveToFile: os.Create empties each file, Flush writes it.
CutHallFile ==
    /\ program # "off" /\ saver = "begin"
    /\ saver' = "hallCut"
    /\ hallFile' = NoTable
    /\ UNCHANGED <<node, elevator, hallTable, known, fresh, statusNet, elevFile, history>>

SaveHallFile ==
    /\ program # "off" /\ saver = "hallCut"
    /\ saver' = "hallSaved"
    /\ hallFile' = IF hallTable THEN HallTable ELSE NoTable
    /\ UNCHANGED <<node, elevator, hallTable, known, fresh, statusNet, elevFile, history>>

CutElevFile ==
    /\ program # "off" /\ saver = "hallSaved"
    /\ saver' = "elevCut"
    /\ elevFile' = NoTable
    /\ UNCHANGED <<node, elevator, hallTable, known, fresh, statusNet, hallFile, history>>

SaveElevFile ==
    /\ program # "off" /\ saver = "elevCut"
    /\ saver' = "idle"
    /\ elevFile' = IF fresh THEN orders ELSE known
    /\ UNCHANGED <<node, elevator, hallTable, known, fresh, statusNet, hallFile, history>>

Save == CutHallFile \/ SaveHallFile \/ CutElevFile \/ SaveElevFile

-----------------------------------------------------------------------------
(* The end of a process.                                                    *)

\* Its memory is gone; the panel and the files stay as they are.
Blank ==
    /\ program' = "off"
    /\ orders' = {} /\ known' = {}
    /\ hallTable' = TRUE /\ fresh' = TRUE
    /\ statusNet' = {}
    /\ saver' = "idle"

\* The program ends with the process that runs it.
Ends(p) ==
    /\ Crash(p)
    /\ IF p \in Primaries THEN Blank
       ELSE UNCHANGED <<program, orders, handler, statusNet>>
    /\ UNCHANGED <<lamps, files, waiting>>

ProcessCrash(p) ==
    /\ crashes < MaxCrashes
    /\ crashes' = crashes + 1
    /\ Ends(p)

\* An index out of range: of the elevator's tables at the first floor, of the
\* hall orders' at a new hall order.
Panic(p) ==
    /\ p \in Primaries
    /\ \/ program = "init" /\ orders = NoTable
       \/ program # "off" /\ ~hallTable /\ saver = "idle"
    /\ Ends(p)
    /\ UNCHANGED crashes

-----------------------------------------------------------------------------
Program ==
    \/ FirstFloor \/ SendStatus \/ HearOwn \/ HearOther \/ Save
    \/ \E f \in Floors : Press(f) \/ Serve(f)

Rest == <<elevator, handler, statusNet, files, history>>

Next ==
    \/ Program
    \/ Tick /\ UNCHANGED Rest
    \/ \E p \in Procs :
          \/ (Start(p) \/ Waits(p) \/ Counts(p)) /\ UNCHANGED Rest
          \/ Load(p) \/ ProcessCrash(p) \/ Panic(p)

\* Every process goes on, and every goroutine of the program; the cabin moves.
\* That a backup is started, or a status heard, is not needed.
Fairness ==
    /\ WF_vars(Tick /\ UNCHANGED Rest)
    /\ \A p \in Procs : /\ WF_vars((Waits(p) \/ Counts(p)) /\ UNCHANGED Rest)
                        /\ WF_vars(Load(p))
    /\ WF_vars(FirstFloor)
    /\ \A f \in Floors : WF_vars(Serve(f))

Spec == Init /\ [][Next]_vars

FairSpec == Spec /\ Fairness

-----------------------------------------------------------------------------
\* The cab lamps show the cab orders, also after a restart: the panel still
\* lights what the last run set, the orders are what the file had.
CabLampsTrue == program = "on" => lamps = orders

\* A crash left a file without a table, which the next start does not replace.
Torn == program = "off" /\ (hallFile = NoTable \/ elevFile = NoTable)

\* A cab order that is in the file when the program stops is served by the
\* process that takes over, or by the one that takes over from that, as long as
\* there is one.
SavedOrderSurvives ==
    \A f \in Floors :
        program = "off" /\ f \in waiting /\ elevFile \notin {Missing, NoTable} /\ f \in elevFile
            ~> f \notin waiting \/ Torn \/ Primaries \union Backups = {}

\* "This way we always have an updated order list in case of a crash."
AlwaysAnOrderList == program = "off" => hallFile # NoTable /\ elevFile # NoTable
=============================================================================
