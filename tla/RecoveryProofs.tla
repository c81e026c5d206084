---- MODULE RecoveryProofs ----
(***************************************************************************)
(* Proofs about Recovery: that a node has one primary, and that the cab    *)
(* lamps show the cab orders, across crashes and restarts.                 *)
(***************************************************************************)
EXTENDS Recovery, TLAPS

-----------------------------------------------------------------------------
(* One primary.                                                             *)

\* A primary has at most one backup, and none before it has started one.
OneBackup == \A b, c \in Backups : b = c

NoneYet == \A p \in Procs : phase[p] = "spawning" => Backups = {}

\* How long a process may still take.
DueInTime ==
    \A p \in Procs :
        /\ due[p] >= -Slack
        /\ phase[p] = "primary" => due[p] <= WriteEvery
        /\ phase[p] = "spawning" => due[p] <= 0

\* As long as a backup would take over from the file as it is, the primary will
\* write it before the backup reads it again.
WouldTakeOver(b) ==
    IF phase[b] = "starting" THEN file = "missing" ELSE StandsStill(b)

WritesInTime ==
    \A p, b \in Procs :
        phase[p] = "primary" /\ phase[b] \in {"starting", "backup"} /\ WouldTakeOver(b)
            => due[p] + Slack < due[b]

\* A file that was read or truncated is there.
FileThere == \A p \in Procs : phase[p] \in {"backup", "cut"} => file # "missing"

NodeInv ==
    /\ NodeTypeOK /\ OnePrimary /\ OneBackup /\ NoneYet
    /\ DueInTime /\ WritesInTime /\ FileThere

LEMMA NodeInitially == NodeInit => NodeInv
  BY TimingAssumption
  DEF NodeInit, NodeInv, NodeTypeOK, OnePrimary, OneBackup, NoneYet, DueInTime,
      WritesInTime, FileThere, Primaries, Backups, Running

\* The invariant is kept as time passes.
LEMMA TickKeeps == NodeInv /\ Tick => NodeInv'
  BY TimingAssumption
  DEF Tick, NodeInv, NodeTypeOK, OnePrimary, OneBackup, NoneYet, DueInTime,
      WritesInTime, WouldTakeOver, StandsStill, FileThere, Primaries, Backups, Running

\* What the invariant says of a step of process p that leaves the others alone.
LEMMA StartKeeps ==
  ASSUME NodeInv, NEW p \in Procs, Start(p)
  PROVE  NodeInv'
  BY TimingAssumption
  DEF Start, NodeInv, NodeTypeOK, OnePrimary, OneBackup, NoneYet, DueInTime,
      WritesInTime, WouldTakeOver, StandsStill, FileThere, Primaries, Backups, Running

\* A backup that reads again has the primary's next writing before it.
LEMMA WaitsKeeps ==
  ASSUME NodeInv, ~CutReads, NEW p \in Procs, Waits(p)
  PROVE  NodeInv'
<1>1. /\ phase[p] \in {"starting", "backup"} /\ file # "missing"
      /\ Remember(p)
      /\ \A q \in Procs : phase[q] # "cut"
  BY DEF Waits, FirstRead, Sample, Reading, NodeInv, FileThere
<1>2. NodeTypeOK'
  BY <1>1, TimingAssumption DEF Remember, NodeInv, NodeTypeOK
<1>3. OnePrimary' /\ OneBackup' /\ NoneYet' /\ FileThere'
  BY <1>1 DEF Remember, NodeInv, NodeTypeOK, OnePrimary, OneBackup, NoneYet, FileThere,
              Primaries, Backups, Running
<1>4. DueInTime' /\ WritesInTime'
  BY <1>1, TimingAssumption
  DEF Remember, NodeInv, NodeTypeOK, OneBackup, DueInTime, WritesInTime, Backups,
      WouldTakeOver, StandsStill
<1> QED
  BY <1>2, <1>3, <1>4 DEF NodeInv

\* Nobody takes over from a primary: it would have had to be late.
LEMMA TakeOverAlone ==
  ASSUME NodeInv, ~CutReads, NEW p \in Procs, TakeOver(p)
  PROVE  Primaries = {}
<1>1. /\ phase[p] \in {"starting", "backup"} /\ due[p] <= 0 /\ WouldTakeOver(p)
      /\ \A q \in Procs : phase[q] # "cut"
  BY DEF TakeOver, Reading, WouldTakeOver
<1>2. \A q \in Procs : phase[q] # "spawning"
  BY <1>1 DEF NodeInv, NoneYet, Backups
<1>3. \A q \in Procs : phase[q] # "primary"
  <2>1. SUFFICES ASSUME NEW q \in Procs, phase[q] = "primary"
                 PROVE  FALSE
    OBVIOUS
  <2>2. due[q] + Slack < due[p]
    BY <1>1, <2>1 DEF NodeInv, WritesInTime
  <2> QED
    BY <1>1, <2>2, TimingAssumption DEF NodeInv, NodeTypeOK, DueInTime
<1> QED
  BY <1>1, <1>2, <1>3 DEF Primaries, Running

LEMMA TakeOverKeeps ==
  ASSUME NodeInv, ~CutReads, NEW p \in Procs, TakeOver(p)
  PROVE  NodeInv'
<1>1. Primaries = {}
  BY TakeOverAlone
<1>2. /\ phase[p] \in {"starting", "backup"}
      /\ phase' = [phase EXCEPT ![p] = "spawning"]
      /\ due' = [due EXCEPT ![p] = 0]
      /\ UNCHANGED <<file, old, written>>
  BY DEF TakeOver, Reading
<1>3. NodeTypeOK'
  BY <1>2 DEF NodeInv, NodeTypeOK, Running
<1>4. OnePrimary' /\ OneBackup' /\ NoneYet' /\ FileThere'
  BY <1>1, <1>2 DEF NodeInv, NodeTypeOK, OnePrimary, OneBackup, NoneYet, FileThere,
                    Primaries, Backups, Running
<1>5. DueInTime' /\ WritesInTime'
  BY <1>1, <1>2, TimingAssumption
  DEF NodeInv, NodeTypeOK, DueInTime, WritesInTime, Primaries, Running
<1> QED
  BY <1>3, <1>4, <1>5 DEF NodeInv

\* The backup of a new primary starts after its first writing.
LEMMA SpawnKeeps ==
  ASSUME NodeInv, NEW p \in Procs, NEW q \in Procs, Spawn(p, q)
  PROVE  NodeInv'
<1>1. Backups = {} /\ p # q
  BY DEF Spawn, NodeInv, NoneYet
<1>2. NodeTypeOK'
  BY TimingAssumption DEF Spawn, NodeInv, NodeTypeOK, Running
<1>3. OnePrimary' /\ OneBackup' /\ NoneYet' /\ FileThere'
  BY <1>1 DEF Spawn, NodeInv, NodeTypeOK, OnePrimary, OneBackup, NoneYet, FileThere,
              Primaries, Backups, Running
<1>4. DueInTime' /\ WritesInTime'
  <2>1. DueInTime'
    BY <1>1, TimingAssumption DEF Spawn, NodeInv, NodeTypeOK, DueInTime
  <2>2. ASSUME NEW r \in Procs, NEW b \in Procs, phase'[r] = "primary",
               phase'[b] \in {"starting", "backup"}
        PROVE  due'[r] + Slack < due'[b]
    <3>1. b = q
      BY <1>1, <2>2 DEF Spawn, NodeInv, NodeTypeOK, Backups
    <3>2. r = p
      BY <1>1, <2>2 DEF Spawn, NodeInv, NodeTypeOK, OnePrimary, Primaries, Running
    <3>3. due'[q] = Compile /\ due'[p] = due[p] /\ due[p] <= 0 /\ due[p] \in Int
      BY <1>1 DEF Spawn, NodeInv, NodeTypeOK, DueInTime
    <3> QED
      BY <3>1, <3>2, <3>3, TimingAssumption
  <2> QED
    BY <2>1, <2>2 DEF WritesInTime
<1> QED
  BY <1>2, <1>3, <1>4 DEF NodeInv

LEMMA SpawnFailsKeeps ==
  ASSUME NodeInv, NEW p \in Procs, SpawnFails(p)
  PROVE  NodeInv'
<1>1. Backups = {}
  BY DEF SpawnFails, NodeInv, NoneYet
<1> QED
  BY <1>1, TimingAssumption
  DEF SpawnFails, NodeInv, NodeTypeOK, OnePrimary, OneBackup, NoneYet, DueInTime,
      WritesInTime, FileThere, Primaries, Backups, Running

\* While the file is empty for the count, nobody reads it; when it is written,
\* it has changed for everybody.
LEMMA CountKeeps ==
  ASSUME NodeInv, NEW p \in Procs, Truncate(p) \/ Write(p)
  PROVE  NodeInv'
<1>1. \A r \in Procs : phase[r] \in Running => r = p
  BY DEF Truncate, Write, NodeInv, OnePrimary, Primaries, Running
<1>2. NodeTypeOK'
  BY TimingAssumption DEF Truncate, Write, NodeInv, NodeTypeOK, Running
<1>3. OnePrimary' /\ OneBackup' /\ NoneYet' /\ FileThere'
  BY <1>1 DEF Truncate, Write, NodeInv, NodeTypeOK, OnePrimary, OneBackup, NoneYet,
              FileThere, Primaries, Backups, Running
<1>4. DueInTime'
  BY TimingAssumption DEF Truncate, Write, NodeInv, NodeTypeOK, DueInTime
<1>5. WritesInTime'
  <2>1. CASE Truncate(p)
    BY <1>1, <2>1 DEF Truncate, NodeInv, NodeTypeOK, WritesInTime, Running
  <2>2. CASE Write(p)
    BY <2>2 DEF Write, NodeInv, NodeTypeOK, WritesInTime, WouldTakeOver, StandsStill
  <2> QED
    BY <2>1, <2>2
<1> QED
  BY <1>2, <1>3, <1>4, <1>5 DEF NodeInv

LEMMA CrashKeeps ==
  ASSUME NodeInv, NEW p \in Procs, Crash(p)
  PROVE  NodeInv'
<1>1. NodeTypeOK'
  BY DEF Crash, NodeInv, NodeTypeOK, Running
<1>2. OnePrimary' /\ OneBackup' /\ NoneYet' /\ FileThere'
  BY DEF Crash, NodeInv, NodeTypeOK, OnePrimary, OneBackup, NoneYet, FileThere,
         Primaries, Backups, Running
<1>3. DueInTime' /\ WritesInTime'
  BY TimingAssumption
  DEF Crash, NodeInv, NodeTypeOK, DueInTime, WritesInTime, WouldTakeOver, StandsStill
<1> QED
  BY <1>1, <1>2, <1>3 DEF NodeInv

LEMMA NodeKeeps == NodeInv /\ ~CutReads /\ [NodeNext]_node => NodeInv'
<1>1. SUFFICES ASSUME NodeInv, ~CutReads, [NodeNext]_node
               PROVE  NodeInv'
  OBVIOUS
<1>2. CASE Tick
  BY <1>1, <1>2, TickKeeps
<1>3. ASSUME NEW p \in Procs, Start(p) \/ Waits(p) \/ Counts(p) \/ TakeOver(p) \/ Crash(p)
      PROVE  NodeInv'
  BY <1>1, <1>3, StartKeeps, WaitsKeeps, TakeOverKeeps, CrashKeeps, SpawnKeeps,
     SpawnFailsKeeps, CountKeeps DEF Counts
<1>4. CASE UNCHANGED node
  BY <1>1, <1>4
  DEF node, NodeInv, NodeTypeOK, OnePrimary, OneBackup, NoneYet, DueInTime,
      WritesInTime, WouldTakeOver, StandsStill, FileThere, Primaries, Backups
<1> QED
  BY <1>1, <1>2, <1>3, <1>4 DEF NodeNext

-----------------------------------------------------------------------------
(* The program does not disturb the processes.                              *)

LEMMA ProgramLeavesNode == Program => UNCHANGED node
  BY DEF Program, FirstFloor, SendStatus, HearOwn, HearOther, Save, CutHallFile,
         SaveHallFile, CutElevFile, SaveElevFile, Press, Serve

LEMMA NextIsNodeNext == [Next]_vars => [NodeNext]_node
<1>1. CASE Program
  BY <1>1, ProgramLeavesNode
<1>2. ASSUME NEW p \in Procs, Load(p) \/ ProcessCrash(p) \/ Panic(p)
      PROVE  TakeOver(p) \/ Crash(p)
  BY <1>2 DEF Load, ProcessCrash, Panic, Ends
<1>3. CASE UNCHANGED vars
  BY <1>3 DEF vars
<1> QED
  BY <1>1, <1>2, <1>3 DEF Next, NodeNext

\* However crashes and late wake-ups are spread, no two processes of a node run
\* its elevator at once, provided the file is not read while it is being written
\* and the periods leave room for the lateness.
THEOREM NodeHasOnePrimary ==
  ASSUME ~CutReads
  PROVE  Spec => []OnePrimary
<1>1. Init => NodeInv
  BY NodeInitially DEF Init
<1>2. NodeInv /\ [Next]_vars => NodeInv'
  BY NodeKeeps, NextIsNodeNext
<1>3. NodeInv => OnePrimary
  BY DEF NodeInv
<1> QED
  BY <1>1, <1>2, <1>3, PTL DEF Spec

-----------------------------------------------------------------------------
(* The program.                                                             *)

\* A program that has reached its first floor has its tables.
LampsInv ==
    program # "off" => IF orders = NoTable THEN program = "init" ELSE lamps = orders

LEMMA NoFloorsAreNoTable ==
  ASSUME NEW S \in SUBSET Floors
  PROVE  S # NoTable /\ S # Missing
  BY NoTableAssumption

LEMMA TypeInitially == Init => TypeOK
  BY CrashesAssumption, NodeInitially DEF Init, NodeInit, TypeOK, NodeInv, Tables, ElevFiles

\* The end of a process leaves every variable with a value it may have.
LEMMA EndsTypeOK ==
  ASSUME TypeOK, NodeTypeOK', crashes' \in Nat, NEW p \in Procs, Ends(p)
  PROVE  TypeOK'
  BY DEF TypeOK, Ends, Blank, Tables, handler, files, ElevFiles

LEMMA TypeKept == TypeOK /\ LampsInv /\ NodeTypeOK' /\ [Next]_vars => TypeOK'
<1>1. SUFFICES ASSUME TypeOK, LampsInv, NodeTypeOK', [Next]_vars
               PROVE  TypeOK'
  OBVIOUS
<1>2. CASE FirstFloor
  BY <1>1, <1>2 DEF TypeOK, FirstFloor, handler, files, history
<1>3. ASSUME NEW f \in Floors, Press(f) \/ Serve(f)
      PROVE  TypeOK'
  <2>1. orders \in SUBSET Floors
    BY <1>1, <1>3 DEF LampsInv, Press, Serve, TypeOK, Tables
  <2> QED
    BY <1>1, <1>3, <2>1 DEF TypeOK, Press, Serve, Tables, handler, files
<1>4. CASE SendStatus
  <2>1. orders \in SUBSET Floors
    BY <1>1, <1>4 DEF LampsInv, SendStatus, TypeOK, Tables
  <2> QED
    BY <1>1, <1>4, <2>1 DEF TypeOK, SendStatus, handler, files, history, elevator
<1>5. CASE HearOwn \/ HearOther
  BY <1>1, <1>5 DEF TypeOK, HearOwn, HearOther, Tables, files, history, elevator
<1>6. CASE Save
  BY <1>1, <1>6
  DEF TypeOK, Save, CutHallFile, SaveHallFile, CutElevFile, SaveElevFile, Tables,
      ElevFiles, history, elevator
<1>7. ASSUME NEW p \in Procs, Load(p)
      PROVE  TypeOK'
  BY <1>1, <1>7
  DEF TypeOK, Load, InitializeElevator, LoadedElevator, Tables, ElevFiles, files, history
<1>8. ASSUME NEW p \in Procs, ProcessCrash(p) \/ Panic(p)
      PROVE  TypeOK'
  <2>1. crashes' \in Nat
    BY <1>1, <1>8 DEF TypeOK, ProcessCrash, Panic
  <2> QED
    BY <1>1, <1>8, <2>1, EndsTypeOK DEF ProcessCrash, Panic
<1>9. CASE UNCHANGED Rest
  BY <1>1, <1>9 DEF TypeOK, Rest, elevator, handler, files, history
<1> QED
  BY <1>1, <1>2, <1>3, <1>4, <1>5, <1>6, <1>7, <1>8, <1>9 DEF Next, Program, vars, Rest

LEMMA LampsKept == TypeOK /\ LampsInv /\ [Next]_vars => LampsInv'
<1>1. SUFFICES ASSUME TypeOK, LampsInv, [Next]_vars
               PROVE  LampsInv'
  OBVIOUS
<1>2. CASE FirstFloor
  BY <1>1, <1>2 DEF LampsInv, FirstFloor
<1>3. ASSUME NEW f \in Floors, Press(f) \/ Serve(f)
      PROVE  LampsInv'
  <2>1. orders # NoTable /\ orders \in SUBSET Floors /\ lamps = orders
    BY <1>1, <1>3 DEF LampsInv, Press, Serve, TypeOK, Tables
  <2>2. orders' \in SUBSET Floors /\ lamps' = orders'
    BY <1>3, <2>1 DEF Press, Serve
  <2> QED
    BY <2>2, NoFloorsAreNoTable DEF LampsInv
<1>4. CASE SendStatus \/ HearOwn \/ HearOther \/ Save
  BY <1>1, <1>4
  DEF LampsInv, SendStatus, HearOwn, HearOther, Save, CutHallFile, SaveHallFile,
      CutElevFile, SaveElevFile, elevator
<1>5. ASSUME NEW p \in Procs, Load(p)
      PROVE  LampsInv'
  BY <1>5 DEF LampsInv, Load, InitializeElevator
<1>6. ASSUME NEW p \in Procs, ProcessCrash(p) \/ Panic(p)
      PROVE  LampsInv'
  BY <1>1, <1>6 DEF LampsInv, ProcessCrash, Panic, Ends, Blank
<1>7. CASE UNCHANGED Rest
  BY <1>1, <1>7 DEF LampsInv, Rest, elevator
<1> QED
  BY <1>1, <1>2, <1>3, <1>4, <1>5, <1>6, <1>7 DEF Next, Program, vars, Rest

\* The processes keep their types, two primaries or one: the file, once there,
\* stays.
LEMMA NodeTypeKept ==
    NodeTypeOK /\ FileThere /\ [NodeNext]_node => (NodeTypeOK /\ FileThere)'
<1>1. SUFFICES ASSUME NodeTypeOK, FileThere, [NodeNext]_node
               PROVE  (NodeTypeOK /\ FileThere)'
  OBVIOUS
<1>2. CASE Tick
  BY <1>1, <1>2 DEF Tick, NodeTypeOK, FileThere
<1>3. ASSUME NEW p \in Procs, Start(p) \/ Crash(p) \/ TakeOver(p)
      PROVE  (NodeTypeOK /\ FileThere)'
  BY <1>1, <1>3 DEF Start, Crash, TakeOver, NodeTypeOK, FileThere, Running
<1>4. ASSUME NEW p \in Procs, Waits(p)
      PROVE  (NodeTypeOK /\ FileThere)'
  <2>1. file # "missing" /\ Remember(p)
    BY <1>1, <1>4 DEF Waits, FirstRead, Sample, Reading, FileThere
  <2> QED
    BY <1>1, <2>1, TimingAssumption DEF Remember, NodeTypeOK, FileThere, Running
<1>5. ASSUME NEW p \in Procs, Counts(p)
      PROVE  (NodeTypeOK /\ FileThere)'
  BY <1>1, <1>5, TimingAssumption
  DEF Counts, Spawn, SpawnFails, Truncate, Write, NodeTypeOK, FileThere, Running
<1>6. CASE UNCHANGED node
  BY <1>1, <1>6 DEF node, NodeTypeOK, FileThere
<1> QED
  BY <1>1, <1>2, <1>3, <1>4, <1>5, <1>6 DEF NodeNext

\* Every variable keeps a value of its type, in every step of the processes, the
\* program and the handler.
THEOREM TypeCorrect == Spec => []TypeOK
<1>1. Init => TypeOK /\ FileThere /\ LampsInv
  BY TypeInitially, NodeInitially DEF Init, LampsInv, NodeInv
<1>2. TypeOK /\ FileThere /\ LampsInv /\ [Next]_vars => (TypeOK /\ FileThere /\ LampsInv)'
  BY TypeKept, LampsKept, NodeTypeKept, NextIsNodeNext DEF TypeOK
<1> QED
  BY <1>1, <1>2, PTL DEF Spec

\* While the elevator runs, its cab lamps show its cab orders, whatever lamps the
\* last run of the program left lit and whatever it had saved.
THEOREM LampsShowOrders == Spec => []CabLampsTrue
<1>1. Init => LampsInv
  BY DEF Init, LampsInv
<1>2. LampsInv => CabLampsTrue
  BY DEF LampsInv, CabLampsTrue
<1> QED
  BY <1>1, <1>2, TypeCorrect, LampsKept, PTL DEF Spec
=============================================================================
