---- MODULE Reboot ----
(***************************************************************************)
(* The processes of one node: a primary that runs the elevator and counts  *)
(* in the file count.data, and a backup that reads the file and takes over *)
(* when the count stands still.                                            *)
(*                                                                         *)
(* Time passes in ticks of half a second.  A process that sleeps is due in *)
(* due ticks, and goes on at most Slack ticks late.  Of the counts only    *)
(* whether two of them are equal is kept: no count is written twice while  *)
(* somebody remembers it.                                                  *)
(***************************************************************************)
EXTENDS Integers

CONSTANTS
    Procs,        \* the processes of the node
    WriteEvery,   \* ticks the primary sleeps
    SampleEvery,  \* ticks the backup sleeps
    Slack,        \* ticks a process may be late
    Compile,      \* ticks "go run" takes at least to start a process
    CutReads      \* TRUE: the file may be read between its truncation and the
                  \* writing of the count

\* What the scheduling of the machine must provide.
ASSUME TimingAssumption ==
    /\ WriteEvery \in Nat /\ SampleEvery \in Nat /\ Slack \in Nat /\ Compile \in Nat
    /\ WriteEvery + Slack < SampleEvery
    /\ Slack < Compile
    /\ CutReads \in BOOLEAN

VARIABLES
    phase,    \* what each process does
    due,      \* ticks until it goes on
    file,     \* count.data
    old,      \* countOld of each backup
    written   \* the processes since whose last reading a count was written

node == <<phase, due, file, old, written>>

Running == {"spawning", "primary", "cut"}   \* phases of primaryPhase

Primaries == {p \in Procs : phase[p] \in Running}
Backups   == {p \in Procs : phase[p] \in {"starting", "backup"}}

NodeTypeOK ==
    /\ phase \in [Procs -> Running \union {"none", "starting", "backup"}]
    /\ due \in [Procs -> Int]
    /\ file \in {"missing", "empty", "count"}
    /\ old \in [Procs -> {"empty", "count"}]
    /\ written \in SUBSET Procs

\* There may be a file of an earlier day.
NodeInit ==
    /\ phase = [p \in Procs |-> "none"]
    /\ due = [p \in Procs |-> 0]
    /\ file \in {"missing", "empty", "count"}
    /\ old = [p \in Procs |-> "empty"]
    /\ written = {}

Tick ==
    /\ \A p \in Procs : phase[p] \in {"none", "starting"} \/ due[p] > -Slack
    /\ due' = [p \in Procs |-> IF phase[p] # "none" /\ due[p] > -Slack
                               THEN due[p] - 1 ELSE due[p]]
    /\ UNCHANGED <<phase, file, old, written>>

\* Somebody starts the node's program.
Start(p) ==
    /\ \A q \in Procs : phase[q] = "none"
    /\ phase' = [phase EXCEPT ![p] = "starting"]
    /\ due' = [due EXCEPT ![p] = 0]
    /\ UNCHANGED <<file, old, written>>

\* A process reads the file.
Reading(p, ph) ==
    /\ phase[p] = ph /\ due[p] <= 0
    /\ CutReads \/ \A q \in Procs : phase[q] # "cut"

\* Seeded fault: an empty file never counts as one that stands still.
StandsStill_NotEmpty(b) == old[b] = file /\ file # "empty" /\ b \notin written

\* What b reads is what it read before.
StandsStill(b) == old[b] = file /\ (file = "empty" \/ b \notin written)

\* Seeded fault: the backup sleeps no longer than the primary.
Remember_Hasty(b) ==
    /\ phase' = [phase EXCEPT ![b] = "backup"]
    /\ due' = [due EXCEPT ![b] = WriteEvery]
    /\ old' = [old EXCEPT ![b] = file]
    /\ written' = written \ {b}
    /\ UNCHANGED file

\* The backup remembers what it has read, and sleeps.
Remember(b) ==
    /\ phase' = [phase EXCEPT ![b] = "backup"]
    /\ due' = [due EXCEPT ![b] = SampleEvery]
    /\ old' = [old EXCEPT ![b] = file]
    /\ written' = written \ {b}
    /\ UNCHANGED file

FirstRead(b) == Reading(b, "starting") /\ file # "missing" /\ Remember(b)

Sample(b) == Reading(b, "backup") /\ ~StandsStill(b) /\ Remember(b)

\* The end of backupPhase: there is no file, or nobody counts in it.
TakeOver(b) ==
    /\ \/ Reading(b, "starting") /\ file = "missing"
       \/ Reading(b, "backup") /\ StandsStill(b)
    /\ phase' = [phase EXCEPT ![b] = "spawning"]
    /\ due' = [due EXCEPT ![b] = 0]
    /\ UNCHANGED <<file, old, written>>

\* The primary has a backup started ...
Spawn(p, q) ==
    /\ phase[p] = "spawning" /\ phase[q] = "none"
    /\ phase' = [phase EXCEPT ![p] = "primary", ![q] = "starting"]
    /\ due' = [due EXCEPT ![q] = Compile]
    /\ UNCHANGED <<file, old, written>>

\* ... or fails to, and goes on without.
SpawnFails(p) ==
    /\ phase[p] = "spawning"
    /\ phase' = [phase EXCEPT ![p] = "primary"]
    /\ UNCHANGED <<due, file, old, written>>

\* ioutil.WriteFile empties the file, and writes the count.
Truncate(p) ==
    /\ phase[p] = "primary" /\ due[p] <= 0
    /\ phase' = [phase EXCEPT ![p] = "cut"]
    /\ file' = "empty"
    /\ UNCHANGED <<due, old, written>>

Write(p) ==
    /\ phase[p] = "cut"
    /\ phase' = [phase EXCEPT ![p] = "primary"]
    /\ due' = [due EXCEPT ![p] = WriteEvery]
    /\ file' = "count"
    /\ written' = Procs
    /\ UNCHANGED old

Crash(p) ==
    /\ phase[p] # "none"
    /\ phase' = [phase EXCEPT ![p] = "none"]
    /\ due' = [due EXCEPT ![p] = 0]
    /\ old' = [old EXCEPT ![p] = "empty"]
    /\ written' = written \ {p}
    /\ UNCHANGED file

\* What the processes do but for TakeOver and Crash, which the program of the
\* elevator has a part in.
Waits(p) == FirstRead(p) \/ Sample(p)

Counts(p) ==
    \/ SpawnFails(p) \/ Truncate(p) \/ Write(p)
    \/ \E q \in Procs : Spawn(p, q)

NodeNext ==
    \/ Tick
    \/ \E p \in Procs : Start(p) \/ Waits(p) \/ Counts(p) \/ TakeOver(p) \/ Crash(p)

-----------------------------------------------------------------------------
\* Two processes never run the elevator at the same time: no backup takes over
\* from a primary that counts, however late each of the two goes on.
OnePrimary == \A p, q \in Primaries : p = q

\* A backup whose primary has stopped takes over, wherever in its writing of the
\* file that stopped, unless it stops itself.
BackupTakesOver ==
    \A b \in Procs :
        phase[b] = "backup" /\ Primaries = {} ~> Primaries # {} \/ phase[b] = "none"
=============================================================================
