----------------------------- MODULE LocalServer -----------------------------
(***************************************************************************)
(* `deltix start`, `stop` and `status`, and the stop and start around a    *)
(* `deltix checkout`: several command lines, the run files they leave in   *)
(* ~/.deltix/run, and the processes of one machine that share one port.    *)
(*                                                                         *)
(* A command is a sequence of file reads, probes and signals, and other    *)
(* commands run in between.  A process is named by its pid; the code's -1  *)
(* for an unknown pid is 0.  An identity is a checkout ("rooted") or the   *)
(* bare name of a repository; each has one run file.                       *)
(***************************************************************************)
EXTENDS Naturals, Sequences, FiniteSets

CONSTANTS
  Callers,   \* the terminals that run commands
  Projects,  \* the identities (repo, projectRoot)
  Rooted,    \* those with a projectRoot
  Repos,     \* names of repositories, which are the names of databases
  RepoOf,    \* the repository of an identity
  Other,     \* what processes serve that are no Deltix servers
  NoFile,    \* the content of a run file that does not exist
  Commands,  \* the commands in use
  MaxPids,   \* bound: processes ever started
  MaxMishaps, \* bound: deaths, lost files, reused pids, crashes
  Faults     \* "slow", "dies", "fileLost", "lsof", "foreign", "pidReuse", "crash"

ASSUME ConstantsAssumption ==
  /\ Rooted \subseteq Projects /\ RepoOf \in [Projects -> Repos]
  /\ Other \notin Projects /\ NoFile \notin Nat
  /\ IsFiniteSet(Callers) /\ Projects # {} /\ Commands # {}
  /\ Commands \subseteq {"start", "stop", "status", "checkout"}
  /\ MaxPids \in Nat \ {0} /\ MaxMishaps \in Nat
  /\ Faults \subseteq {"slow", "dies", "fileLost", "lsof", "foreign", "pidReuse", "crash"}

VARIABLES
  procs,  \* the processes by pid: what each serves, and how far it is
  file,   \* the pid in each run file
  call,   \* the command each caller runs
  mishaps \* how many of these happened

vars == <<procs, file, call, mishaps>>

\* "starting": alive without the port; "up": listening; "stopping": got
\* SIGTERM and still holds the port; "exited".
Processes == [serves : Projects \cup {Other}, st : {"starting", "up", "stopping", "exited"}]
Pids      == 0..MaxPids
Steps     == {"idle", "first", "read", "query", "find", "alive", "clean", "adopt",
              "port", "spawn", "wait", "check", "save", "kill", "remove"}
Calls     == [cmd : Commands, id : Projects, run : {"start", "stop", "status"}, pc : Steps,
              pid : Pids, owner : Projects, filed : BOOLEAN, next : BOOLEAN]

TypeOK ==
  /\ procs \in Seq(Processes) /\ Len(procs) <= MaxPids
  /\ file \in [Projects -> Pids \cup {NoFile}]
  /\ call \in [Callers -> Calls]
  /\ mishaps \in 0..MaxMishaps
  /\ \A c \in Callers : /\ call[c].pid <= Len(procs)
                        /\ call[c].pc \in {"wait", "check", "save"} => call[c].pid > 0

-----------------------------------------------------------------------------
At(c, pc)    == call[c].pc = pc
Goto(c, pc)  == call' = [call EXCEPT ![c].pc = pc]
Id(c)        == call[c].id
Fails(f)     == f \in Faults
Mishap(f)    == Fails(f) /\ mishaps < MaxMishaps /\ mishaps' = mishaps + 1
Listening    == {p \in DOMAIN procs : procs[p].st \in {"up", "stopping"}}
Alive(p)     == p \in DOMAIN procs /\ procs[p].st # "exited"
SameRepo(i, j) == RepoOf[i] = RepoOf[j]

\* The connection to the database named after the repository succeeds.
Answers(p, id) == procs[p].serves # Other /\ SameRepo(procs[p].serves, id)

\* readState and, without a project root, findAnyStateForRepo: the run files
\* the lookup may return.
Found(id) ==
  IF file[id] # NoFile THEN {id}
  ELSE IF id \in Rooted THEN {}
  ELSE {o \in Projects : SameRepo(o, id) /\ file[o] # NoFile}

\* findPidByPort: the listener's pid, or 0.
PidByPort == Listening \cup IF Listening = {} \/ Fails("lsof") THEN {0} ELSE {}

AnyProject == CHOOSE i \in Projects : TRUE
Idle == [cmd |-> CHOOSE k \in Commands : TRUE, id |-> AnyProject, run |-> "status", pc |-> "idle",
         pid |-> 0, owner |-> AnyProject, filed |-> FALSE, next |-> FALSE]

\* A command is over; a checkout goes on from stop to start.
Ends(c) ==
  call' = [call EXCEPT ![c] =
             IF @.next THEN [@ EXCEPT !.run = "start", !.pc = "read", !.next = FALSE] ELSE Idle]

\* How each command goes on after status().
Running(c, pid) ==
  CASE call[c].run = "status" -> Ends(c)
    [] call[c].run = "start"  -> call' = [call EXCEPT ![c].pc = "adopt", ![c].pid = pid]
    [] call[c].run = "stop"   -> call' = [call EXCEPT ![c].pc = "kill", ![c].pid = pid,
                                                      ![c].owner = Id(c)]
NotRunning(c) == IF call[c].run = "start" THEN Goto(c, "port") ELSE Ends(c)

Signal(p) ==
  procs' = [procs EXCEPT ![p].st = CASE @ = "up" -> "stopping"
                                     [] @ = "starting" -> "exited"
                                     [] OTHER -> @]

Init ==
  /\ procs = << >>
  /\ file = [i \in Projects |-> NoFile]
  /\ call = [c \in Callers |-> Idle]
  /\ mishaps = 0

-----------------------------------------------------------------------------
\* Every running command may still start a process within the bound.
Room == Len(procs) + Cardinality({c \in Callers : ~At(c, "idle")}) < MaxPids

\* The user runs a command.  A checkout stops the server only when the port
\* answers.
Begin(c) ==
  \E k \in Commands, id \in Projects :
    /\ At(c, "idle") /\ Room
    /\ k = "checkout" => Listening # {}
    /\ call' = [call EXCEPT ![c] =
         [cmd |-> k, id |-> id, pid |-> 0, owner |-> id, filed |-> FALSE, next |-> k = "checkout",
          run |-> IF k = "checkout" THEN "stop" ELSE k,
          pc  |-> IF k \in {"stop", "checkout"} THEN "first" ELSE "read"]]
    /\ UNCHANGED <<procs, file, mishaps>>

\* stop() looks for a run file itself, before it asks status().
StopReads(c) ==
  /\ At(c, "first")
  /\ \/ \E o \in Found(Id(c)) :
          call' = [call EXCEPT ![c].pc = "kill", ![c].owner = o, ![c].pid = file[o]]
     \/ Found(Id(c)) = {} /\ Goto(c, "read")
  /\ UNCHANGED <<procs, file, mishaps>>

-----------------------------------------------------------------------------
\* status()

ReadRunFile(c) ==
  /\ At(c, "read")
  /\ \/ \E o \in Found(Id(c)) :
          call' = [call EXCEPT ![c].pc = IF file[o] = 0 THEN "query" ELSE "alive",
                               ![c].owner = o, ![c].pid = file[o], ![c].filed = TRUE]
     \/ /\ Found(Id(c)) = {}
        /\ call' = [call EXCEPT ![c].pc = "query", ![c].pid = 0, ![c].filed = FALSE]
  /\ UNCHANGED <<procs, file, mishaps>>

\* Mutants of QueryPort: without a run file nothing is running (before
\* 0.7.24); whatever listens is taken for the server.
QueryPort_NoProbe(c) ==
  /\ At(c, "query")
  /\ IF \E p \in Listening : Answers(p, Id(c)) /\ call[c].filed THEN Goto(c, "find")
     ELSE IF call[c].filed THEN Goto(c, "clean")
     ELSE NotRunning(c)
  /\ UNCHANGED <<procs, file, mishaps>>

QueryPort_AnyServer(c) ==
  /\ At(c, "query")
  /\ IF Listening # {} THEN Goto(c, "find")
     ELSE IF call[c].filed THEN Goto(c, "clean")
     ELSE NotRunning(c)
  /\ UNCHANGED <<procs, file, mishaps>>

\* Without a pid: does the port answer for the repository's database?
QueryPort(c) ==
  /\ At(c, "query")
  /\ IF \E p \in Listening : Answers(p, Id(c)) THEN Goto(c, "find")
     ELSE IF call[c].filed THEN Goto(c, "clean")
     ELSE NotRunning(c)
  /\ UNCHANGED <<procs, file, mishaps>>

FindPid(c) ==
  /\ At(c, "find")
  /\ \E p \in PidByPort :
       /\ file' = IF call[c].filed /\ p > 0 THEN [file EXCEPT ![call[c].owner] = p] ELSE file
       /\ Running(c, p)
  /\ UNCHANGED <<procs, mishaps>>

\* Mutant of CheckAlive: the pid must be the one lsof finds on the port.
CheckAlive_ByListener(c) ==
  /\ At(c, "alive")
  /\ \E p \in PidByPort :
       IF p = call[c].pid THEN Running(c, p) ELSE Goto(c, "clean")
  /\ UNCHANGED <<procs, file, mishaps>>

\* process.kill(pid, 0)
CheckAlive(c) ==
  /\ At(c, "alive")
  /\ IF Alive(call[c].pid) THEN Running(c, call[c].pid) ELSE Goto(c, "clean")
  /\ UNCHANGED <<procs, file, mishaps>>

\* The stale file goes, and with a project root also the repository's own.
CleanUp(c) ==
  LET o == call[c].owner
      bare == {i \in Projects \ Rooted : o \in Rooted /\ SameRepo(i, o)}
  IN  /\ At(c, "clean")
      /\ file' = [i \in Projects |-> IF i \in {o} \cup bare THEN NoFile ELSE file[i]]
      /\ NotRunning(c)
      /\ UNCHANGED <<procs, mishaps>>

-----------------------------------------------------------------------------
\* start()

\* The server runs: its run file is there, or is written again.
Adopt(c) ==
  /\ At(c, "adopt")
  /\ \/ Found(Id(c)) # {} /\ UNCHANGED file
     \/ /\ Found(Id(c)) = {}
        /\ \E p \in IF call[c].pid = 0 THEN PidByPort ELSE {call[c].pid} :
             file' = [file EXCEPT ![Id(c)] = p]
  /\ Ends(c)
  /\ UNCHANGED <<procs, mishaps>>

\* A port that is held by something else ends the start.
ProbePort(c) ==
  /\ At(c, "port")
  /\ IF Listening # {} THEN Ends(c) ELSE Goto(c, "spawn")
  /\ UNCHANGED <<procs, file, mishaps>>

\* Mutant of Spawn: the pid of the stale run file is kept for the new process.
Spawn_KeepsOldPid(c) ==
  /\ At(c, "spawn")
  /\ file' = [file EXCEPT ![Id(c)] = NoFile]
  /\ procs' = Append(procs, [serves |-> Id(c), st |-> "starting"])
  /\ Goto(c, "wait")
  /\ UNCHANGED mishaps

Spawn(c) ==
  /\ At(c, "spawn")
  /\ file' = [file EXCEPT ![Id(c)] = NoFile]
  /\ procs' = Append(procs, [serves |-> Id(c), st |-> "starting"])
  /\ call' = [call EXCEPT ![c].pc = "wait", ![c].pid = Len(procs) + 1]
  /\ UNCHANGED mishaps

\* waitForPort: something listens.
WaitReady(c) ==
  /\ At(c, "wait")
  /\ Listening # {}
  /\ Goto(c, "check")
  /\ UNCHANGED <<procs, file, mishaps>>

\* Mutants of WaitTimesOut: the process is left alone; only a process that
\* has exited ends the wait.
WaitTimesOut_NoSignal(c) ==
  /\ At(c, "wait")
  /\ Fails("slow") \/ ~Alive(call[c].pid)
  /\ Ends(c)
  /\ UNCHANGED <<procs, file, mishaps>>

WaitTimesOut_ExitedOnly(c) ==
  /\ At(c, "wait")
  /\ ~Alive(call[c].pid)
  /\ Ends(c)
  /\ UNCHANGED <<procs, file, mishaps>>

\* waitForPort gives up; the process that was spawned is not left behind.
WaitTimesOut(c) ==
  /\ At(c, "wait")
  /\ \/ Alive(call[c].pid) /\ Fails("slow") /\ Signal(call[c].pid)
     \/ ~Alive(call[c].pid) /\ UNCHANGED procs
  /\ Ends(c)
  /\ UNCHANGED <<file, mishaps>>

\* Something listens, but not the process that was spawned if that exited.
CheckExited(c) ==
  /\ At(c, "check")
  /\ IF Alive(call[c].pid) THEN Goto(c, "save") ELSE Ends(c)
  /\ UNCHANGED <<procs, file, mishaps>>

SaveState(c) ==
  /\ At(c, "save")
  /\ file' = [file EXCEPT ![Id(c)] = call[c].pid]
  /\ Ends(c)
  /\ UNCHANGED <<procs, mishaps>>

-----------------------------------------------------------------------------
\* stop()

\* SIGTERM to the recorded pid, else to whatever holds the port.
Kill(c) ==
  /\ At(c, "kill")
  /\ \E p \in IF call[c].pid = 0 THEN PidByPort ELSE {call[c].pid} :
       IF p > 0 THEN Signal(p) ELSE UNCHANGED procs
  /\ Goto(c, "remove")
  /\ UNCHANGED <<file, mishaps>>

RemoveState(c) ==
  /\ At(c, "remove")
  /\ file' = [file EXCEPT ![call[c].owner] = NoFile, ![Id(c)] = NoFile]
  /\ Ends(c)
  /\ UNCHANGED <<procs, mishaps>>

-----------------------------------------------------------------------------
\* The machine.

\* A server takes the port, or exits because the port is held.
Bind(p) ==
  /\ procs[p].st = "starting" /\ procs[p].serves # Other
  /\ procs' = [procs EXCEPT ![p].st = IF Listening = {} THEN "up" ELSE "exited"]
  /\ UNCHANGED <<file, call, mishaps>>

Exit(p) ==
  /\ \/ procs[p].st = "stopping" /\ UNCHANGED mishaps
     \/ procs[p].st = "up" /\ Mishap("dies")
  /\ procs' = [procs EXCEPT ![p].st = "exited"]
  /\ UNCHANGED <<file, call>>

\* Another database server takes the free port.
ForeignStarts ==
  /\ Listening = {} /\ Room
  /\ Mishap("foreign")
  /\ procs' = Append(procs, [serves |-> Other, st |-> "up"])
  /\ UNCHANGED <<file, call>>

\* The system gives the pid of a process that exited to an unrelated one,
\* not while its parent waits for it.
PidReused(p) ==
  /\ procs[p].st = "exited"
  /\ Mishap("pidReuse")
  /\ \A c \in Callers : call[c].pc \in {"wait", "check"} => call[c].pid # p
  /\ procs' = [procs EXCEPT ![p] = [serves |-> Other, st |-> "starting"]]
  /\ UNCHANGED <<file, call>>

FileLost(i) ==
  /\ file[i] # NoFile
  /\ Mishap("fileLost")
  /\ file' = [file EXCEPT ![i] = NoFile]
  /\ UNCHANGED <<procs, call>>

\* The command line dies between two steps.
Crash(c) ==
  /\ ~At(c, "idle")
  /\ Mishap("crash")
  /\ call' = [call EXCEPT ![c] = Idle]
  /\ UNCHANGED <<procs, file>>

-----------------------------------------------------------------------------
Status(c) == ReadRunFile(c) \/ QueryPort(c) \/ FindPid(c) \/ CheckAlive(c) \/ CleanUp(c)
Start(c)  == \/ Adopt(c) \/ ProbePort(c) \/ Spawn(c)
             \/ WaitReady(c) \/ WaitTimesOut(c) \/ CheckExited(c) \/ SaveState(c)
Stop(c)   == StopReads(c) \/ Kill(c) \/ RemoveState(c)
Run(c)    == Status(c) \/ Start(c) \/ Stop(c)
Machine   == \/ \E p \in DOMAIN procs : Bind(p) \/ Exit(p) \/ PidReused(p)
             \/ ForeignStarts \/ \E i \in Projects : FileLost(i)

Next == Machine \/ \E c \in Callers : Begin(c) \/ Run(c) \/ Crash(c)

Spec == Init /\ [][Next]_vars

\* A command runs on; its wait has a deadline.
FairSpec == Spec /\ \A c \in Callers : WF_vars(Run(c))

\* Besides, every terminal runs `start` again and again, spawned servers try to
\* bind, and those that were signalled exit.
BusySpec == /\ FairSpec
            /\ \A c \in Callers : SF_vars(Begin(c) /\ call'[c].cmd = "start")
            /\ \A p \in 1..MaxPids : WF_vars(p \in DOMAIN procs /\ Bind(p))
            /\ \A p \in 1..MaxPids :
                 WF_vars(p \in DOMAIN procs /\ procs[p].st = "stopping" /\ Exit(p))

-----------------------------------------------------------------------------
\* No run file sends a command to the server of another repository: a server
\* whose pid is in it serves the repository of the file ("terminate the
\* recorded PID").
RunFilesNameOwnServers ==
  \A i \in Projects, p \in DOMAIN procs :
     file[i] = p /\ Alive(p) /\ procs[p].serves # Other => Answers(p, i)

\* No server is lost: one that was not told to stop is in a run file of its
\* repository, at least with an unknown pid, or in the hands of a command
\* ("Never leave an orphaned server behind").
NoLostServer ==
  \A p \in DOMAIN procs : procs[p].serves # Other /\ procs[p].st \in {"starting", "up"} =>
     \/ \E i \in Projects : Answers(p, i) /\ file[i] \in {p, 0}
     \/ \E c \in Callers : call[c].pid = p /\ ~At(c, "idle")

\* "deltix start adopts the orphaned server ... instead of throwing 'Port
\* already in use'": a start that fails for the port does not have a running
\* server of its own there.
PortInUseByOthers ==
  \A c \in Callers : At(c, "port") =>
     \A p \in DOMAIN procs : ~(procs[p].st = "up" /\ procs[p].serves = Id(c))

\* Every command comes to an end.
CommandsEnd == \A c \in Callers : []<>At(c, "idle")

\* However the starts of several terminals interleave, and wherever one of them
\* broke off, in the end a server is up that the run file names, unless another
\* program has the port.
StartsConverge ==
  \A i \in Projects : <>[](\E p \in DOMAIN procs : /\ procs[p].st = "up"
                                                   /\ file[i] = p \/ procs[p].serves = Other)
=============================================================================
