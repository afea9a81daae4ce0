------------------------- MODULE LocalServer_proofs --------------------------
(***************************************************************************)
(* Theorems about LocalServer, for every value of its constants.           *)
(***************************************************************************)
EXTENDS LocalServer, FiniteSetTheorems, TLAPS

\* Who may still start a process: that is what the bound Room keeps free.
MaySpawn == {c \in Callers : call[c].pc \notin {"idle", "wait", "check", "save"}}

\* A step belongs to its command, and a checkout is over when it starts again.
CallOK(d, n) ==
  /\ d \in Calls /\ d.pid <= n
  /\ d.pc \in {"wait", "check", "save"} => d.pid > 0
  /\ d.next => d.run = "stop"
  /\ d.pc \in {"adopt", "port", "spawn", "wait", "check", "save"} => d.run = "start"
  /\ d.pc \in {"first", "kill", "remove"} => d.run = "stop"

\* What TypeOK needs to be inductive: neither a run file nor a command names a
\* pid to come, and there is room for who may start a process.
Shape ==
  /\ \A i \in Projects : file[i] \in 0..Len(procs) \cup {NoFile}
  /\ \A c \in Callers : CallOK(call[c], Len(procs))
  /\ Len(procs) + Cardinality(MaySpawn) <= MaxPids

TypeInv == TypeOK /\ Shape

AfterEnd(c) ==
  IF call[c].next THEN [call[c] EXCEPT !.run = "start", !.pc = "read", !.next = FALSE] ELSE Idle

LEMMA Ended ==
  ASSUME NEW c, Ends(c)
  PROVE  call' = [call EXCEPT ![c] = AfterEnd(c)]
BY DEF Ends, AfterEnd

LEMMA IdleOK ==
  ASSUME NEW n \in Nat
  PROVE  CallOK(Idle, n) /\ Idle.pc = "idle" /\ Idle.owner = Idle.id /\ ~Idle.next
<1>1. AnyProject \in Projects /\ (CHOOSE k \in Commands : TRUE) \in Commands /\ 0 \in Pids
  BY ConstantsAssumption DEF AnyProject, Pids
<1>2. Idle \in Calls
  BY <1>1 DEF Idle, Calls, Steps
<1> QED
  BY <1>2 DEF CallOK, Idle

LEMMA AfterEndOK ==
  ASSUME TypeInv, NEW c \in Callers
  PROVE  /\ CallOK(AfterEnd(c), Len(procs)) /\ AfterEnd(c).pc \in {"idle", "read"}
         /\ call[c].run = "start" => AfterEnd(c) = Idle
<1>1. Len(procs) \in Nat /\ CallOK(call[c], Len(procs))
  BY DEF TypeInv, TypeOK, Shape
<1>2. CASE call[c].next
  <2> DEFINE d == [call[c] EXCEPT !.run = "start", !.pc = "read", !.next = FALSE]
  <2>1. d \in Calls /\ d.pid = call[c].pid /\ d.pc = "read" /\ ~d.next
    BY <1>1 DEF CallOK, Calls, Steps
  <2>2. AfterEnd(c) = d
    BY <1>2 DEF AfterEnd
  <2> QED
    BY <1>1, <1>2, <2>1, <2>2 DEF CallOK
<1>3. CASE ~call[c].next
  BY <1>1, <1>3, IdleOK DEF AfterEnd
<1> QED
  BY <1>1, <1>2, <1>3 DEF CallOK

LEMMA Spawners ==
  ASSUME TypeInv
  PROVE  IsFiniteSet(MaySpawn) /\ Cardinality(MaySpawn) \in Nat /\ MaySpawn \subseteq Callers
<1>1. IsFiniteSet(MaySpawn) /\ MaySpawn \subseteq Callers
  BY ConstantsAssumption, FS_Subset DEF MaySpawn
<1> QED
  BY <1>1, FS_CardinalityType

\* A step of one command that starts no process.
LEMMA StepKeepsType ==
  ASSUME TypeInv, NEW c \in Callers, NEW d, CallOK(d, Len(procs)), call' = [call EXCEPT ![c] = d],
         d.pc \in {"idle", "wait", "check", "save"} \/ c \in MaySpawn,
         procs' \in Seq(Processes), Len(procs') = Len(procs), UNCHANGED mishaps,
         file' = file \/ \E P : file' = [i \in Projects |-> IF i \in P THEN NoFile ELSE file[i]]
                     \/ \E j \in Projects, p \in 0..Len(procs) : file' = [file EXCEPT ![j] = p]
  PROVE  TypeInv'
<1>1. /\ Len(procs) \in Nat /\ Len(procs) <= MaxPids /\ file \in [Projects -> Pids \cup {NoFile}]
      /\ call \in [Callers -> Calls] /\ mishaps \in 0..MaxMishaps /\ 0..Len(procs) \subseteq Pids
  BY ConstantsAssumption DEF TypeInv, TypeOK, Pids
<1>2. /\ file' \in [Projects -> Pids \cup {NoFile}]
      /\ \A i \in Projects : file'[i] \in 0..Len(procs) \cup {NoFile}
  BY <1>1 DEF TypeInv, Shape
<1>3. call' \in [Callers -> Calls] /\ \A x \in Callers : CallOK(call'[x], Len(procs))
  BY <1>1 DEF TypeInv, Shape, CallOK
<1>4. MaySpawn' \subseteq MaySpawn
  BY <1>1 DEF MaySpawn
<1>5. Cardinality(MaySpawn') <= Cardinality(MaySpawn) /\ Cardinality(MaySpawn') \in Nat
  BY <1>4, Spawners, FS_Subset, FS_CardinalityType
<1>6. TypeOK'
  BY <1>1, <1>2, <1>3 DEF TypeOK, CallOK
<1>7. Shape'
  BY <1>1, <1>2, <1>3, <1>5, Spawners, ConstantsAssumption DEF TypeInv, Shape
<1> QED
  BY <1>6, <1>7 DEF TypeInv

\* What a step that goes on makes of the call.
Moves(c, pc, pid, owner, filed) ==
  \E d \in Calls : /\ call' = [call EXCEPT ![c] = d]
                   /\ d.id = Id(c) /\ d.run = call[c].run /\ d.next = call[c].next
                   /\ d.pc = pc /\ d.pid = pid /\ d.owner = owner /\ d.filed = filed

LEMMA Moving ==
  ASSUME TypeOK, NEW c \in Callers, NEW pc \in Steps, NEW pid \in Pids, NEW owner \in Projects, NEW filed \in BOOLEAN
  PROVE  /\ Goto(c, pc) => Moves(c, pc, call[c].pid, call[c].owner, call[c].filed)
         /\ call' = [call EXCEPT ![c].pc = pc, ![c].pid = pid]
              => Moves(c, pc, pid, call[c].owner, call[c].filed)
         /\ call' = [call EXCEPT ![c].pc = pc, ![c].pid = pid, ![c].filed = filed]
              => Moves(c, pc, pid, call[c].owner, filed)
         /\ call' = [call EXCEPT ![c].pc = pc, ![c].pid = pid, ![c].owner = owner]
              => Moves(c, pc, pid, owner, call[c].filed)
         /\ call' = [call EXCEPT ![c].pc = pc, ![c].owner = owner, ![c].pid = pid]
              => Moves(c, pc, pid, owner, call[c].filed)
         /\ call' = [call EXCEPT ![c].pc = pc, ![c].owner = owner, ![c].pid = pid, ![c].filed = filed]
              => Moves(c, pc, pid, owner, filed)
<1>1. call[c] \in Calls
  BY DEF TypeOK
<1> DEFINE k == call[c]
           d1 == [k EXCEPT !.pc = pc]
           d2 == [k EXCEPT !.pc = pc, !.pid = pid]
           d3 == [k EXCEPT !.pc = pc, !.pid = pid, !.filed = filed]
           d4 == [k EXCEPT !.pc = pc, !.pid = pid, !.owner = owner]
           d5 == [k EXCEPT !.pc = pc, !.owner = owner, !.pid = pid]
           d6 == [k EXCEPT !.pc = pc, !.owner = owner, !.pid = pid, !.filed = filed]
<1>2. Goto(c, pc) => Moves(c, pc, k.pid, k.owner, k.filed)
  <2>1. /\ d1 \in Calls /\ d1.id = k.id /\ d1.run = k.run /\ d1.next = k.next
        /\ d1.pc = pc /\ d1.pid = k.pid /\ d1.owner = k.owner /\ d1.filed = k.filed
    BY <1>1 DEF Calls
  <2>2. Goto(c, pc) => call' = [call EXCEPT ![c] = d1]
    BY DEF Goto
  <2> QED
    BY <2>1, <2>2 DEF Moves, Id
<1>3. call' = [call EXCEPT ![c].pc = pc, ![c].pid = pid] => Moves(c, pc, pid, k.owner, k.filed)
  <2>1. /\ d2 \in Calls /\ d2.id = k.id /\ d2.run = k.run /\ d2.next = k.next
        /\ d2.pc = pc /\ d2.pid = pid /\ d2.owner = k.owner /\ d2.filed = k.filed
    BY <1>1 DEF Calls
  <2>2. call' = [call EXCEPT ![c].pc = pc, ![c].pid = pid] => call' = [call EXCEPT ![c] = d2]
    OBVIOUS
  <2> QED
    BY <2>1, <2>2 DEF Moves, Id
<1>4. call' = [call EXCEPT ![c].pc = pc, ![c].pid = pid, ![c].filed = filed] => Moves(c, pc, pid, k.owner, filed)
  <2>1. /\ d3 \in Calls /\ d3.id = k.id /\ d3.run = k.run /\ d3.next = k.next
        /\ d3.pc = pc /\ d3.pid = pid /\ d3.owner = k.owner /\ d3.filed = filed
    BY <1>1 DEF Calls
  <2>2. call' = [call EXCEPT ![c].pc = pc, ![c].pid = pid, ![c].filed = filed] => call' = [call EXCEPT ![c] = d3]
    OBVIOUS
  <2> QED
    BY <2>1, <2>2 DEF Moves, Id
<1>5. call' = [call EXCEPT ![c].pc = pc, ![c].pid = pid, ![c].owner = owner] => Moves(c, pc, pid, owner, k.filed)
  <2>1. /\ d4 \in Calls /\ d4.id = k.id /\ d4.run = k.run /\ d4.next = k.next
        /\ d4.pc = pc /\ d4.pid = pid /\ d4.owner = owner /\ d4.filed = k.filed
    BY <1>1 DEF Calls
  <2>2. call' = [call EXCEPT ![c].pc = pc, ![c].pid = pid, ![c].owner = owner] => call' = [call EXCEPT ![c] = d4]
    OBVIOUS
  <2> QED
    BY <2>1, <2>2 DEF Moves, Id
<1>6. call' = [call EXCEPT ![c].pc = pc, ![c].owner = owner, ![c].pid = pid] => Moves(c, pc, pid, owner, k.filed)
  <2>1. /\ d5 \in Calls /\ d5.id = k.id /\ d5.run = k.run /\ d5.next = k.next
        /\ d5.pc = pc /\ d5.pid = pid /\ d5.owner = owner /\ d5.filed = k.filed
    BY <1>1 DEF Calls
  <2>2. call' = [call EXCEPT ![c].pc = pc, ![c].owner = owner, ![c].pid = pid] => call' = [call EXCEPT ![c] = d5]
    OBVIOUS
  <2> QED
    BY <2>1, <2>2 DEF Moves, Id
<1>7. call' = [call EXCEPT ![c].pc = pc, ![c].owner = owner, ![c].pid = pid, ![c].filed = filed] => Moves(c, pc, pid, owner, filed)
  <2>1. /\ d6 \in Calls /\ d6.id = k.id /\ d6.run = k.run /\ d6.next = k.next
        /\ d6.pc = pc /\ d6.pid = pid /\ d6.owner = owner /\ d6.filed = filed
    BY <1>1 DEF Calls
  <2>2. call' = [call EXCEPT ![c].pc = pc, ![c].owner = owner, ![c].pid = pid, ![c].filed = filed] => call' = [call EXCEPT ![c] = d6]
    OBVIOUS
  <2> QED
    BY <2>1, <2>2 DEF Moves, Id
<1> QED
  BY <1>2, <1>3, <1>4, <1>5, <1>6, <1>7

LEMMA AfterStatus ==
  ASSUME TypeOK, NEW c \in Callers, NEW pid \in Pids
  PROVE  /\ Running(c, pid) => \/ call[c].run = "status" /\ Ends(c)
                               \/ call[c].run = "start" /\ Moves(c, "adopt", pid, call[c].owner, call[c].filed)
                               \/ call[c].run = "stop" /\ Moves(c, "kill", pid, Id(c), call[c].filed)
         /\ NotRunning(c) => \/ call[c].run = "start" /\ Moves(c, "port", call[c].pid, call[c].owner, call[c].filed)
                             \/ call[c].run # "start" /\ Ends(c)
<1>1. call[c] \in Calls /\ Id(c) \in Projects /\ call[c].run \in {"start", "stop", "status"}
      /\ call[c].pid \in Pids /\ call[c].owner \in Projects /\ call[c].filed \in BOOLEAN
  BY DEF TypeOK, Calls, Id
<1>2. Running(c, pid) => \/ call[c].run = "status" /\ Ends(c)
                         \/ call[c].run = "start" /\ call' = [call EXCEPT ![c].pc = "adopt", ![c].pid = pid]
                         \/ call[c].run = "stop" /\ call' = [call EXCEPT ![c].pc = "kill", ![c].pid = pid,
                                                                          ![c].owner = Id(c)]
  BY <1>1 DEF Running
<1>3. NotRunning(c) => \/ call[c].run = "start" /\ Goto(c, "port")
                       \/ call[c].run # "start" /\ Ends(c)
  BY DEF NotRunning
<1> QED
  BY <1>1, <1>2, <1>3, Moving DEF Steps

FileChange == \/ file' = file
              \/ \E P : file' = [i \in Projects |-> IF i \in P THEN NoFile ELSE file[i]]
              \/ \E j \in Projects, p \in 0..Len(procs) : file' = [file EXCEPT ![j] = p]

LEMMA MovesKeepType ==
  ASSUME TypeInv, NEW c \in Callers, NEW pc, NEW pid, NEW owner, NEW filed, Moves(c, pc, pid, owner, filed),
         pid <= Len(procs), pc \in {"wait", "check", "save"} => pid > 0,
         pc \in {"adopt", "port", "spawn", "wait", "check", "save"} => call[c].run = "start",
         pc \in {"first", "kill", "remove"} => call[c].run = "stop",
         pc \in {"wait", "check", "save"} \/ c \in MaySpawn,
         procs' \in Seq(Processes), Len(procs') = Len(procs), UNCHANGED mishaps, FileChange
  PROVE  TypeInv'
<1>1. PICK d \in Calls : /\ call' = [call EXCEPT ![c] = d]
                         /\ d.run = call[c].run /\ d.next = call[c].next /\ d.pc = pc /\ d.pid = pid
  BY DEF Moves
<1>2. CallOK(d, Len(procs))
  BY <1>1 DEF TypeInv, Shape, CallOK
<1> QED
  BY <1>1, <1>2, StepKeepsType DEF FileChange

LEMMA GotoKeepsType ==
  ASSUME TypeInv, NEW c \in Callers, NEW pc \in Steps, Goto(c, pc), pc \notin {"idle", "adopt", "first", "remove"},
         pc \in {"port", "spawn", "wait", "check", "save"} => call[c].run = "start",
         pc = "kill" => call[c].run = "stop",
         pc \in {"wait", "check", "save"} => call[c].pid > 0,
         pc \in {"wait", "check", "save"} \/ c \in MaySpawn,
         procs' \in Seq(Processes), Len(procs') = Len(procs), UNCHANGED mishaps, FileChange
  PROVE  TypeInv'
<1>1. /\ call[c].pid \in Pids /\ call[c].owner \in Projects /\ call[c].filed \in BOOLEAN
      /\ call[c].pid <= Len(procs) /\ TypeOK
  BY DEF TypeInv, TypeOK, Calls
<1>2. Moves(c, pc, call[c].pid, call[c].owner, call[c].filed)
  BY <1>1, Moving
<1> QED
  BY <1>1, <1>2, MovesKeepType

LEMMA EndsKeepType ==
  ASSUME TypeInv, NEW c \in Callers, Ends(c), ~At(c, "idle"),
         procs' \in Seq(Processes), Len(procs') = Len(procs), UNCHANGED mishaps, FileChange
  PROVE  TypeInv'
<1>1. /\ CallOK(call[c], Len(procs)) /\ Len(procs) \in Nat
      /\ call[c].pc \in {"wait", "check", "save"} => call[c].run = "start"
  BY DEF TypeInv, TypeOK, Shape, CallOK
<1>2. AfterEnd(c).pc = "idle" \/ c \in MaySpawn
  BY <1>1, AfterEndOK, IdleOK DEF MaySpawn, At, TypeInv, TypeOK
<1>3. CallOK(AfterEnd(c), Len(procs)) /\ AfterEnd(c).pc \in {"idle", "read"}
  BY <1>1, AfterEndOK
<1>4. call' = [call EXCEPT ![c] = AfterEnd(c)]
  BY Ended
<1> QED
  BY <1>2, <1>3, <1>4, StepKeepsType DEF FileChange

LEMMA SignalType ==
  ASSUME procs \in Seq(Processes), NEW p \in DOMAIN procs, Signal(p)
  PROVE  procs' \in Seq(Processes) /\ Len(procs') = Len(procs) /\ DOMAIN procs' = DOMAIN procs
<1> DEFINE st == CASE procs[p].st = "up" -> "stopping"
                   [] procs[p].st = "starting" -> "exited"
                   [] OTHER -> procs[p].st
           q  == [procs[p] EXCEPT !.st = st]
<1>1. procs[p] \in Processes
  OBVIOUS
<1>2. st \in {"starting", "up", "stopping", "exited"}
  BY <1>1 DEF Processes
<1>3. q \in Processes
  BY <1>1, <1>2 DEF Processes
<1>4. procs' = [procs EXCEPT ![p] = q]
  BY DEF Signal
<1> HIDE DEF q
<1> QED
  BY <1>3, <1>4

LEMMA RunType == ASSUME TypeInv, NEW c \in Callers, Run(c) PROVE TypeInv'
<1> DEFINE k == call[c]
<1>1. /\ TypeOK /\ k \in Calls /\ k.pid \in Pids /\ k.owner \in Projects /\ k.filed \in BOOLEAN /\ Id(c) \in Projects
      /\ Len(procs) \in Nat /\ procs \in Seq(Processes) /\ DOMAIN procs = 1..Len(procs) /\ 0..Len(procs) \subseteq Pids
      /\ CallOK(k, Len(procs)) /\ k.pid \in 0..Len(procs)
  BY ConstantsAssumption DEF TypeInv, TypeOK, Shape, CallOK, Calls, Pids, Id
<1>2. PidByPort \subseteq 0..Len(procs)
  BY <1>1 DEF PidByPort, Listening
<1>3. \A o \in Found(Id(c)) : o \in Projects /\ file[o] \in 0..Len(procs)
  BY <1>1 DEF Found, TypeInv, Shape
<1>4. UNCHANGED procs => procs' \in Seq(Processes) /\ Len(procs') = Len(procs)
  BY <1>1
<1>5. k.pc \notin {"idle", "wait", "check", "save"} => c \in MaySpawn
  BY DEF MaySpawn
<1> USE DEF At
<1>6. CASE StopReads(c)
  <2>1. CASE Found(Id(c)) = {} /\ Goto(c, "read")
    BY <1>4, <1>5, <1>6, <2>1, GotoKeepsType DEF StopReads, Steps, FileChange
  <2>2. ASSUME NEW o \in Found(Id(c)), call' = [call EXCEPT ![c].pc = "kill", ![c].owner = o, ![c].pid = file[o]]
        PROVE  TypeInv'
    <3>1. Moves(c, "kill", file[o], o, k.filed)
      BY <1>1, <1>3, <2>2, Moving DEF Steps
    <3>2. k.run = "stop"
      BY <1>1, <1>6 DEF StopReads, CallOK
    <3> QED
      <4>1. file[o] \in Nat /\ file[o] <= Len(procs)
        BY <1>1, <1>3
      <4> QED
        BY <1>4, <1>5, <1>6, <3>1, <3>2, <4>1, MovesKeepType DEF StopReads, FileChange
  <2> QED
    BY <1>6, <2>1, <2>2 DEF StopReads
<1>7. CASE ReadRunFile(c)
  <2>1. PICK pc \in {"query", "alive"}, pid \in 0..Len(procs), owner \in Projects, filed \in BOOLEAN : Moves(c, pc, pid, owner, filed)
    <3>1. CASE call' = [call EXCEPT ![c].pc = "query", ![c].pid = 0, ![c].filed = FALSE]
      <4>1. 0 \in Pids /\ FALSE \in BOOLEAN /\ "query" \in Steps /\ 0 \in 0..Len(procs)
        BY <1>1 DEF Steps
      <4>2. Moves(c, "query", 0, k.owner, FALSE)
        BY <1>1, <3>1, <4>1, Moving
      <4> QED
        BY <1>1, <4>1, <4>2
    <3>2. ASSUME NEW o \in Found(Id(c)),
                 call' = [call EXCEPT ![c].pc = IF file[o] = 0 THEN "query" ELSE "alive",
                                      ![c].owner = o, ![c].pid = file[o], ![c].filed = TRUE]
          PROVE  \E pc \in {"query", "alive"} : Moves(c, pc, file[o], o, TRUE)
      <4> DEFINE pc == IF file[o] = 0 THEN "query" ELSE "alive"
      <4>1. pc \in Steps /\ pc \in {"query", "alive"}
        BY DEF Steps
      <4>2. call' = [call EXCEPT ![c].pc = pc, ![c].owner = o, ![c].pid = file[o], ![c].filed = TRUE]
        BY <3>2
      <4> HIDE DEF pc
      <4> QED
        BY <1>1, <1>3, <4>1, <4>2, Moving
    <3> QED
      BY <1>3, <1>7, <3>1, <3>2 DEF ReadRunFile
  <2> QED
    <3>1. pid <= Len(procs)
      BY <1>1
    <3> QED
      BY <1>4, <1>5, <1>7, <2>1, <3>1, MovesKeepType DEF ReadRunFile, FileChange
<1>8. CASE QueryPort(c)
  <2>1. CASE Goto(c, "find") \/ Goto(c, "clean")
    BY <1>4, <1>5, <1>8, <2>1, GotoKeepsType DEF QueryPort, Steps, FileChange
  <2>2. CASE NotRunning(c)
    BY <1>1, <1>4, <1>5, <1>8, <2>2, AfterStatus, MovesKeepType, EndsKeepType DEF QueryPort, FileChange
  <2> QED
    BY <1>8, <2>1, <2>2 DEF QueryPort
<1>9. CASE FindPid(c)
  <2>1. PICK p \in PidByPort : Running(c, p)
                               /\ file' = IF k.filed /\ p > 0 THEN [file EXCEPT ![k.owner] = p] ELSE file
    BY <1>9 DEF FindPid
  <2>2. p \in 0..Len(procs) /\ FileChange
    BY <1>1, <1>2, <2>1 DEF FileChange
  <2> QED
    BY <1>1, <1>4, <1>5, <1>9, <2>1, <2>2, AfterStatus, MovesKeepType, EndsKeepType DEF FindPid
<1>10. CASE CheckAlive(c)
  <2>1. CASE Goto(c, "clean")
    BY <1>4, <1>5, <1>10, <2>1, GotoKeepsType DEF CheckAlive, Steps, FileChange
  <2>2. CASE Running(c, k.pid)
    BY <1>1, <1>4, <1>5, <1>10, <2>2, AfterStatus, MovesKeepType, EndsKeepType DEF CheckAlive, FileChange
  <2> QED
    BY <1>10, <2>1, <2>2 DEF CheckAlive
<1>11. CASE CleanUp(c)
  <2>1. FileChange /\ NotRunning(c)
    BY <1>11 DEF CleanUp, FileChange
  <2> QED
    BY <1>1, <1>4, <1>5, <1>11, <2>1, AfterStatus, MovesKeepType, EndsKeepType DEF CleanUp
<1>12. CASE Adopt(c)
  <2>1. FileChange
    BY <1>1, <1>2, <1>12 DEF Adopt, FileChange
  <2> QED
    BY <1>4, <1>12, <2>1, EndsKeepType DEF Adopt
<1>13. CASE ProbePort(c)
  <2>1. k.run = "start"
    BY <1>1, <1>13 DEF ProbePort, CallOK
  <2>2. CASE Goto(c, "spawn")
    BY <1>4, <1>5, <1>13, <2>1, <2>2, GotoKeepsType DEF ProbePort, Steps, FileChange
  <2> QED
    BY <1>4, <1>13, <2>2, EndsKeepType DEF ProbePort, FileChange
<1>14. CASE WaitReady(c)
  <2>1. k.run = "start" /\ k.pid > 0
    BY <1>1, <1>14 DEF WaitReady, CallOK
  <2> QED
    BY <1>4, <1>14, <2>1, GotoKeepsType DEF WaitReady, Steps, FileChange
<1>15. CASE WaitTimesOut(c)
  <2>1. procs' \in Seq(Processes) /\ Len(procs') = Len(procs)
    BY <1>1, <1>4, <1>15, SignalType DEF WaitTimesOut, Alive
  <2> QED
    BY <1>15, <2>1, EndsKeepType DEF WaitTimesOut, FileChange
<1>16. CASE CheckExited(c)
  <2>1. k.run = "start" /\ k.pid > 0
    BY <1>1, <1>16 DEF CheckExited, CallOK
  <2>2. CASE Goto(c, "save")
    BY <1>4, <1>16, <2>1, <2>2, GotoKeepsType DEF CheckExited, Steps, FileChange
  <2> QED
    BY <1>4, <1>16, <2>2, EndsKeepType DEF CheckExited, FileChange
<1>17. CASE SaveState(c)
  <2>1. FileChange
    BY <1>1, <1>17 DEF SaveState, FileChange
  <2> QED
    BY <1>4, <1>17, <2>1, EndsKeepType DEF SaveState
<1>18. CASE Kill(c)
  <2>1. procs' \in Seq(Processes) /\ Len(procs') = Len(procs)
    <3>1. PICK p \in 0..Len(procs) : IF p > 0 THEN Signal(p) ELSE UNCHANGED procs
      BY <1>1, <1>2, <1>18 DEF Kill
    <3> QED
      BY <1>1, <1>4, <3>1, SignalType
  <2> QED
    <3>1. Moves(c, "remove", k.pid, k.owner, k.filed) /\ k.run = "stop"
      BY <1>1, <1>18, Moving DEF Kill, Steps, CallOK
    <3> QED
      BY <1>1, <1>5, <1>18, <2>1, <3>1, MovesKeepType DEF Kill, FileChange
<1>19. CASE RemoveState(c)
  <2>1. file' = [i \in Projects |-> IF i \in {k.owner, Id(c)} THEN NoFile ELSE file[i]]
    BY <1>1, <1>19 DEF RemoveState, TypeOK
  <2> QED
    BY <1>4, <1>19, <2>1, EndsKeepType DEF RemoveState, FileChange
<1>20. CASE Spawn(c)
  <2> DEFINE q == [serves |-> Id(c), st |-> "starting"]
             n == Len(procs) + 1
  <2>1. q \in Processes
    BY <1>1 DEF Processes
  <2>2. k.run = "start" /\ k.pc = "spawn" /\ UNCHANGED mishaps
    BY <1>1, <1>20 DEF Spawn, CallOK
  <2>3. /\ procs' = Append(procs, q) /\ procs' \in Seq(Processes) /\ Len(procs') = n
    BY <1>1, <1>20, <2>1 DEF Spawn
  <2>4. Cardinality(MaySpawn \ {c}) = Cardinality(MaySpawn) - 1 /\ Cardinality(MaySpawn) \in Nat
        /\ Cardinality(MaySpawn) > 0 /\ n <= MaxPids
    <3>1. c \in MaySpawn
      BY <2>2 DEF MaySpawn
    <3>2. Cardinality(MaySpawn \ {c}) = Cardinality(MaySpawn) - 1 /\ Cardinality(MaySpawn) \in Nat
      BY <3>1, Spawners, FS_RemoveElement
    <3>3. Cardinality(MaySpawn \ {c}) \in Nat
      BY Spawners, FS_RemoveElement, FS_CardinalityType
    <3> QED
      BY <1>1, <3>2, <3>3, ConstantsAssumption DEF TypeInv, Shape
  <2>5. n \in Pids
    BY <1>1, <2>4, ConstantsAssumption DEF Pids
  <2>6. Moves(c, "wait", n, k.owner, k.filed)
    BY <1>1, <1>20, <2>5, Moving DEF Spawn, Steps
  <2>7. PICK d \in Calls : /\ call' = [call EXCEPT ![c] = d]
                           /\ d.run = "start" /\ d.next = k.next /\ d.pc = "wait" /\ d.pid = n
    BY <2>2, <2>6 DEF Moves
  <2>8. call' \in [Callers -> Calls] /\ \A x \in Callers : CallOK(call'[x], n)
    <3>1. CallOK(d, n)
      BY <1>1, <2>2, <2>7 DEF CallOK
    <3>2. \A x \in Callers : CallOK(call[x], n)
      BY <1>1 DEF TypeInv, TypeOK, Shape, CallOK, Calls, Pids
    <3> QED
      BY <1>1, <2>7, <3>1, <3>2 DEF TypeOK
  <2>9. /\ file' \in [Projects -> Pids \cup {NoFile}]
        /\ \A i \in Projects : file'[i] \in 0..n \cup {NoFile}
    BY <1>1, <1>20 DEF Spawn, TypeOK, TypeInv, Shape
  <2>10. MaySpawn' = MaySpawn \ {c}
    BY <1>1, <2>7 DEF MaySpawn, TypeOK
  <2>11. TypeOK'
    BY <1>1, <2>2, <2>3, <2>4, <2>8, <2>9 DEF TypeOK, CallOK
  <2>12. Shape'
    BY <1>1, <2>3, <2>4, <2>8, <2>9, <2>10, ConstantsAssumption DEF TypeInv, Shape
  <2> QED
    BY <2>11, <2>12 DEF TypeInv
<1> QED
  BY <1>6, <1>7, <1>8, <1>9, <1>10, <1>11, <1>12, <1>13, <1>14, <1>15, <1>16, <1>17, <1>18, <1>19, <1>20
     DEF Run, Status, Start, Stop

LEMMA InitType == Init => TypeInv
<1> SUFFICES ASSUME Init PROVE TypeInv
  OBVIOUS
<1>1. procs = << >> /\ Len(procs) = 0 /\ procs \in Seq(Processes)
  BY DEF Init
<1>2. CallOK(Idle, 0) /\ Idle.pc = "idle"
  BY IdleOK
<1>3. \A c \in Callers : call[c] = Idle
  BY DEF Init
<1>4. MaySpawn = {}
  BY <1>2, <1>3 DEF MaySpawn
<1>5. TypeOK
  <2>1. call \in [Callers -> Calls]
    BY <1>2 DEF Init, CallOK
  <2>2. \A c \in Callers : CallOK(call[c], Len(procs))
    BY <1>1, <1>2, <1>3
  <2> QED
    BY <1>1, <2>1, <2>2, ConstantsAssumption DEF Init, TypeOK, CallOK, Pids
<1>6. Shape
  BY <1>1, <1>2, <1>3, <1>4, FS_EmptySet, ConstantsAssumption DEF Init, Shape
<1> QED
  BY <1>5, <1>6 DEF TypeInv

LEMMA BeginType == ASSUME TypeInv, NEW c \in Callers, Begin(c) PROVE TypeInv'
<1>1. PICK k \in Commands, id \in Projects :
        call' = [call EXCEPT ![c] =
         [cmd |-> k, id |-> id, pid |-> 0, owner |-> id, filed |-> FALSE, next |-> k = "checkout",
          run |-> IF k = "checkout" THEN "stop" ELSE k,
          pc  |-> IF k \in {"stop", "checkout"} THEN "first" ELSE "read"]]
  BY DEF Begin
<1> DEFINE d == [cmd |-> k, id |-> id, pid |-> 0, owner |-> id, filed |-> FALSE, next |-> k = "checkout",
                 run |-> IF k = "checkout" THEN "stop" ELSE k,
                 pc  |-> IF k \in {"stop", "checkout"} THEN "first" ELSE "read"]
           Busy == {x \in Callers : ~At(x, "idle")}
<1>2. /\ Len(procs) \in Nat /\ UNCHANGED <<procs, file, mishaps>> /\ At(c, "idle") /\ Room
  BY DEF Begin, TypeInv, TypeOK
<1>3. CallOK(d, Len(procs))
  <2>1. k \in {"start", "stop", "status", "checkout"} /\ 0 \in Pids
    BY ConstantsAssumption DEF Pids
  <2>2. d \in Calls
    BY <2>1 DEF Calls, Steps
  <2>3. d.pid = 0 /\ d.pc \in {"first", "read"} /\ (d.next => d.run = "stop") /\ (d.pc = "first" => d.run = "stop")
    BY <2>1
  <2> HIDE DEF d
  <2> QED
    BY <1>2, <2>2, <2>3 DEF CallOK
<1>4. call' = [call EXCEPT ![c] = d] /\ d.pc # "idle"
  BY <1>1
<1> HIDE DEF d
<1>5. call' \in [Callers -> Calls] /\ \A x \in Callers : CallOK(call'[x], Len(procs))
  BY <1>3, <1>4 DEF TypeInv, TypeOK, Shape, CallOK
<1>6. Len(procs) + Cardinality(MaySpawn') <= MaxPids /\ Cardinality(MaySpawn') \in Nat
  <2>1. IsFiniteSet(Busy) /\ c \notin Busy
    BY <1>2, ConstantsAssumption, FS_Subset DEF At
  <2>2. IsFiniteSet(Busy \cup {c}) /\ Cardinality(Busy \cup {c}) = Cardinality(Busy) + 1
    BY <2>1, FS_AddElement
  <2>3. MaySpawn' \subseteq Busy \cup {c}
    BY <1>4 DEF MaySpawn, At, TypeInv, TypeOK
  <2>4. Cardinality(MaySpawn') <= Cardinality(Busy) + 1 /\ Cardinality(MaySpawn') \in Nat /\ Cardinality(Busy) \in Nat
    BY <2>1, <2>2, <2>3, FS_Subset, FS_CardinalityType
  <2> QED
    BY <1>2, <2>4, ConstantsAssumption DEF Room
<1>7. TypeOK'
  BY <1>2, <1>5 DEF TypeInv, TypeOK, CallOK
<1>8. Shape'
  BY <1>2, <1>5, <1>6 DEF TypeInv, Shape
<1> QED
  BY <1>7, <1>8 DEF TypeInv

LEMMA CrashType == ASSUME TypeInv, NEW c \in Callers, Crash(c) PROVE TypeInv'
<1>1. /\ Len(procs) \in Nat /\ UNCHANGED <<procs, file>> /\ call' = [call EXCEPT ![c] = Idle]
      /\ mishaps' \in 0..MaxMishaps
  BY ConstantsAssumption DEF Crash, Mishap, TypeInv, TypeOK
<1>2. CallOK(Idle, Len(procs)) /\ Idle.pc = "idle"
  BY <1>1, IdleOK
<1>3. call' \in [Callers -> Calls] /\ \A x \in Callers : CallOK(call'[x], Len(procs))
  BY <1>1, <1>2 DEF TypeInv, TypeOK, Shape, CallOK
<1>4. MaySpawn' \subseteq MaySpawn
  BY <1>1, <1>2 DEF MaySpawn, TypeInv, TypeOK
<1>5. Cardinality(MaySpawn') <= Cardinality(MaySpawn) /\ Cardinality(MaySpawn') \in Nat
  BY <1>4, Spawners, FS_Subset, FS_CardinalityType
<1>6. TypeOK'
  BY <1>1, <1>3 DEF TypeInv, TypeOK, CallOK
<1>7. Shape'
  BY <1>1, <1>3, <1>5, Spawners, ConstantsAssumption DEF TypeInv, Shape
<1> QED
  BY <1>6, <1>7 DEF TypeInv

\* What the machine does to the processes, apart from starting one.
LEMMA ProcessType ==
  ASSUME TypeInv, procs' \in Seq(Processes), Len(procs') = Len(procs), UNCHANGED <<file, call>>,
         mishaps' \in 0..MaxMishaps
  PROVE  TypeInv'
<1>1. MaySpawn' = MaySpawn
  BY DEF MaySpawn
<1> QED
  BY <1>1 DEF TypeInv, TypeOK, Shape

LEMMA Mishaps == ASSUME TypeInv, NEW f, Mishap(f) \/ UNCHANGED mishaps PROVE mishaps' \in 0..MaxMishaps
BY ConstantsAssumption DEF TypeInv, TypeOK, Mishap

LEMMA ChangesProcess ==
  ASSUME procs \in Seq(Processes), NEW p \in DOMAIN procs, NEW st \in {"starting", "up", "stopping", "exited"},
         procs' = [procs EXCEPT ![p].st = st]
  PROVE  /\ procs' \in Seq(Processes) /\ Len(procs') = Len(procs) /\ DOMAIN procs' = DOMAIN procs
         /\ \A x \in DOMAIN procs : procs'[x].serves = procs[x].serves
         /\ procs'[p].st = st /\ \A x \in DOMAIN procs : x # p => procs'[x] = procs[x]
<1> DEFINE q == [procs[p] EXCEPT !.st = st]
<1>1. procs[p] \in Processes
  OBVIOUS
<1>2. q \in Processes /\ q.serves = procs[p].serves /\ q.st = st
  BY <1>1 DEF Processes
<1>3. procs' = [procs EXCEPT ![p] = q]
  OBVIOUS
<1> HIDE DEF q
<1> QED
  BY <1>2, <1>3

LEMMA MachineType == ASSUME TypeInv, Machine PROVE TypeInv'
<1>0. procs \in Seq(Processes) /\ Len(procs) \in Nat /\ DOMAIN procs = 1..Len(procs)
  BY DEF TypeInv, TypeOK
<1>1. ASSUME NEW p \in DOMAIN procs, Bind(p) PROVE TypeInv'
  <2> DEFINE st == IF Listening = {} THEN "up" ELSE "exited"
  <2>1. procs' = [procs EXCEPT ![p].st = st] /\ st \in {"starting", "up", "stopping", "exited"}
    BY <1>1 DEF Bind
  <2> HIDE DEF st
  <2>2. procs' \in Seq(Processes) /\ Len(procs') = Len(procs)
    BY <1>0, <2>1, ChangesProcess
  <2> QED
    BY <1>1, <2>2, ProcessType DEF Bind, TypeInv, TypeOK
<1>2. ASSUME NEW p \in DOMAIN procs, Exit(p) PROVE TypeInv'
  BY <1>0, <1>2, ChangesProcess, ProcessType, Mishaps DEF Exit
<1>3. ASSUME NEW p \in DOMAIN procs, PidReused(p) PROVE TypeInv'
  <2>1. [serves |-> Other, st |-> "starting"] \in Processes
    BY DEF Processes
  <2> QED
    BY <1>0, <1>3, <2>1, ProcessType, Mishaps DEF PidReused
<1>4. ASSUME ForeignStarts PROVE TypeInv'
  <2> DEFINE Busy == {x \in Callers : ~At(x, "idle")}
             q == [serves |-> Other, st |-> "up"]
  <2>1. q \in Processes
    BY DEF Processes
  <2>2. procs' = Append(procs, q) /\ UNCHANGED <<file, call>> /\ Room /\ mishaps' \in 0..MaxMishaps
    BY <1>4, Mishaps DEF ForeignStarts
  <2>3. procs' \in Seq(Processes) /\ Len(procs') = Len(procs) + 1
    BY <1>0, <2>1, <2>2
  <2>4. IsFiniteSet(Busy) /\ MaySpawn \subseteq Busy /\ MaySpawn' = MaySpawn
    BY <2>2, ConstantsAssumption, FS_Subset DEF MaySpawn, At
  <2>5. /\ Cardinality(MaySpawn) <= Cardinality(Busy) /\ Cardinality(Busy) \in Nat /\ Cardinality(MaySpawn) \in Nat
    BY <2>4, Spawners, FS_Subset, FS_CardinalityType
  <2>6. Len(procs') + Cardinality(MaySpawn') <= MaxPids /\ Len(procs') <= MaxPids
    BY <1>0, <2>2, <2>3, <2>4, <2>5, ConstantsAssumption DEF Room
  <2>7. \A x \in Callers : CallOK(call[x], Len(procs'))
    BY <1>0, <2>3 DEF TypeInv, TypeOK, Shape, CallOK, Calls, Pids
  <2>8. TypeOK'
    BY <2>2, <2>3, <2>6, <2>7 DEF TypeInv, TypeOK, CallOK
  <2>9. Shape'
    BY <1>0, <2>2, <2>3, <2>6, <2>7 DEF TypeInv, Shape
  <2> QED
    BY <2>8, <2>9 DEF TypeInv
<1>5. ASSUME NEW i \in Projects, FileLost(i) PROVE TypeInv'
  <2>1. mishaps' \in 0..MaxMishaps /\ UNCHANGED <<procs, call>> /\ file' = [file EXCEPT ![i] = NoFile]
    BY <1>5, Mishaps DEF FileLost
  <2>2. MaySpawn' = MaySpawn
    BY <2>1 DEF MaySpawn
  <2> QED
    BY <2>1, <2>2 DEF TypeInv, TypeOK, Shape
<1> QED
  BY <1>1, <1>2, <1>3, <1>4, <1>5 DEF Machine

LEMMA NextType == TypeInv /\ [Next]_vars => TypeInv'
<1> SUFFICES ASSUME TypeInv, [Next]_vars PROVE TypeInv'
  OBVIOUS
<1>1. CASE Machine
  BY <1>1, MachineType
<1>2. ASSUME NEW c \in Callers, Begin(c) \/ Run(c) \/ Crash(c) PROVE TypeInv'
  BY <1>2, BeginType, RunType, CrashType
<1>3. CASE UNCHANGED vars
  <2>1. UNCHANGED MaySpawn
    BY <1>3 DEF MaySpawn, vars
  <2> QED
    BY <1>3, <2>1 DEF vars, TypeInv, TypeOK, Shape
<1> QED
  BY <1>1, <1>2, <1>3 DEF Next

THEOREM TypeIsInvariant == Spec => []TypeInv
BY InitType, NextType, PTL DEF Spec

\* The variables keep their types, and a command that waits for a process, or
\* records it, knows a pid that was given out, whatever else runs or breaks.
THEOREM TypeCorrect == Spec => []TypeOK
<1>1. TypeInv => TypeOK
  BY DEF TypeInv
<1> QED
  BY <1>1, TypeIsInvariant, PTL

(***************************************************************************)
(* One terminal.  Two break what follows: of two starts the one that loses *)
(* the port may save its pid last.  So does a command line that dies       *)
(* between spawning a server and writing its run file.                     *)
(***************************************************************************)
OneTerminal == "crash" \notin Faults /\ \A c, d \in Callers : c = d

\* The running servers of a checkout that were not told to stop.
ServersOf(i) == {p \in DOMAIN procs : procs[p].serves = i /\ procs[p].st \in {"starting", "up"}}

(***************************************************************************)
(* No server is lost.  Every server is named by the run file of its own    *)
(* checkout, or the command that spawned it is about to write that; and a  *)
(* command that removes or overwrites the run file has found out before    *)
(* that the file names no server, or is going to stop the one it names.    *)
(***************************************************************************)
Kept == OneTerminal /\ "fileLost" \notin Faults /\ Rooted = Projects

FiledInv ==
  \A i \in Projects : \A p \in ServersOf(i) :
    \/ file[i] = p
    \/ \E c \in Callers : call[c].pid = p /\ Id(c) = i /\ call[c].pc \in {"wait", "check", "save"}

CommandInv ==
  \A c \in Callers :
    /\ call[c].owner = Id(c)
    /\ call[c].pc \in {"query", "find", "clean", "port", "spawn", "remove"} => ServersOf(Id(c)) = {}
    /\ call[c].pc \in {"alive", "wait", "check", "save", "kill"} => ServersOf(Id(c)) \subseteq {call[c].pid}

KeepInv == FiledInv /\ CommandInv

\* After a step of the only terminal.
LEMMA KeptStep ==
  ASSUME Kept, TypeInv, NEW c \in Callers, NEW d, call' = [call EXCEPT ![c] = d],
         d.id \in Projects, d.owner = d.id,
         \A i \in Projects :
            /\ \A p \in ServersOf(i)' : file'[i] = p \/ (d.pid = p /\ d.id = i /\ d.pc \in {"wait", "check", "save"})
            /\ d.id = i /\ d.pc \in {"query", "find", "clean", "port", "spawn", "remove"} => ServersOf(i)' = {}
            /\ d.id = i /\ d.pc \in {"alive", "wait", "check", "save", "kill"} => ServersOf(i)' \subseteq {d.pid}
  PROVE  KeepInv'
<1>1. call'[c] = d /\ \A x \in Callers : x = c
  BY DEF Kept, OneTerminal, TypeInv, TypeOK
<1>2. FiledInv'
  BY <1>1 DEF FiledInv, Id
<1>3. CommandInv'
  BY <1>1 DEF CommandInv, Id
<1> QED
  BY <1>2, <1>3 DEF KeepInv

LEMMA KeptMoves ==
  ASSUME Kept, TypeInv, NEW c \in Callers, NEW pc, NEW pid, NEW owner, NEW filed,
         Moves(c, pc, pid, owner, filed), owner = Id(c),
         \A i \in Projects :
            /\ \A p \in ServersOf(i)' : file'[i] = p \/ (pid = p /\ Id(c) = i /\ pc \in {"wait", "check", "save"})
            /\ Id(c) = i /\ pc \in {"query", "find", "clean", "port", "spawn", "remove"} => ServersOf(i)' = {}
            /\ Id(c) = i /\ pc \in {"alive", "wait", "check", "save", "kill"} => ServersOf(i)' \subseteq {pid}
  PROVE  KeepInv'
<1>1. PICK d \in Calls : /\ call' = [call EXCEPT ![c] = d]
                         /\ d.id = Id(c) /\ d.pc = pc /\ d.pid = pid /\ d.owner = owner
  BY DEF Moves
<1>2. d.id \in Projects
  BY DEF Calls
<1> QED
  BY <1>1, <1>2, KeptStep

LEMMA KeptEnds ==
  ASSUME Kept, TypeInv, KeepInv, NEW c \in Callers, Ends(c),
         \A i \in Projects : \A p \in ServersOf(i)' : file'[i] = p
  PROVE  KeepInv'
<1>1. AfterEnd(c).id \in Projects /\ AfterEnd(c).pc \in {"idle", "read"} /\ AfterEnd(c).owner = AfterEnd(c).id
  <2>1. CallOK(AfterEnd(c), Len(procs)) /\ AfterEnd(c).pc \in {"idle", "read"}
    BY AfterEndOK
  <2>2. AfterEnd(c).owner = AfterEnd(c).id
    <3>1. Len(procs) \in Nat /\ Idle.owner = Idle.id
      BY IdleOK DEF TypeInv, TypeOK
    <3>2. call[c] \in Calls /\ call[c].owner = call[c].id
      BY DEF KeepInv, CommandInv, Id, TypeInv, TypeOK
    <3> DEFINE d == [call[c] EXCEPT !.run = "start", !.pc = "read", !.next = FALSE]
    <3>3. d.owner = d.id
      BY <3>2 DEF Calls
    <3> QED
      BY <3>1, <3>3 DEF AfterEnd
  <2> QED
    BY <2>1, <2>2 DEF CallOK, Calls
<1>2. call' = [call EXCEPT ![c] = AfterEnd(c)]
  BY Ended
<1> QED
  BY <1>1, <1>2, KeptStep

\* While no command waits for its server, the run files name all of them.
LEMMA AllFiled ==
  ASSUME Kept, TypeInv, KeepInv, NEW c \in Callers, call[c].pc \notin {"wait", "check", "save"}
  PROVE  \A i \in Projects : \A p \in ServersOf(i) : file[i] = p
BY DEF Kept, OneTerminal, KeepInv, FiledInv

\* A checkout finds its own run file.
LEMMA FoundOwn ==
  ASSUME Rooted = Projects, NEW i \in Projects
  PROVE  /\ Found(i) \subseteq {i}
         /\ Found(i) = {} <=> file[i] = NoFile
BY DEF Found

LEMMA Servers ==
  ASSUME TypeInv, NEW i \in Projects
  PROVE  ServersOf(i) \subseteq DOMAIN procs /\ \A p \in ServersOf(i) : p \in Nat /\ p # 0 /\ p # NoFile
BY ConstantsAssumption DEF ServersOf, TypeInv, TypeOK

LEMMA SignalStops ==
  ASSUME TypeInv, NEW p \in DOMAIN procs, Signal(p)
  PROVE  \A i \in Projects : ServersOf(i)' \subseteq ServersOf(i) \ {p}
<1> DEFINE st == CASE procs[p].st = "up" -> "stopping"
                   [] procs[p].st = "starting" -> "exited"
                   [] OTHER -> procs[p].st
<1>1. procs \in Seq(Processes) /\ procs[p] \in Processes
  BY DEF TypeInv, TypeOK
<1>2. st \in {"stopping", "exited"}
  BY <1>1 DEF Processes
<1>3. procs' = [procs EXCEPT ![p].st = st]
  BY DEF Signal
<1> HIDE DEF st
<1> QED
  BY <1>1, <1>2, <1>3, ChangesProcess DEF ServersOf

LEMMA BeginKeeps == ASSUME Kept, TypeInv, KeepInv, NEW c \in Callers, Begin(c) PROVE KeepInv'
<1>1. PICK k \in Commands, id \in Projects :
        call' = [call EXCEPT ![c] =
         [cmd |-> k, id |-> id, pid |-> 0, owner |-> id, filed |-> FALSE, next |-> k = "checkout",
          run |-> IF k = "checkout" THEN "stop" ELSE k,
          pc  |-> IF k \in {"stop", "checkout"} THEN "first" ELSE "read"]]
  BY DEF Begin
<1> DEFINE d == [cmd |-> k, id |-> id, pid |-> 0, owner |-> id, filed |-> FALSE, next |-> k = "checkout",
                 run |-> IF k = "checkout" THEN "stop" ELSE k,
                 pc  |-> IF k \in {"stop", "checkout"} THEN "first" ELSE "read"]
<1>2. call' = [call EXCEPT ![c] = d] /\ d.id = id /\ d.owner = id /\ d.pc \in {"first", "read"}
  BY <1>1
<1> HIDE DEF d
<1>3. \A i \in Projects : \A p \in ServersOf(i) : file[i] = p
  BY AllFiled DEF Begin, At
<1>4. UNCHANGED file /\ \A i \in Projects : ServersOf(i)' = ServersOf(i)
  BY DEF Begin, ServersOf
<1> QED
  BY <1>2, <1>3, <1>4, KeptStep

\* Nothing the machine does adds a server, and it only loses run files.
LEMMA MachineServers ==
  ASSUME TypeInv, Machine
  PROVE  /\ UNCHANGED call
         /\ \A i \in Projects : ServersOf(i)' \subseteq ServersOf(i)
         /\ file' = file \/ ("fileLost" \in Faults /\ \E j \in Projects : file' = [file EXCEPT ![j] = NoFile])
<1>0. procs \in Seq(Processes) /\ Len(procs) \in Nat /\ DOMAIN procs = 1..Len(procs)
  BY DEF TypeInv, TypeOK
<1>1. ASSUME NEW p \in DOMAIN procs, Bind(p)
      PROVE  UNCHANGED <<file, call>> /\ \A i \in Projects : ServersOf(i)' \subseteq ServersOf(i)
  <2> DEFINE st == IF Listening = {} THEN "up" ELSE "exited"
  <2>1. procs' = [procs EXCEPT ![p].st = st] /\ st \in {"up", "exited"}
    BY <1>1 DEF Bind
  <2> HIDE DEF st
  <2> QED
    BY <1>0, <1>1, <2>1, ChangesProcess DEF ServersOf, Bind
<1>2. ASSUME NEW p \in DOMAIN procs, Exit(p)
      PROVE  UNCHANGED <<file, call>> /\ \A i \in Projects : ServersOf(i)' \subseteq ServersOf(i)
  BY <1>0, <1>2, ChangesProcess DEF ServersOf, Exit
<1>3. ASSUME NEW p \in DOMAIN procs, PidReused(p)
      PROVE  UNCHANGED <<file, call>> /\ \A i \in Projects : ServersOf(i)' \subseteq ServersOf(i)
  BY <1>0, <1>3, ConstantsAssumption DEF ServersOf, PidReused
<1>4. CASE ForeignStarts
  <2>1. \A i \in Projects : ServersOf(i)' \subseteq ServersOf(i)
    BY <1>0, <1>4, ConstantsAssumption DEF ServersOf, ForeignStarts
  <2> QED
    BY <1>4, <2>1 DEF ForeignStarts
<1>5. ASSUME NEW j \in Projects, FileLost(j)
      PROVE  /\ UNCHANGED <<procs, call>> /\ "fileLost" \in Faults
             /\ file' = [file EXCEPT ![j] = NoFile]
  BY <1>5 DEF FileLost, Mishap, Fails
<1>6. UNCHANGED procs => \A i \in Projects : ServersOf(i)' \subseteq ServersOf(i)
  BY DEF ServersOf
<1> QED
  BY <1>1, <1>2, <1>3, <1>4, <1>5, <1>6 DEF Machine

LEMMA MachineKeeps == ASSUME Kept, TypeInv, KeepInv, Machine PROVE KeepInv'
<1>1. UNCHANGED <<file, call>> /\ \A i \in Projects : ServersOf(i)' \subseteq ServersOf(i)
  BY MachineServers DEF Kept
<1>2. \A c \in Callers : Id(c) \in Projects
  BY DEF TypeInv, TypeOK, Calls, Id
<1>3. FiledInv'
  BY <1>1 DEF KeepInv, FiledInv, Id
<1>4. CommandInv'
  BY <1>1, <1>2 DEF KeepInv, CommandInv, Id
<1> QED
  BY <1>3, <1>4 DEF KeepInv

LEMMA RunKeeps == ASSUME Kept, TypeInv, KeepInv, NEW c \in Callers, Run(c) PROVE KeepInv'
<1> DEFINE k == call[c]
           S == ServersOf(Id(c))
<1>1. /\ TypeOK /\ k \in Calls /\ k.pid \in Pids /\ k.owner \in Projects /\ k.filed \in BOOLEAN /\ Id(c) \in Projects
      /\ Len(procs) \in Nat /\ procs \in Seq(Processes) /\ DOMAIN procs = 1..Len(procs) /\ 0..Len(procs) \subseteq Pids
      /\ k.pid \in 0..Len(procs) /\ k.owner = Id(c) /\ file \in [Projects -> Pids \cup {NoFile}]
  BY ConstantsAssumption DEF TypeInv, TypeOK, Shape, CallOK, Calls, Pids, Id, KeepInv, CommandInv
<1>0. \A pc \in Steps : Goto(c, pc) => Moves(c, pc, k.pid, k.owner, k.filed)
  BY <1>1, Moving
<1>2. PidByPort \subseteq 0..Len(procs)
  BY <1>1 DEF PidByPort, Listening
<1>3. /\ k.pc \in {"query", "find", "clean", "port", "spawn", "remove"} => S = {}
      /\ k.pc \in {"alive", "wait", "check", "save", "kill"} => S \subseteq {k.pid}
  BY DEF KeepInv, CommandInv
<1>4. k.pc \notin {"wait", "check", "save"} => \A i \in Projects : \A p \in ServersOf(i) : file[i] = p
  BY AllFiled
<1>5. Found(Id(c)) \subseteq {Id(c)} /\ (Found(Id(c)) = {} <=> file[Id(c)] = NoFile)
  BY <1>1, FoundOwn DEF Kept
<1>6. UNCHANGED procs => \A i \in Projects : ServersOf(i)' = ServersOf(i)
  BY DEF ServersOf
<1>7. \A i \in Projects : \A p \in ServersOf(i) : p \in DOMAIN procs /\ p # 0 /\ p # NoFile
  BY Servers
<1> USE DEF At
<1>8. CASE StopReads(c)
  <2>0. UNCHANGED <<procs, file>> /\ \A i \in Projects : \A p \in ServersOf(i) : file[i] = p
    BY <1>4, <1>8 DEF StopReads
  <2>1. CASE Found(Id(c)) = {} /\ Goto(c, "read")
    <3>1. Moves(c, "read", k.pid, k.owner, k.filed)
      BY <1>0, <2>1 DEF Steps
    <3> QED
      BY <1>1, <1>6, <2>0, <3>1, KeptMoves
  <2>2. ASSUME NEW o \in Found(Id(c)), call' = [call EXCEPT ![c].pc = "kill", ![c].owner = o, ![c].pid = file[o]]
        PROVE  KeepInv'
    <3>1. o = Id(c) /\ file[o] \in Pids
      BY <1>1, <1>5
    <3>2. Moves(c, "kill", file[o], o, k.filed)
      BY <1>1, <2>2, <3>1, Moving DEF Steps
    <3>3. S \subseteq {file[o]}
      BY <1>1, <2>0, <3>1
    <3> QED
      BY <1>1, <1>6, <2>0, <3>1, <3>2, <3>3, KeptMoves
  <2> QED
    BY <1>8, <2>1, <2>2 DEF StopReads
<1>9. CASE ReadRunFile(c)
  <2>1. /\ file' = file /\ \A i \in Projects : ServersOf(i)' = ServersOf(i)
        /\ \A i \in Projects : \A p \in ServersOf(i) : file[i] = p
    BY <1>4, <1>6, <1>9 DEF ReadRunFile
  <2>2. CASE Found(Id(c)) = {} /\ call' = [call EXCEPT ![c].pc = "query", ![c].pid = 0, ![c].filed = FALSE]
    <3>1. 0 \in Pids /\ FALSE \in BOOLEAN /\ "query" \in Steps
      BY <1>1 DEF Steps
    <3>2. PICK filed \in BOOLEAN : Moves(c, "query", 0, k.owner, filed)
      <4>1. Moves(c, "query", 0, k.owner, FALSE)
        BY <1>1, <2>2, <3>1, Moving
      <4> QED
        BY <4>1
    <3>3. S = {}
      BY <1>1, <1>5, <1>7, <2>1, <2>2
    <3> QED
      BY <1>1, <2>1, <3>2, <3>3, KeptMoves
  <2>3. ASSUME NEW o \in Found(Id(c)),
               call' = [call EXCEPT ![c].pc = IF file[o] = 0 THEN "query" ELSE "alive",
                                    ![c].owner = o, ![c].pid = file[o], ![c].filed = TRUE]
        PROVE  KeepInv'
    <3> DEFINE pc == IF file[o] = 0 THEN "query" ELSE "alive"
    <3>1. o = Id(c) /\ file[o] \in Pids
      BY <1>1, <1>5
    <3>2. pc \in Steps /\ pc \in {"query", "alive"} /\ (pc = "query" => file[o] = 0)
      BY DEF Steps
    <3>3. call' = [call EXCEPT ![c].pc = pc, ![c].owner = o, ![c].pid = file[o], ![c].filed = TRUE]
      BY <2>3
    <3> HIDE DEF pc
    <3>4. PICK filed \in BOOLEAN : Moves(c, pc, file[o], o, filed)
      <4>1. Moves(c, pc, file[o], o, TRUE)
        BY <1>1, <3>1, <3>2, <3>3, Moving
      <4> QED
        BY <4>1
    <3>5. S \subseteq {file[o]} /\ (pc = "query" => S = {})
      BY <1>1, <1>7, <2>1, <3>1, <3>2
    <3> QED
      BY <1>1, <2>1, <3>1, <3>2, <3>4, <3>5, KeptMoves
  <2> QED
    BY <1>9, <2>2, <2>3 DEF ReadRunFile
<1>10. CASE QueryPort(c)
  <2>1. S = {} /\ UNCHANGED file /\ \A i \in Projects : ServersOf(i)' = ServersOf(i)
    BY <1>3, <1>6, <1>10 DEF QueryPort
  <2>2. \A i \in Projects : \A p \in ServersOf(i)' : file'[i] = p
    BY <1>4, <1>10, <2>1 DEF QueryPort
  <2>3. \/ \E pc \in {"find", "clean", "port"} : Moves(c, pc, k.pid, k.owner, k.filed)
        \/ Ends(c)
    <3>1. CASE Goto(c, "find")
      BY <1>0, <3>1 DEF Steps
    <3>2. CASE Goto(c, "clean")
      BY <1>0, <3>2 DEF Steps
    <3>3. CASE NotRunning(c)
      BY <1>1, <3>3, AfterStatus
    <3> QED
      BY <1>10, <3>1, <3>2, <3>3 DEF QueryPort
  <2>4. CASE Ends(c)
    BY <2>2, <2>4, KeptEnds
  <2>5. ASSUME NEW pc \in {"find", "clean", "port"}, Moves(c, pc, k.pid, k.owner, k.filed) PROVE KeepInv'
    BY <1>1, <2>1, <2>2, <2>5, KeptMoves
  <2> QED
    BY <2>3, <2>4, <2>5
<1>11. CASE FindPid(c)
  <2>1. PICK p \in PidByPort : Running(c, p)
                               /\ file' = IF k.filed /\ p > 0 THEN [file EXCEPT ![k.owner] = p] ELSE file
    BY <1>11 DEF FindPid
  <2>2. S = {} /\ \A i \in Projects : ServersOf(i)' = ServersOf(i)
    BY <1>3, <1>6, <1>11 DEF FindPid
  <2>3. \A i \in Projects : \A x \in ServersOf(i)' : file'[i] = x
    BY <1>1, <1>4, <1>11, <2>1, <2>2 DEF FindPid
  <2>4. \/ Moves(c, "adopt", p, k.owner, k.filed)
        \/ Moves(c, "kill", p, Id(c), k.filed)
        \/ Ends(c)
    BY <1>1, <1>2, <2>1, AfterStatus
  <2>5. CASE Ends(c)
    BY <2>3, <2>5, KeptEnds
  <2>6. CASE Moves(c, "adopt", p, k.owner, k.filed)
    BY <1>1, <2>3, <2>6, KeptMoves
  <2>7. CASE Moves(c, "kill", p, Id(c), k.filed)
    BY <1>1, <2>2, <2>3, <2>7, KeptMoves
  <2> QED
    BY <2>4, <2>5, <2>6, <2>7
<1>12. CASE CheckAlive(c)
  <2>1. S \subseteq {k.pid} /\ UNCHANGED file /\ \A i \in Projects : ServersOf(i)' = ServersOf(i)
    BY <1>3, <1>6, <1>12 DEF CheckAlive
  <2>2. \A i \in Projects : \A p \in ServersOf(i)' : file'[i] = p
    BY <1>4, <1>12, <2>1 DEF CheckAlive
  <2>3. CASE ~Alive(k.pid) /\ Goto(c, "clean")
    <3>1. Moves(c, "clean", k.pid, k.owner, k.filed)
      BY <1>0, <2>3 DEF Steps
    <3>2. S = {}
      BY <2>1, <2>3 DEF ServersOf, Alive
    <3> QED
      BY <1>1, <2>1, <2>2, <3>1, <3>2, KeptMoves
  <2>4. CASE Running(c, k.pid)
    <3>1. \/ Moves(c, "adopt", k.pid, k.owner, k.filed)
          \/ Moves(c, "kill", k.pid, Id(c), k.filed)
          \/ Ends(c)
      BY <1>1, <2>4, AfterStatus
    <3>2. CASE Ends(c)
      BY <2>2, <3>2, KeptEnds
    <3>3. CASE Moves(c, "adopt", k.pid, k.owner, k.filed)
      BY <1>1, <2>2, <3>3, KeptMoves
    <3>4. CASE Moves(c, "kill", k.pid, Id(c), k.filed)
      BY <1>1, <2>1, <2>2, <3>4, KeptMoves
    <3> QED
      BY <3>1, <3>2, <3>3, <3>4
  <2> QED
    BY <1>12, <2>3, <2>4 DEF CheckAlive
<1>13. CASE CleanUp(c)
  <2>1. S = {} /\ \A i \in Projects : ServersOf(i)' = ServersOf(i)
    BY <1>3, <1>6, <1>13 DEF CleanUp
  <2>2. file' = [i \in Projects |-> IF i = Id(c) THEN NoFile ELSE file[i]]
    BY <1>1, <1>13 DEF CleanUp, Kept
  <2>3. \A i \in Projects : \A p \in ServersOf(i)' : file'[i] = p
    BY <1>4, <1>13, <2>1, <2>2 DEF CleanUp
  <2>4. Moves(c, "port", k.pid, k.owner, k.filed) \/ Ends(c)
    BY <1>1, <1>13, AfterStatus DEF CleanUp
  <2>5. CASE Ends(c)
    BY <2>3, <2>5, KeptEnds
  <2>6. CASE Moves(c, "port", k.pid, k.owner, k.filed)
    BY <1>1, <2>1, <2>3, <2>6, KeptMoves
  <2> QED
    BY <2>4, <2>5, <2>6
<1>14. CASE Adopt(c)
  <2>1. \A i \in Projects : ServersOf(i)' = ServersOf(i)
    BY <1>6, <1>14 DEF Adopt
  <2>2. \A i \in Projects : \A p \in ServersOf(i)' : file'[i] = p
    <3>1. CASE UNCHANGED file
      BY <1>4, <1>14, <2>1, <3>1 DEF Adopt
    <3>2. ASSUME Found(Id(c)) = {}, NEW x, file' = [file EXCEPT ![Id(c)] = x]
          PROVE  \A i \in Projects : \A p \in ServersOf(i)' : file'[i] = p
      <4>1. \A i \in Projects : \A p \in ServersOf(i) : file[i] = p
        BY <1>4, <1>14 DEF Adopt
      <4>2. S = {}
        BY <1>1, <1>5, <1>7, <3>2, <4>1
      <4> QED
        BY <1>1, <2>1, <3>2, <4>1, <4>2
    <3> QED
      BY <1>14, <3>1, <3>2 DEF Adopt
  <2> QED
    BY <1>14, <2>2, KeptEnds DEF Adopt
<1>15. CASE ProbePort(c)
  <2>1. S = {} /\ UNCHANGED file /\ \A i \in Projects : ServersOf(i)' = ServersOf(i)
    BY <1>3, <1>6, <1>15 DEF ProbePort
  <2>2. \A i \in Projects : \A p \in ServersOf(i)' : file'[i] = p
    BY <1>4, <1>15, <2>1 DEF ProbePort
  <2>3. CASE Ends(c)
    BY <2>2, <2>3, KeptEnds
  <2>4. CASE Goto(c, "spawn")
    <3>1. Moves(c, "spawn", k.pid, k.owner, k.filed)
      BY <1>0, <2>4 DEF Steps
    <3> QED
      BY <1>1, <2>1, <2>2, <3>1, KeptMoves
  <2> QED
    BY <1>15, <2>3, <2>4 DEF ProbePort
<1>16. CASE Spawn(c)
  <2> DEFINE q == [serves |-> Id(c), st |-> "starting"]
             n == Len(procs) + 1
  <2>1. procs' = Append(procs, q) /\ q.serves = Id(c) /\ TypeInv'
    BY <1>16, RunType DEF Spawn, Run, Start
  <2> HIDE DEF q
  <2>2. /\ DOMAIN procs' = 1..n /\ procs'[n] = q /\ \A p \in DOMAIN procs : procs'[p] = procs[p]
    BY <1>1, <2>1
  <2>3. \A i \in Projects : i # Id(c) => ServersOf(i)' \subseteq ServersOf(i)
    BY <1>1, <2>1, <2>2 DEF ServersOf
  <2>4. S = {}
    BY <1>3, <1>16 DEF Spawn
  <2>5. \A i \in Projects : i = Id(c) => ServersOf(i)' \subseteq {n}
    BY <1>1, <2>1, <2>2, <2>4 DEF ServersOf
  <2>6. Moves(c, "wait", n, k.owner, k.filed)
    <3>1. call'[c] \in Calls
      BY <2>1 DEF TypeInv, TypeOK
    <3>2. n \in Pids
      BY <1>1, <2>1, <2>2, ConstantsAssumption DEF TypeInv, TypeOK, Pids
    <3> QED
      BY <1>1, <1>16, <3>2, Moving DEF Spawn, Steps
  <2>7. \A i \in Projects : i # Id(c) => file'[i] = file[i]
    BY <1>1, <1>16 DEF Spawn
  <2>8. \A i \in Projects : \A p \in ServersOf(i)' : file'[i] = p \/ (n = p /\ Id(c) = i)
    BY <1>4, <1>16, <2>3, <2>5, <2>7 DEF Spawn
  <2> HIDE DEF n
  <2> QED
    BY <1>1, <2>5, <2>6, <2>8, KeptMoves
<1>17. CASE WaitReady(c)
  <2>1. Moves(c, "check", k.pid, k.owner, k.filed)
    BY <1>0, <1>17 DEF WaitReady, Steps
  <2>2. \A i \in Projects : \A p \in ServersOf(i) : file[i] = p \/ (k.pid = p /\ Id(c) = i)
    BY DEF KeepInv, FiledInv, Kept, OneTerminal
  <2> QED
    BY <1>1, <1>3, <1>6, <1>17, <2>1, <2>2, KeptMoves DEF WaitReady
<1>18. CASE WaitTimesOut(c)
  <2>1. \A i \in Projects : \A p \in ServersOf(i) : file[i] = p \/ k.pid = p
    BY DEF KeepInv, FiledInv, Kept, OneTerminal
  <2>2. \A i \in Projects : ServersOf(i)' \subseteq ServersOf(i) \ {k.pid}
    <3>1. CASE Alive(k.pid) /\ Signal(k.pid)
      BY <3>1, SignalStops DEF Alive
    <3>2. CASE ~Alive(k.pid) /\ UNCHANGED procs
      BY <1>6, <3>2 DEF Alive, ServersOf
    <3> QED
      BY <1>18, <3>1, <3>2 DEF WaitTimesOut
  <2>3. \A i \in Projects : \A p \in ServersOf(i)' : file'[i] = p
    BY <1>18, <2>1, <2>2 DEF WaitTimesOut
  <2> QED
    BY <1>18, <2>3, KeptEnds DEF WaitTimesOut
<1>19. CASE CheckExited(c)
  <2>1. \A i \in Projects : \A p \in ServersOf(i) : file[i] = p \/ (k.pid = p /\ Id(c) = i)
    BY DEF KeepInv, FiledInv, Kept, OneTerminal
  <2>2. CASE Goto(c, "save")
    <3>1. Moves(c, "save", k.pid, k.owner, k.filed)
      BY <1>0, <2>2 DEF Steps
    <3> QED
      BY <1>1, <1>3, <1>6, <1>19, <2>1, <3>1, KeptMoves DEF CheckExited
  <2>3. CASE ~Alive(k.pid) /\ Ends(c)
    <3>1. \A i \in Projects : \A p \in ServersOf(i) : p # k.pid
      BY <2>3 DEF ServersOf, Alive
    <3>2. \A i \in Projects : \A p \in ServersOf(i)' : file'[i] = p
      BY <1>6, <1>19, <2>1, <3>1 DEF CheckExited
    <3> QED
      BY <2>3, <3>2, KeptEnds
  <2> QED
    BY <1>19, <2>2, <2>3 DEF CheckExited
<1>20. CASE SaveState(c)
  <2>1. \A i \in Projects : \A p \in ServersOf(i) : file[i] = p \/ (k.pid = p /\ Id(c) = i)
    BY DEF KeepInv, FiledInv, Kept, OneTerminal
  <2>2. file' = [file EXCEPT ![Id(c)] = k.pid] /\ S \subseteq {k.pid} /\ Ends(c) /\ UNCHANGED procs
    BY <1>3, <1>20 DEF SaveState
  <2>3. \A i \in Projects : \A p \in ServersOf(i)' : file'[i] = p
    BY <1>1, <1>6, <2>1, <2>2
  <2> QED
    BY <2>2, <2>3, KeptEnds
<1>21. CASE Kill(c)
  <2>1. PICK p \in IF k.pid = 0 THEN PidByPort ELSE {k.pid} : IF p > 0 THEN Signal(p) ELSE UNCHANGED procs
    BY <1>21 DEF Kill
  <2>2. S \subseteq {k.pid} /\ UNCHANGED file
    BY <1>3, <1>21 DEF Kill
  <2>3. p \in 0..Len(procs) /\ (k.pid # 0 => p = k.pid)
    BY <1>1, <1>2, <2>1
  <2>4. \A i \in Projects : ServersOf(i)' \subseteq ServersOf(i) /\ (p > 0 => ServersOf(i)' \subseteq ServersOf(i) \ {p})
    <3>1. CASE p > 0
      BY <1>1, <2>1, <2>3, <3>1, SignalStops
    <3>2. CASE ~(p > 0)
      BY <1>6, <2>1, <3>2
    <3> QED
      BY <3>1, <3>2
  <2>5. \A i \in Projects : i = Id(c) => ServersOf(i)' = {}
    <3>1. CASE k.pid = 0
      <4>1. S = {}
        BY <1>1, <1>7, <2>2, <3>1
      <4> QED
        BY <2>4, <4>1
    <3>2. CASE k.pid # 0
      <4>1. p > 0
        BY <1>1, <2>3, <3>2
      <4> QED
        BY <2>2, <2>3, <2>4, <3>2, <4>1
    <3> QED
      BY <3>1, <3>2
  <2>6. Moves(c, "remove", k.pid, k.owner, k.filed)
    BY <1>0, <1>21 DEF Kill, Steps
  <2>7. \A i \in Projects : \A x \in ServersOf(i)' : file'[i] = x
    BY <1>4, <1>21, <2>2, <2>4 DEF Kill
  <2> QED
    BY <1>1, <2>5, <2>6, <2>7, KeptMoves
<1>22. CASE RemoveState(c)
  <2>1. S = {} /\ \A i \in Projects : ServersOf(i)' = ServersOf(i)
    BY <1>3, <1>6, <1>22 DEF RemoveState
  <2>2. \A i \in Projects : i # Id(c) => file'[i] = file[i]
    BY <1>1, <1>22 DEF RemoveState
  <2>3. \A i \in Projects : \A p \in ServersOf(i)' : file'[i] = p
    BY <1>4, <1>22, <2>1, <2>2 DEF RemoveState
  <2> QED
    BY <1>22, <2>3, KeptEnds DEF RemoveState
<1> QED
  BY <1>8, <1>9, <1>10, <1>11, <1>12, <1>13, <1>14, <1>15, <1>16, <1>17, <1>18, <1>19, <1>20, <1>21, <1>22
     DEF Run, Status, Start, Stop

LEMMA KeepIsInvariant == ASSUME Kept PROVE Spec => [](TypeInv /\ KeepInv)
<1>1. Init => TypeInv /\ KeepInv
  <2> SUFFICES ASSUME Init PROVE KeepInv
    BY InitType
  <2>1. \A i \in Projects : ServersOf(i) = {}
    BY DEF Init, ServersOf
  <2>2. Idle.pc = "idle" /\ Idle.owner = Idle.id
    BY DEF Idle
  <2>3. \A c \in Callers : call[c] = Idle
    BY DEF Init
  <2> QED
    BY <2>1, <2>2, <2>3 DEF KeepInv, FiledInv, CommandInv, Id
<1>2. TypeInv /\ KeepInv /\ [Next]_vars => (TypeInv /\ KeepInv)'
  <2> SUFFICES ASSUME TypeInv, KeepInv, [Next]_vars PROVE KeepInv'
    BY NextType
  <2>1. CASE Machine
    BY <2>1, MachineKeeps
  <2>2. ASSUME NEW c \in Callers, Begin(c) \/ Run(c) \/ Crash(c) PROVE KeepInv'
    <3>1. ~Crash(c)
      BY DEF Crash, Mishap, Fails, Kept, OneTerminal
    <3> QED
      BY <2>2, <3>1, BeginKeeps, RunKeeps
  <2>3. CASE UNCHANGED vars
    <3>1. \A i \in Projects : ServersOf(i)' = ServersOf(i)
      BY <2>3 DEF vars, ServersOf
    <3>2. \A c \in Callers : Id(c) \in Projects
      BY DEF TypeInv, TypeOK, Calls, Id
    <3>3. FiledInv'
      BY <2>3, <3>1 DEF vars, KeepInv, FiledInv, Id
    <3>4. CommandInv'
      BY <2>3, <3>1, <3>2 DEF vars, KeepInv, CommandInv, Id
    <3> QED
      BY <3>3, <3>4 DEF KeepInv
  <2> QED
    BY <2>1, <2>2, <2>3 DEF Next
<1> QED
  BY <1>1, <1>2, PTL DEF Spec

\* With one terminal no server is lost, whatever dies, whoever takes the port
\* and whichever pids are reused: the run file of its own checkout names each
\* server that runs, or the command that spawned it has yet to write that.
THEOREM NothingLost == ASSUME Kept PROVE Spec => []NoLostServer
<1>1. TypeInv /\ KeepInv => NoLostServer
  <2> SUFFICES ASSUME TypeInv, KeepInv,
                      NEW p \in DOMAIN procs, procs[p].serves # Other, procs[p].st \in {"starting", "up"}
               PROVE  \/ \E i \in Projects : Answers(p, i) /\ file[i] \in {p, 0}
                      \/ \E c \in Callers : call[c].pid = p /\ ~At(c, "idle")
    BY DEF NoLostServer
  <2>1. procs[p] \in Processes
    BY DEF TypeInv, TypeOK
  <2>2. PICK i \in Projects : procs[p].serves = i /\ p \in ServersOf(i)
    BY <2>1 DEF Processes, ServersOf
  <2> QED
    BY <2>2 DEF KeepInv, FiledInv, Answers, SameRepo, At
<1> QED
  BY <1>1, KeepIsInvariant, PTL

(***************************************************************************)
(* The run files.  Only the command that waits for it has a server that    *)
(* does not hold the port yet, so that the port does not change hands      *)
(* between the probe of the database and the search for the pid.           *)
(***************************************************************************)
Named == OneTerminal /\ "foreign" \notin Faults

\* Whoever has pid p is a server of the repository of i, or none.
Belongs(p, i) == Alive(p) /\ procs[p].serves # Other => Answers(p, i)

PortInv ==
  /\ \A p, q \in Listening : p = q
  /\ \A p \in DOMAIN procs :
       /\ procs[p].serves = Other => p \notin Listening
       /\ procs[p].serves # Other /\ procs[p].st = "starting" =>
            \E c \in Callers : At(c, "wait") /\ call[c].pid = p

NamesInv ==
  \A c \in Callers :
    /\ SameRepo(call[c].owner, Id(c))
    /\ call[c].pc = "spawn" => Listening = {}
    /\ call[c].pc = "wait" => Listening \subseteq {call[c].pid}
    /\ call[c].pc = "find" => \A p \in Listening : Answers(p, Id(c))
    /\ call[c].pc = "adopt" /\ call[c].pid = 0 => \A p \in Listening : Answers(p, Id(c))
    /\ call[c].pc \in {"alive", "adopt", "wait", "check", "save"} => Belongs(call[c].pid, Id(c))

RunFileInv == PortInv /\ RunFilesNameOwnServers /\ NamesInv

\* What stops, exits or loses its pid.
Fewer ==
  /\ DOMAIN procs' = DOMAIN procs
  /\ \A p \in DOMAIN procs :
       \/ procs'[p] = procs[p]
       \/ procs'[p].serves = procs[p].serves /\ procs'[p].st = "exited"
       \/ procs'[p].serves = procs[p].serves /\ procs'[p].st = "stopping" /\ procs[p].st = "up"
       \/ procs'[p].serves = Other /\ procs'[p].st = "starting"

LEMMA FewerServers ==
  ASSUME Fewer
  PROVE  /\ Listening' \subseteq Listening
         /\ \A i \in Projects : \A p \in Listening' : Answers(p, i) => Answers(p, i)'
         /\ \A i \in Projects : \A p \in Nat : Belongs(p, i) => Belongs(p, i)'
         /\ \A p \in DOMAIN procs' :
              /\ procs[p].serves = Other => procs'[p].serves = Other \/ p \notin Listening'
              /\ procs'[p].serves = Other => procs[p].serves = Other \/ p \notin Listening'
              /\ procs'[p].serves # Other /\ procs'[p].st = "starting" => procs'[p] = procs[p]
BY DEF Fewer, Listening, Answers, Belongs, Alive

\* After a step of the only terminal that starts no process.
LEMMA NamedStep ==
  ASSUME Named, TypeInv, RunFileInv, Fewer, NEW c \in Callers, NEW d, call' = [call EXCEPT ![c] = d],
         d.id \in Projects, d.pid \in Nat, SameRepo(d.owner, d.id),
         \A p \in DOMAIN procs : procs'[p].serves # Other /\ procs'[p].st = "starting" => d.pc = "wait" /\ d.pid = p,
         d.pc = "spawn" => Listening = {},
         d.pc = "wait" => Listening \subseteq {d.pid},
         d.pc = "find" \/ (d.pc = "adopt" /\ d.pid = 0) => \A p \in Listening : Answers(p, d.id),
         d.pc \in {"alive", "adopt", "wait", "check", "save"} => Belongs(d.pid, d.id),
         \A i \in Projects : \A p \in DOMAIN procs : file'[i] = p => Belongs(p, i)
  PROVE  RunFileInv'
<1>1. call'[c] = d /\ \A x \in Callers : x = c
  BY DEF Named, OneTerminal, TypeInv, TypeOK
<1>2. DOMAIN procs' = DOMAIN procs /\ \A p \in DOMAIN procs : p \in Nat
  BY DEF Fewer, TypeInv, TypeOK
<1>3. PortInv'
  <2>1. \A p, q \in Listening' : p = q
    BY FewerServers DEF RunFileInv, PortInv
  <2>2. \A p \in DOMAIN procs' : procs'[p].serves = Other => p \notin Listening'
    BY <1>2, FewerServers DEF RunFileInv, PortInv
  <2>3. \A p \in DOMAIN procs' : procs'[p].serves # Other /\ procs'[p].st = "starting" =>
           call'[c].pc = "wait" /\ call'[c].pid = p
    BY <1>1, <1>2
  <2> QED
    BY <2>1, <2>2, <2>3 DEF PortInv, At
<1>4. RunFilesNameOwnServers'
  <2>1. \A i \in Projects : \A p \in DOMAIN procs' : file'[i] = p => Belongs(p, i)'
    BY <1>2, FewerServers
  <2> QED
    BY <2>1 DEF RunFilesNameOwnServers, Belongs
<1>5. NamesInv'
  <2>1. SameRepo(d.owner, d.id)'
    BY DEF SameRepo
  <2>2. d.pc = "find" \/ (d.pc = "adopt" /\ d.pid = 0) => \A p \in Listening' : Answers(p, d.id)'
    BY FewerServers
  <2>3. d.pc \in {"alive", "adopt", "wait", "check", "save"} => Belongs(d.pid, d.id)'
    BY FewerServers
  <2>4. d.pc = "spawn" => Listening' = {}
    BY FewerServers
  <2>5. d.pc = "wait" => Listening' \subseteq {d.pid}
    BY FewerServers
  <2> QED
    BY <1>1, <2>1, <2>2, <2>3, <2>4, <2>5 DEF NamesInv, Id, At
<1> QED
  BY <1>3, <1>4, <1>5 DEF RunFileInv

LEMMA NamedMoves ==
  ASSUME Named, TypeInv, RunFileInv, Fewer, NEW c \in Callers, NEW pc, NEW pid, NEW owner, NEW filed,
         Moves(c, pc, pid, owner, filed), SameRepo(owner, Id(c)),
         \A p \in DOMAIN procs : procs'[p].serves # Other /\ procs'[p].st = "starting" => pc = "wait" /\ pid = p,
         pc = "spawn" => Listening = {},
         pc = "wait" => Listening \subseteq {pid},
         pc = "find" \/ (pc = "adopt" /\ pid = 0) => \A p \in Listening : Answers(p, Id(c)),
         pc \in {"alive", "adopt", "wait", "check", "save"} => Belongs(pid, Id(c)),
         \A i \in Projects : \A p \in DOMAIN procs : file'[i] = p => Belongs(p, i)
  PROVE  RunFileInv'
<1>1. PICK d \in Calls : /\ call' = [call EXCEPT ![c] = d]
                         /\ d.id = Id(c) /\ d.pc = pc /\ d.pid = pid /\ d.owner = owner
  BY DEF Moves
<1>2. d.id \in Projects /\ d.pid \in Nat
  BY DEF Calls, Pids
<1> QED
  BY <1>1, <1>2, NamedStep

LEMMA NamedEnds ==
  ASSUME Named, TypeInv, RunFileInv, Fewer, NEW c \in Callers, Ends(c),
         \A p \in DOMAIN procs : ~(procs'[p].serves # Other /\ procs'[p].st = "starting"),
         \A i \in Projects : \A p \in DOMAIN procs : file'[i] = p => Belongs(p, i)
  PROVE  RunFileInv'
<1> DEFINE e == AfterEnd(c)
           d == [call[c] EXCEPT !.run = "start", !.pc = "read", !.next = FALSE]
<1>1. CallOK(e, Len(procs)) /\ e.pc \in {"idle", "read"}
  BY AfterEndOK
<1>2. SameRepo(e.owner, e.id)
  <2>1. Len(procs) \in Nat /\ Idle.owner = Idle.id
    BY IdleOK DEF TypeInv, TypeOK
  <2>2. call[c] \in Calls /\ SameRepo(call[c].owner, call[c].id)
    BY DEF RunFileInv, NamesInv, Id, TypeInv, TypeOK
  <2>3. d.owner = call[c].owner /\ d.id = call[c].id
    BY <2>2 DEF Calls
  <2>4. SameRepo(Idle.owner, Idle.id)
    BY <2>1 DEF SameRepo
  <2> HIDE DEF d
  <2> QED
    BY <2>2, <2>3, <2>4 DEF AfterEnd, d
<1>3. e.id \in Projects /\ e.pid \in Nat
  BY <1>1 DEF CallOK, Calls, Pids
<1>4. call' = [call EXCEPT ![c] = e]
  BY Ended
<1> QED
  BY <1>1, <1>2, <1>3, <1>4, NamedStep

LEMMA SignalFewer ==
  ASSUME TypeInv, NEW p \in DOMAIN procs, Signal(p)
  PROVE  Fewer /\ procs'[p].st # "starting"
<1> DEFINE st == CASE procs[p].st = "up" -> "stopping"
                   [] procs[p].st = "starting" -> "exited"
                   [] OTHER -> procs[p].st
<1>1. procs \in Seq(Processes) /\ procs[p] \in Processes
  BY DEF TypeInv, TypeOK
<1>2. /\ st \in {"stopping", "exited"}
      /\ st = procs[p].st \/ st = "exited" \/ (st = "stopping" /\ procs[p].st = "up")
  BY <1>1 DEF Processes
<1>3. procs' = [procs EXCEPT ![p].st = st]
  BY DEF Signal
<1> HIDE DEF st
<1>4. /\ DOMAIN procs' = DOMAIN procs /\ procs'[p].serves = procs[p].serves /\ procs'[p].st = st
      /\ \A x \in DOMAIN procs : x # p => procs'[x] = procs[x]
  BY <1>1, <1>2, <1>3, ChangesProcess
<1>5. st = procs[p].st => procs'[p] = procs[p]
  BY <1>1, <1>3 DEF Processes
<1> QED
  BY <1>2, <1>4, <1>5 DEF Fewer

LEMMA BeginNames == ASSUME Named, TypeInv, RunFileInv, NEW c \in Callers, Begin(c) PROVE RunFileInv'
<1>1. PICK k \in Commands, id \in Projects :
        call' = [call EXCEPT ![c] =
         [cmd |-> k, id |-> id, pid |-> 0, owner |-> id, filed |-> FALSE, next |-> k = "checkout",
          run |-> IF k = "checkout" THEN "stop" ELSE k,
          pc  |-> IF k \in {"stop", "checkout"} THEN "first" ELSE "read"]]
  BY DEF Begin
<1> DEFINE d == [cmd |-> k, id |-> id, pid |-> 0, owner |-> id, filed |-> FALSE, next |-> k = "checkout",
                 run |-> IF k = "checkout" THEN "stop" ELSE k,
                 pc  |-> IF k \in {"stop", "checkout"} THEN "first" ELSE "read"]
<1>2. call' = [call EXCEPT ![c] = d] /\ d.id = id /\ d.owner = id /\ d.pid = 0 /\ d.pc \in {"first", "read"}
  BY <1>1
<1> HIDE DEF d
<1>3. UNCHANGED <<procs, file>> /\ At(c, "idle")
  BY DEF Begin
<1>4. Fewer /\ SameRepo(d.owner, d.id)
  BY <1>2, <1>3 DEF Fewer, SameRepo
<1>5. \A p \in DOMAIN procs : ~(procs'[p].serves # Other /\ procs'[p].st = "starting")
  BY <1>3 DEF RunFileInv, PortInv, At, Named, OneTerminal
<1>6. \A i \in Projects : \A p \in DOMAIN procs : file'[i] = p => Belongs(p, i)
  BY <1>3 DEF RunFileInv, RunFilesNameOwnServers, Belongs
<1>7. d.id \in Projects /\ d.pid \in Nat /\ d.pc \notin {"find", "alive", "adopt", "spawn", "wait", "check", "save"}
  BY <1>2
<1> QED
  BY <1>2, <1>4, <1>5, <1>6, <1>7, NamedStep

LEMMA MachineNames == ASSUME Named, TypeInv, RunFileInv, Machine PROVE RunFileInv'
<1>0. /\ procs \in Seq(Processes) /\ Len(procs) \in Nat /\ DOMAIN procs = 1..Len(procs)
      /\ \A c \in Callers : call[c].pid \in Nat /\ Id(c) \in Projects
  BY DEF TypeInv, TypeOK, Calls, Pids, Id
<1>1. ASSUME Fewer, UNCHANGED call,
             \A p \in DOMAIN procs : procs'[p].serves # Other /\ procs'[p].st = "starting" =>
                procs[p].serves # Other /\ procs[p].st = "starting",
             \A i \in Projects : \A p \in DOMAIN procs : file'[i] = p => file[i] = p
      PROVE  RunFileInv'
  <2>1. PortInv'
    <3>1. \A p, q \in Listening' : p = q
      BY <1>1, FewerServers DEF RunFileInv, PortInv
    <3>2. \A p \in DOMAIN procs' : procs'[p].serves = Other => p \notin Listening'
      BY <1>1, FewerServers DEF RunFileInv, PortInv, Fewer
    <3>3. \A p \in DOMAIN procs' : procs'[p].serves # Other /\ procs'[p].st = "starting" =>
             \E c \in Callers : call'[c].pc = "wait" /\ call'[c].pid = p
      BY <1>1 DEF RunFileInv, PortInv, Fewer, At
    <3> QED
      BY <3>1, <3>2, <3>3 DEF PortInv, At
  <2>2. \A i \in Projects : \A p \in DOMAIN procs' : file'[i] = p => Belongs(p, i)'
    <3>1. \A i \in Projects : \A p \in DOMAIN procs : file[i] = p => Belongs(p, i)
      BY DEF RunFileInv, RunFilesNameOwnServers, Belongs
    <3> QED
      BY <1>0, <1>1, <3>1, FewerServers DEF Fewer
  <2>3. RunFilesNameOwnServers'
    BY <2>2 DEF RunFilesNameOwnServers, Belongs
  <2>4. NamesInv'
    <3> SUFFICES ASSUME NEW c \in Callers
                 PROVE  /\ SameRepo(call[c].owner, Id(c))
                        /\ call[c].pc = "spawn" => Listening' = {}
                        /\ call[c].pc = "wait" => Listening' \subseteq {call[c].pid}
                        /\ call[c].pc = "find" => \A p \in Listening' : Answers(p, Id(c))'
                        /\ call[c].pc = "adopt" /\ call[c].pid = 0 => \A p \in Listening' : Answers(p, Id(c))'
                        /\ call[c].pc \in {"alive", "adopt", "wait", "check", "save"} => Belongs(call[c].pid, Id(c))'
      BY <1>1 DEF NamesInv, At, Id, SameRepo
    <3> DEFINE i == Id(c)
               n == call[c].pid
    <3>1. i \in Projects /\ n \in Nat /\ i' = i /\ n' = n
      BY <1>0, <1>1 DEF Id
    <3>2. (\A p \in Listening : Answers(p, i)) => \A p \in Listening' : Answers(p, i)'
      BY <1>1, <3>1, FewerServers DEF Answers, SameRepo
    <3>3. Belongs(n, i) => Belongs(n, i)'
      BY <1>1, <3>1, FewerServers DEF Belongs, Answers, SameRepo, Alive
    <3>4. Listening' \subseteq Listening
      BY <1>1, FewerServers
    <3> QED
      BY <3>2, <3>3, <3>4 DEF RunFileInv, NamesInv
  <2> QED
    BY <2>1, <2>3, <2>4 DEF RunFileInv
<1>2. ASSUME NEW p \in DOMAIN procs, Bind(p) PROVE RunFileInv'
  <2>1. PICK c \in Callers : call[c].pc = "wait" /\ call[c].pid = p
    BY <1>2 DEF Bind, RunFileInv, PortInv, At
  <2>2. \A x \in Callers : x = c
    BY DEF Named, OneTerminal
  <2>3. CASE Listening = {}
    <3>1. procs' = [procs EXCEPT ![p].st = "up"] /\ UNCHANGED <<file, call>>
      BY <1>2, <2>3 DEF Bind
    <3>2. /\ DOMAIN procs' = DOMAIN procs /\ procs'[p].st = "up"
          /\ \A x \in DOMAIN procs : procs'[x].serves = procs[x].serves
          /\ \A x \in DOMAIN procs : x # p => procs'[x] = procs[x]
      BY <1>0, <3>1, ChangesProcess
    <3>3. Listening' = {p}
      BY <2>3, <3>2 DEF Listening
    <3>4. PortInv'
      <4>1. procs'[p].serves # Other
        BY <1>2, <3>2 DEF Bind
      <4>2. \A x \in DOMAIN procs' : ~(procs'[x].serves # Other /\ procs'[x].st = "starting")
        BY <2>1, <2>2, <3>2 DEF RunFileInv, PortInv, At
      <4> QED
        BY <3>3, <4>1, <4>2 DEF PortInv
    <3>5. \A x \in DOMAIN procs : procs[x].serves # Other /\ Alive(x)' => Alive(x)
      BY <1>2, <3>2 DEF Alive, Bind
    <3>6. RunFilesNameOwnServers'
      BY <3>1, <3>2, <3>5 DEF RunFileInv, RunFilesNameOwnServers, Answers, SameRepo
    <3>7. Belongs(p, Id(c))'
      <4>1. Belongs(p, Id(c)) /\ Alive(p)
        BY <1>2, <2>1 DEF RunFileInv, NamesInv, Alive, Bind
      <4> QED
        BY <3>1, <3>2, <4>1 DEF Belongs, Answers, SameRepo, Id
    <3>8. NamesInv'
      <4>1. SameRepo(call[c].owner, Id(c))
        BY DEF RunFileInv, NamesInv
      <4> QED
        BY <2>1, <2>2, <3>1, <3>3, <3>7, <4>1 DEF NamesInv, At, Id, SameRepo
    <3> QED
      BY <3>4, <3>6, <3>8 DEF RunFileInv
  <2>4. CASE Listening # {}
    <3>1. procs' = [procs EXCEPT ![p].st = "exited"] /\ UNCHANGED <<file, call>>
      BY <1>2, <2>4 DEF Bind
    <3>2. Fewer /\ \A x \in DOMAIN procs : procs'[x].st = "starting" => procs'[x] = procs[x]
      BY <1>0, <3>1, ChangesProcess DEF Fewer
    <3> QED
      BY <1>1, <3>1, <3>2
  <2> QED
    BY <2>3, <2>4
<1>3. ASSUME NEW p \in DOMAIN procs, Exit(p) PROVE RunFileInv'
  <2>1. procs' = [procs EXCEPT ![p].st = "exited"] /\ UNCHANGED <<file, call>>
    BY <1>3 DEF Exit
  <2>2. Fewer /\ \A x \in DOMAIN procs : procs'[x].st = "starting" => procs'[x] = procs[x]
    BY <1>0, <2>1, ChangesProcess DEF Fewer
  <2> QED
    BY <1>1, <2>1, <2>2
<1>4. ASSUME NEW p \in DOMAIN procs, PidReused(p) PROVE RunFileInv'
  <2>1. procs' = [procs EXCEPT ![p] = [serves |-> Other, st |-> "starting"]] /\ UNCHANGED <<file, call>>
    BY <1>4 DEF PidReused
  <2>2. Fewer /\ \A x \in DOMAIN procs : procs'[x].serves # Other => procs'[x] = procs[x]
    BY <1>0, <2>1 DEF Fewer
  <2> QED
    BY <1>1, <2>1, <2>2
<1>5. ASSUME ForeignStarts PROVE RunFileInv'
  BY <1>5 DEF ForeignStarts, Mishap, Fails, Named
<1>6. ASSUME NEW i \in Projects, FileLost(i) PROVE RunFileInv'
  <2>1. UNCHANGED <<procs, call>> /\ file' = [file EXCEPT ![i] = NoFile]
    BY <1>6 DEF FileLost
  <2>2. \A j \in Projects : \A p \in DOMAIN procs : file'[j] = p => file[j] = p
    BY <1>0, <2>1, ConstantsAssumption DEF TypeInv, TypeOK
  <2>3. Fewer
    BY <2>1 DEF Fewer
  <2> QED
    BY <1>1, <2>1, <2>2, <2>3
<1> QED
  BY <1>2, <1>3, <1>4, <1>5, <1>6 DEF Machine

LEMMA RunNames == ASSUME Named, TypeInv, RunFileInv, NEW c \in Callers, Run(c) PROVE RunFileInv'
<1> DEFINE k == call[c]
           NoneStarts == \A p \in DOMAIN procs : ~(procs'[p].serves # Other /\ procs'[p].st = "starting")
           FilesBelong == \A i \in Projects : \A p \in DOMAIN procs : file'[i] = p => Belongs(p, i)
<1>1. /\ TypeOK /\ k \in Calls /\ k.pid \in Pids /\ k.owner \in Projects /\ k.filed \in BOOLEAN /\ Id(c) \in Projects
      /\ Len(procs) \in Nat /\ procs \in Seq(Processes) /\ DOMAIN procs = 1..Len(procs) /\ 0..Len(procs) \subseteq Pids
      /\ k.pid \in 0..Len(procs)
  BY ConstantsAssumption DEF TypeInv, TypeOK, Shape, CallOK, Calls, Pids, Id
<1>2. \A pc \in Steps : Goto(c, pc) => Moves(c, pc, k.pid, k.owner, k.filed)
  BY <1>1, Moving
<1>3. /\ SameRepo(k.owner, Id(c)) /\ SameRepo(Id(c), Id(c))
      /\ k.pc = "spawn" => Listening = {}
      /\ k.pc = "wait" => Listening \subseteq {k.pid}
      /\ k.pc = "find" \/ (k.pc = "adopt" /\ k.pid = 0) => \A p \in Listening : Answers(p, Id(c))
      /\ k.pc \in {"alive", "adopt", "wait", "check", "save"} => Belongs(k.pid, Id(c))
  BY DEF RunFileInv, NamesInv, SameRepo
<1>4. /\ \A p, q \in Listening : p = q
      /\ \A p \in Listening : procs[p].serves # Other /\ p \in 1..Len(procs)
      /\ \A p \in DOMAIN procs : procs[p].serves # Other /\ procs[p].st = "starting" => k.pc = "wait" /\ k.pid = p
  BY <1>1 DEF RunFileInv, PortInv, Named, OneTerminal, At, Listening
<1>5. \A i \in Projects : \A p \in DOMAIN procs : file[i] = p => Belongs(p, i)
  BY DEF RunFileInv, RunFilesNameOwnServers, Belongs
<1>6. \A o \in Found(Id(c)) : o \in Projects /\ SameRepo(o, Id(c)) /\ file[o] \in 0..Len(procs)
  BY <1>1 DEF Found, SameRepo, TypeInv, Shape
<1>7. UNCHANGED procs => Fewer
  BY DEF Fewer
<1>8. UNCHANGED procs /\ k.pc # "wait" => NoneStarts
  BY <1>4
<1>9. \A i \in Projects : \A p \in Listening : SameRepo(Id(c), i) /\ Answers(p, Id(c)) => Answers(p, i) /\ Belongs(p, i)
  BY DEF Answers, SameRepo, Belongs
<1>10. \A p \in PidByPort : p = 0 \/ p \in Listening
  BY DEF PidByPort
<1>11. \A i \in Projects : ~Alive(0) /\ Belongs(0, i)
  BY <1>1 DEF Belongs, Alive
<1> USE DEF At
<1> HIDE DEF NoneStarts
<1>12. CASE StopReads(c)
  <2>1. Fewer /\ NoneStarts /\ FilesBelong
    BY <1>5, <1>7, <1>8, <1>12 DEF StopReads
  <2>2. CASE Found(Id(c)) = {} /\ Goto(c, "read")
    <3>1. Moves(c, "read", k.pid, k.owner, k.filed)
      BY <1>2, <2>2 DEF Steps
    <3> QED
      BY <1>3, <2>1, <3>1, NamedMoves DEF NoneStarts
  <2>3. ASSUME NEW o \in Found(Id(c)), call' = [call EXCEPT ![c].pc = "kill", ![c].owner = o, ![c].pid = file[o]]
        PROVE  RunFileInv'
    <3>1. Moves(c, "kill", file[o], o, k.filed)
      BY <1>1, <1>6, <2>3, Moving DEF Steps
    <3> QED
      BY <1>6, <2>1, <3>1, NamedMoves DEF NoneStarts
  <2> QED
    BY <1>12, <2>2, <2>3 DEF StopReads
<1>13. CASE ReadRunFile(c)
  <2>1. Fewer /\ NoneStarts /\ FilesBelong
    BY <1>5, <1>7, <1>8, <1>13 DEF ReadRunFile
  <2>2. CASE call' = [call EXCEPT ![c].pc = "query", ![c].pid = 0, ![c].filed = FALSE]
    <3>1. PICK filed \in BOOLEAN : Moves(c, "query", 0, k.owner, filed)
      <4>1. 0 \in Pids /\ FALSE \in BOOLEAN /\ "query" \in Steps
        BY <1>1 DEF Steps
      <4>2. Moves(c, "query", 0, k.owner, FALSE)
        BY <1>1, <2>2, <4>1, Moving
      <4> QED
        BY <4>2
    <3> QED
      BY <1>3, <2>1, <3>1, NamedMoves DEF NoneStarts
  <2>3. ASSUME NEW o \in Found(Id(c)),
               call' = [call EXCEPT ![c].pc = IF file[o] = 0 THEN "query" ELSE "alive",
                                    ![c].owner = o, ![c].pid = file[o], ![c].filed = TRUE]
        PROVE  RunFileInv'
    <3> DEFINE pc == IF file[o] = 0 THEN "query" ELSE "alive"
    <3>1. pc \in Steps /\ pc \in {"query", "alive"}
      BY DEF Steps
    <3>2. call' = [call EXCEPT ![c].pc = pc, ![c].owner = o, ![c].pid = file[o], ![c].filed = TRUE]
      BY <2>3
    <3> HIDE DEF pc
    <3>3. PICK filed \in BOOLEAN : Moves(c, pc, file[o], o, filed)
      <4>1. Moves(c, pc, file[o], o, TRUE)
        BY <1>1, <1>6, <3>1, <3>2, Moving
      <4> QED
        BY <4>1
    <3>4. Belongs(file[o], Id(c))
      <4>1. file[o] \in DOMAIN procs => Belongs(file[o], o)
        BY <1>5, <1>6
      <4> QED
        BY <1>6, <4>1 DEF Belongs, Alive, Answers, SameRepo
    <3> QED
      BY <1>6, <2>1, <3>1, <3>3, <3>4, NamedMoves DEF NoneStarts
  <2> QED
    BY <1>13, <2>2, <2>3 DEF ReadRunFile
<1>14. CASE QueryPort(c)
  <2>1. Fewer /\ NoneStarts /\ FilesBelong
    BY <1>5, <1>7, <1>8, <1>14 DEF QueryPort
  <2>2. CASE (\E p \in Listening : Answers(p, Id(c))) /\ Goto(c, "find")
    <3>1. Moves(c, "find", k.pid, k.owner, k.filed)
      BY <1>2, <2>2 DEF Steps
    <3>2. \A p \in Listening : Answers(p, Id(c))
      BY <1>4, <2>2
    <3> QED
      BY <1>3, <2>1, <3>1, <3>2, NamedMoves DEF NoneStarts
  <2>3. CASE Goto(c, "clean") \/ NotRunning(c)
    <3>1. (\E pc \in {"clean", "port"} : Moves(c, pc, k.pid, k.owner, k.filed)) \/ Ends(c)
      <4>1. CASE Goto(c, "clean")
        BY <1>2, <4>1 DEF Steps
      <4>2. CASE NotRunning(c)
        BY <1>1, <4>2, AfterStatus
      <4> QED
        BY <2>3, <4>1, <4>2
    <3>2. CASE Ends(c)
      BY <2>1, <3>2, NamedEnds DEF NoneStarts
    <3>3. ASSUME NEW pc \in {"clean", "port"}, Moves(c, pc, k.pid, k.owner, k.filed) PROVE RunFileInv'
      BY <1>3, <2>1, <3>3, NamedMoves DEF NoneStarts
    <3> QED
      BY <3>1, <3>2, <3>3
  <2> QED
    BY <1>14, <2>2, <2>3 DEF QueryPort
<1>15. CASE FindPid(c)
  <2>1. PICK p \in PidByPort : Running(c, p)
                               /\ file' = IF k.filed /\ p > 0 THEN [file EXCEPT ![k.owner] = p] ELSE file
    BY <1>15 DEF FindPid
  <2>2. Fewer /\ NoneStarts /\ k.pc = "find"
    BY <1>7, <1>8, <1>15 DEF FindPid
  <2>3. Belongs(p, Id(c)) /\ Belongs(p, k.owner) /\ p \in 0..Len(procs)
    <3>1. SameRepo(Id(c), k.owner)
      BY <1>3 DEF SameRepo
    <3> QED
      BY <1>1, <1>3, <1>4, <1>9, <1>10, <1>11, <2>2, <3>1
  <2>4. FilesBelong
    <3>1. CASE file' = file
      BY <1>5, <3>1
    <3>2. CASE file' = [file EXCEPT ![k.owner] = p]
      BY <1>1, <1>5, <2>3, <3>2 DEF TypeOK
    <3> QED
      BY <2>1, <3>1, <3>2
  <2>5. \/ Moves(c, "adopt", p, k.owner, k.filed)
        \/ Moves(c, "kill", p, Id(c), k.filed)
        \/ Ends(c)
    BY <1>1, <2>1, <2>3, AfterStatus
  <2>6. CASE Ends(c)
    BY <2>2, <2>4, <2>6, NamedEnds DEF NoneStarts
  <2>7. CASE Moves(c, "adopt", p, k.owner, k.filed)
    BY <1>3, <2>2, <2>3, <2>4, <2>7, NamedMoves DEF NoneStarts
  <2>8. CASE Moves(c, "kill", p, Id(c), k.filed)
    BY <1>3, <2>2, <2>4, <2>8, NamedMoves DEF NoneStarts
  <2> QED
    BY <2>5, <2>6, <2>7, <2>8
<1>16. CASE CheckAlive(c)
  <2>1. Fewer /\ NoneStarts /\ FilesBelong
    BY <1>5, <1>7, <1>8, <1>16 DEF CheckAlive
  <2>2. CASE Goto(c, "clean")
    <3>1. Moves(c, "clean", k.pid, k.owner, k.filed)
      BY <1>2, <2>2 DEF Steps
    <3> QED
      BY <1>3, <2>1, <3>1, NamedMoves DEF NoneStarts
  <2>3. CASE Alive(k.pid) /\ Running(c, k.pid)
    <3>1. \/ Moves(c, "adopt", k.pid, k.owner, k.filed)
          \/ Moves(c, "kill", k.pid, Id(c), k.filed)
          \/ Ends(c)
      BY <1>1, <2>3, AfterStatus
    <3>2. k.pid # 0 /\ Belongs(k.pid, Id(c))
      BY <1>1, <1>3, <1>11, <1>16, <2>3 DEF CheckAlive
    <3>3. CASE Ends(c)
      BY <2>1, <3>3, NamedEnds DEF NoneStarts
    <3>4. CASE Moves(c, "adopt", k.pid, k.owner, k.filed)
      BY <1>3, <2>1, <3>2, <3>4, NamedMoves DEF NoneStarts
    <3>5. CASE Moves(c, "kill", k.pid, Id(c), k.filed)
      BY <1>3, <2>1, <3>5, NamedMoves DEF NoneStarts
    <3> QED
      BY <3>1, <3>3, <3>4, <3>5
  <2> QED
    BY <1>16, <2>2, <2>3 DEF CheckAlive
<1>17. CASE CleanUp(c)
  <2>1. Fewer /\ NoneStarts
    BY <1>7, <1>8, <1>17 DEF CleanUp
  <2>2. FilesBelong
    <3>1. \A i \in Projects : file'[i] = NoFile \/ file'[i] = file[i]
      BY <1>17 DEF CleanUp
    <3> QED
      BY <1>1, <1>5, <3>1, ConstantsAssumption
  <2>3. Moves(c, "port", k.pid, k.owner, k.filed) \/ Ends(c)
    BY <1>1, <1>17, AfterStatus DEF CleanUp
  <2>4. CASE Ends(c)
    BY <2>1, <2>2, <2>4, NamedEnds DEF NoneStarts
  <2>5. CASE Moves(c, "port", k.pid, k.owner, k.filed)
    BY <1>3, <2>1, <2>2, <2>5, NamedMoves DEF NoneStarts
  <2> QED
    BY <2>3, <2>4, <2>5
<1>18. CASE Adopt(c)
  <2>1. Fewer /\ NoneStarts /\ Ends(c) /\ k.pc = "adopt"
    BY <1>7, <1>8, <1>18 DEF Adopt
  <2>2. FilesBelong
    <3>1. CASE UNCHANGED file
      BY <1>5, <3>1
    <3>2. ASSUME NEW p \in IF k.pid = 0 THEN PidByPort ELSE {k.pid}, file' = [file EXCEPT ![Id(c)] = p]
          PROVE  FilesBelong
      <4>1. Belongs(p, Id(c))
        BY <1>1, <1>3, <1>4, <1>9, <1>10, <1>11, <2>1, <3>2
      <4> QED
        BY <1>1, <1>5, <3>2, <4>1 DEF TypeOK
    <3> QED
      BY <1>18, <3>1, <3>2 DEF Adopt
  <2> QED
    BY <2>1, <2>2, NamedEnds DEF NoneStarts
<1>19. CASE ProbePort(c)
  <2>1. Fewer /\ NoneStarts /\ FilesBelong
    BY <1>5, <1>7, <1>8, <1>19 DEF ProbePort
  <2>2. CASE Ends(c)
    BY <2>1, <2>2, NamedEnds DEF NoneStarts
  <2>3. CASE Listening = {} /\ Goto(c, "spawn")
    <3>1. Moves(c, "spawn", k.pid, k.owner, k.filed)
      BY <1>2, <2>3 DEF Steps
    <3> QED
      BY <1>3, <2>1, <2>3, <3>1, NamedMoves DEF NoneStarts
  <2> QED
    BY <1>19, <2>2, <2>3 DEF ProbePort
<1>20. CASE Spawn(c)
  <2> DEFINE q == [serves |-> Id(c), st |-> "starting"]
             n == Len(procs) + 1
  <2>1. procs' = Append(procs, q) /\ q.serves = Id(c) /\ q.st = "starting" /\ TypeInv' /\ Id(c) # Other
    BY <1>1, <1>20, RunType, ConstantsAssumption DEF Spawn, Run, Start
  <2> HIDE DEF q
  <2>2. /\ DOMAIN procs' = 1..n /\ procs'[n] = q /\ \A p \in DOMAIN procs : procs'[p] = procs[p]
    BY <1>1, <2>1
  <2>3. PICK d \in Calls : /\ call' = [call EXCEPT ![c] = d]
                           /\ d.id = Id(c) /\ d.pc = "wait" /\ d.pid = n /\ d.owner = k.owner
    <3>1. n \in Pids
      BY <1>1, <2>1, <2>2, ConstantsAssumption DEF TypeInv, TypeOK, Pids
    <3>2. Moves(c, "wait", n, k.owner, k.filed)
      BY <1>1, <1>20, <3>1, Moving DEF Spawn, Steps
    <3> QED
      BY <3>2 DEF Moves
  <2>4. call'[c] = d /\ \A x \in Callers : x = c
    BY <1>1, <2>3 DEF Named, OneTerminal, TypeOK
  <2>5. Listening = {} /\ Listening' = {}
    <3>1. Listening = {}
      BY <1>3, <1>20 DEF Spawn
    <3> QED
      BY <1>1, <2>1, <2>2, <3>1 DEF Listening
  <2>6. PortInv'
    <3>1. \A p \in DOMAIN procs' : procs'[p].serves # Other /\ procs'[p].st = "starting" => p = n
      BY <1>1, <1>4, <1>20, <2>2 DEF Spawn
    <3> QED
      BY <2>3, <2>4, <2>5, <3>1 DEF PortInv
  <2>7. RunFilesNameOwnServers'
    <3>1. \A i \in Projects : file'[i] = NoFile \/ file'[i] = file[i]
      BY <1>1, <1>20 DEF Spawn, TypeOK
    <3>2. \A i \in Projects : \A p \in DOMAIN procs' : file'[i] = p => p \in DOMAIN procs /\ file[i] = p
      BY <1>1, <2>2, <3>1, ConstantsAssumption DEF TypeInv, Shape
    <3>3. \A i \in Projects : \A p \in DOMAIN procs : Belongs(p, i) => Belongs(p, i)'
      BY <1>1, <2>2 DEF Belongs, Alive, Answers, SameRepo
    <3>4. \A i \in Projects : \A p \in DOMAIN procs' : file'[i] = p => Belongs(p, i)'
      BY <1>5, <3>2, <3>3
    <3> QED
      BY <3>4 DEF RunFilesNameOwnServers, Belongs
  <2>8. NamesInv'
    <3>1. SameRepo(d.owner, d.id)'
      BY <1>3, <2>3 DEF SameRepo
    <3>2. Belongs(d.pid, d.id)'
      BY <2>1, <2>2, <2>3 DEF Belongs, Answers, SameRepo
    <3> QED
      BY <2>3, <2>4, <2>5, <3>1, <3>2 DEF NamesInv, Id
  <2> QED
    BY <2>6, <2>7, <2>8 DEF RunFileInv
<1>21. CASE WaitReady(c)
  <2>1. Moves(c, "check", k.pid, k.owner, k.filed) /\ UNCHANGED <<procs, file>> /\ k.pc = "wait" /\ Listening # {}
    BY <1>2, <1>21 DEF WaitReady, Steps
  <2>2. k.pid \in Listening
    BY <1>3, <2>1
  <2>3. NoneStarts
    BY <1>4, <2>1, <2>2 DEF Listening, NoneStarts
  <2> QED
    BY <1>3, <1>5, <1>7, <2>1, <2>3, NamedMoves DEF NoneStarts
<1>22. CASE WaitTimesOut(c)
  <2>1. Fewer /\ NoneStarts
    <3>1. CASE Alive(k.pid) /\ Signal(k.pid)
      <4>1. Fewer /\ procs'[k.pid].st # "starting"
        BY <3>1, SignalFewer DEF Alive
      <4>2. \A p \in DOMAIN procs' : procs'[p].serves # Other /\ procs'[p].st = "starting" => procs'[p] = procs[p]
        BY <4>1, FewerServers
      <4> QED
        BY <1>4, <4>1, <4>2 DEF Fewer, NoneStarts
    <3>2. CASE ~Alive(k.pid) /\ UNCHANGED procs
      BY <1>4, <1>7, <3>2 DEF Alive, NoneStarts
    <3> QED
      BY <1>22, <3>1, <3>2 DEF WaitTimesOut
  <2>2. Ends(c) /\ FilesBelong
    BY <1>5, <1>22 DEF WaitTimesOut
  <2> QED
    BY <2>1, <2>2, NamedEnds DEF NoneStarts
<1>23. CASE CheckExited(c)
  <2>1. Fewer /\ NoneStarts /\ FilesBelong /\ k.pc = "check"
    BY <1>5, <1>7, <1>8, <1>23 DEF CheckExited
  <2>2. CASE Ends(c)
    BY <2>1, <2>2, NamedEnds DEF NoneStarts
  <2>3. CASE Goto(c, "save")
    <3>1. Moves(c, "save", k.pid, k.owner, k.filed)
      BY <1>2, <2>3 DEF Steps
    <3> QED
      BY <1>3, <2>1, <3>1, NamedMoves DEF NoneStarts
  <2> QED
    BY <1>23, <2>2, <2>3 DEF CheckExited
<1>24. CASE SaveState(c)
  <2>1. Fewer /\ NoneStarts /\ Ends(c) /\ Belongs(k.pid, Id(c)) /\ file' = [file EXCEPT ![Id(c)] = k.pid]
    BY <1>3, <1>7, <1>8, <1>24 DEF SaveState
  <2>2. FilesBelong
    BY <1>1, <1>5, <2>1 DEF TypeOK
  <2> QED
    BY <2>1, <2>2, NamedEnds DEF NoneStarts
<1>25. CASE Kill(c)
  <2>1. PICK p \in IF k.pid = 0 THEN PidByPort ELSE {k.pid} : IF p > 0 THEN Signal(p) ELSE UNCHANGED procs
    BY <1>25 DEF Kill
  <2>2. p \in 0..Len(procs) /\ k.pc = "kill" /\ UNCHANGED file
    BY <1>1, <1>4, <1>10, <1>25, <2>1 DEF Kill
  <2>3. Fewer /\ NoneStarts
    <3>1. CASE p > 0
      <4>1. Fewer
        BY <1>1, <2>1, <2>2, <3>1, SignalFewer
      <4>2. \A x \in DOMAIN procs' : procs'[x].serves # Other /\ procs'[x].st = "starting" => procs'[x] = procs[x]
        BY <4>1, FewerServers
      <4> QED
        BY <1>4, <2>2, <4>1, <4>2 DEF Fewer, NoneStarts
    <3>2. CASE ~(p > 0)
      BY <1>7, <1>8, <2>1, <2>2, <3>2
    <3> QED
      BY <3>1, <3>2
  <2>4. Moves(c, "remove", k.pid, k.owner, k.filed)
    BY <1>2, <1>25 DEF Kill, Steps
  <2> QED
    BY <1>3, <1>5, <2>2, <2>3, <2>4, NamedMoves DEF NoneStarts
<1>26. CASE RemoveState(c)
  <2>1. Fewer /\ NoneStarts /\ Ends(c)
    BY <1>7, <1>8, <1>26 DEF RemoveState
  <2>2. FilesBelong
    <3>1. \A i \in Projects : file'[i] = NoFile \/ file'[i] = file[i]
      BY <1>1, <1>26 DEF RemoveState, TypeOK
    <3> QED
      BY <1>1, <1>5, <3>1, ConstantsAssumption
  <2> QED
    BY <2>1, <2>2, NamedEnds DEF NoneStarts
<1> QED
  BY <1>12, <1>13, <1>14, <1>15, <1>16, <1>17, <1>18, <1>19, <1>20, <1>21, <1>22, <1>23, <1>24, <1>25, <1>26
     DEF Run, Status, Start, Stop

LEMMA RunFilesAreInvariant == ASSUME Named PROVE Spec => [](TypeInv /\ RunFileInv)
<1>1. Init => TypeInv /\ RunFileInv
  <2> SUFFICES ASSUME Init PROVE RunFileInv
    BY InitType
  <2>1. DOMAIN procs = {} /\ Listening = {}
    BY DEF Init, Listening
  <2>2. Idle.pc = "idle" /\ Idle.owner = Idle.id
    BY DEF Idle
  <2>3. \A c \in Callers : call[c] = Idle
    BY DEF Init
  <2> QED
    BY <2>1, <2>2, <2>3 DEF RunFileInv, PortInv, RunFilesNameOwnServers, NamesInv, Id, At, SameRepo
<1>2. TypeInv /\ RunFileInv /\ [Next]_vars => (TypeInv /\ RunFileInv)'
  <2> SUFFICES ASSUME TypeInv, RunFileInv, [Next]_vars PROVE RunFileInv'
    BY NextType
  <2>1. CASE Machine
    BY <2>1, MachineNames
  <2>2. ASSUME NEW c \in Callers, Begin(c) \/ Run(c) \/ Crash(c) PROVE RunFileInv'
    <3>1. ~Crash(c)
      BY DEF Crash, Mishap, Fails, Named, OneTerminal
    <3> QED
      BY <2>2, <3>1, BeginNames, RunNames
  <2>3. CASE UNCHANGED vars
    BY <2>3 DEF vars, RunFileInv, PortInv, RunFilesNameOwnServers, NamesInv, Id, At, SameRepo, Belongs,
                Answers, Alive, Listening
  <2> QED
    BY <2>1, <2>2, <2>3 DEF Next
<1> QED
  BY <1>1, <1>2, PTL DEF Spec

\* With one terminal and no other program on the port, a run file never names
\* the server of another repository, although run files get lost, servers die,
\* their pids are reused and lsof may find nothing: a pid is recorded of a
\* process that was spawned for the checkout, or that held the port when the
\* database of the repository answered there.
THEOREM OwnServersNamed == ASSUME Named PROVE Spec => []RunFilesNameOwnServers
<1>1. RunFileInv => RunFilesNameOwnServers
  BY DEF RunFileInv
<1> QED
  BY <1>1, RunFilesAreInvariant, PTL

(***************************************************************************)
(* Servers whose run file is lost.  A start knows its own server although  *)
(* no file names it, since the database answers; what it must not meet is  *)
(* a file that names another process, for then it asks nobody.  There is   *)
(* none: a run file that names a process while a server of its checkout    *)
(* runs names that server.                                                 *)
(***************************************************************************)
Orphans == Named /\ Rooted = Projects

FileInv == \A i \in Projects : \A p \in ServersOf(i) : file[i] \in {p, 0, NoFile}

LookupInv ==
  \A c \in Callers :
    /\ call[c].owner = Id(c)
    /\ call[c].pc \in {"clean", "port", "spawn"} => ServersOf(Id(c)) = {}
    /\ call[c].pc \in {"alive", "wait", "check", "save"} => ServersOf(Id(c)) \subseteq {call[c].pid}
    /\ call[c].pc = "adopt" /\ call[c].pid # 0 => ServersOf(Id(c)) \subseteq {call[c].pid}

OrphanInv == FileInv /\ LookupInv

\* After a step of the only terminal.
LEMMA OrphanStep ==
  ASSUME Orphans, TypeInv, NEW c \in Callers, NEW d, call' = [call EXCEPT ![c] = d],
         d.id \in Projects, d.owner = d.id,
         \A i \in Projects :
            /\ \A p \in ServersOf(i)' : file'[i] \in {p, 0, NoFile}
            /\ d.id = i /\ d.pc \in {"clean", "port", "spawn"} => ServersOf(i)' = {}
            /\ d.id = i /\ d.pc \in {"alive", "wait", "check", "save"} => ServersOf(i)' \subseteq {d.pid}
            /\ d.id = i /\ d.pc = "adopt" /\ d.pid # 0 => ServersOf(i)' \subseteq {d.pid}
  PROVE  OrphanInv'
<1>1. call'[c] = d /\ \A x \in Callers : x = c
  BY DEF Orphans, Named, OneTerminal, TypeInv, TypeOK
<1>2. FileInv'
  BY DEF FileInv
<1>3. LookupInv'
  BY <1>1 DEF LookupInv, Id
<1> QED
  BY <1>2, <1>3 DEF OrphanInv

LEMMA OrphanMoves ==
  ASSUME Orphans, TypeInv, NEW c \in Callers, NEW pc, NEW pid, NEW owner, NEW filed,
         Moves(c, pc, pid, owner, filed), owner = Id(c),
         \A i \in Projects :
            /\ \A p \in ServersOf(i)' : file'[i] \in {p, 0, NoFile}
            /\ Id(c) = i /\ pc \in {"clean", "port", "spawn"} => ServersOf(i)' = {}
            /\ Id(c) = i /\ pc \in {"alive", "wait", "check", "save"} => ServersOf(i)' \subseteq {pid}
            /\ Id(c) = i /\ pc = "adopt" /\ pid # 0 => ServersOf(i)' \subseteq {pid}
  PROVE  OrphanInv'
<1>1. PICK d \in Calls : /\ call' = [call EXCEPT ![c] = d]
                         /\ d.id = Id(c) /\ d.pc = pc /\ d.pid = pid /\ d.owner = owner
  BY DEF Moves
<1>2. d.id \in Projects
  BY DEF Calls
<1> QED
  BY <1>1, <1>2, OrphanStep

LEMMA OrphanEnds ==
  ASSUME Orphans, TypeInv, OrphanInv, NEW c \in Callers, Ends(c),
         \A i \in Projects : \A p \in ServersOf(i)' : file'[i] \in {p, 0, NoFile}
  PROVE  OrphanInv'
<1>1. AfterEnd(c).id \in Projects /\ AfterEnd(c).pc \in {"idle", "read"} /\ AfterEnd(c).owner = AfterEnd(c).id
  <2>1. CallOK(AfterEnd(c), Len(procs)) /\ AfterEnd(c).pc \in {"idle", "read"}
    BY AfterEndOK
  <2>2. AfterEnd(c).owner = AfterEnd(c).id
    <3>1. Len(procs) \in Nat /\ Idle.owner = Idle.id
      BY IdleOK DEF TypeInv, TypeOK
    <3>2. call[c] \in Calls /\ call[c].owner = call[c].id
      BY DEF OrphanInv, LookupInv, Id, TypeInv, TypeOK
    <3> DEFINE d == [call[c] EXCEPT !.run = "start", !.pc = "read", !.next = FALSE]
    <3>3. d.owner = d.id
      BY <3>2 DEF Calls
    <3> QED
      BY <3>1, <3>3 DEF AfterEnd
  <2> QED
    BY <2>1, <2>2 DEF CallOK, Calls
<1>2. call' = [call EXCEPT ![c] = AfterEnd(c)]
  BY Ended
<1> QED
  BY <1>1, <1>2, OrphanStep

\* Outside the wait every server holds the port, so that there is at most one.
LEMMA OneServer ==
  ASSUME Orphans, TypeInv, PortInv, NEW c \in Callers, ~At(c, "wait"), NEW i \in Projects
  PROVE  ServersOf(i) \subseteq Listening /\ \A p \in Listening : ServersOf(i) \subseteq {p}
<1>1. ServersOf(i) \subseteq Listening
  BY ConstantsAssumption DEF ServersOf, Listening, PortInv, Orphans, Named, OneTerminal
<1> QED
  BY <1>1 DEF PortInv

LEMMA BeginOrphans == ASSUME Orphans, TypeInv, OrphanInv, NEW c \in Callers, Begin(c) PROVE OrphanInv'
<1>1. PICK k \in Commands, id \in Projects :
        call' = [call EXCEPT ![c] =
         [cmd |-> k, id |-> id, pid |-> 0, owner |-> id, filed |-> FALSE, next |-> k = "checkout",
          run |-> IF k = "checkout" THEN "stop" ELSE k,
          pc  |-> IF k \in {"stop", "checkout"} THEN "first" ELSE "read"]]
  BY DEF Begin
<1> DEFINE d == [cmd |-> k, id |-> id, pid |-> 0, owner |-> id, filed |-> FALSE, next |-> k = "checkout",
                 run |-> IF k = "checkout" THEN "stop" ELSE k,
                 pc  |-> IF k \in {"stop", "checkout"} THEN "first" ELSE "read"]
<1>2. call' = [call EXCEPT ![c] = d] /\ d.id = id /\ d.owner = id /\ d.pc \in {"first", "read"}
  BY <1>1
<1> HIDE DEF d
<1>3. UNCHANGED file /\ \A i \in Projects : ServersOf(i)' = ServersOf(i)
  BY DEF Begin, ServersOf
<1>4. \A i \in Projects : \A p \in ServersOf(i)' : file'[i] \in {p, 0, NoFile}
  BY <1>3 DEF OrphanInv, FileInv
<1> QED
  BY <1>2, <1>4, OrphanStep

LEMMA MachineOrphans == ASSUME TypeInv, OrphanInv, Machine PROVE OrphanInv'
<1>1. /\ UNCHANGED call /\ \A i \in Projects : ServersOf(i)' \subseteq ServersOf(i)
      /\ \A i \in Projects : file'[i] \in {file[i], NoFile}
  BY MachineServers DEF TypeInv, TypeOK
<1>2. \A c \in Callers : Id(c) \in Projects
  BY DEF TypeInv, TypeOK, Calls, Id
<1>3. FileInv'
  BY <1>1 DEF OrphanInv, FileInv
<1>4. LookupInv'
  BY <1>1, <1>2 DEF OrphanInv, LookupInv, Id
<1> QED
  BY <1>3, <1>4 DEF OrphanInv

LEMMA RunOrphans ==
  ASSUME Orphans, TypeInv, PortInv, OrphanInv, NEW c \in Callers, Run(c)
  PROVE  OrphanInv'
<1> DEFINE k == call[c]
           S == ServersOf(Id(c))
<1>1. /\ TypeOK /\ k \in Calls /\ k.pid \in Pids /\ k.owner \in Projects /\ k.filed \in BOOLEAN /\ Id(c) \in Projects
      /\ Len(procs) \in Nat /\ procs \in Seq(Processes) /\ DOMAIN procs = 1..Len(procs) /\ 0..Len(procs) \subseteq Pids
      /\ k.pid \in 0..Len(procs) /\ k.owner = Id(c) /\ file \in [Projects -> Pids \cup {NoFile}]
  BY ConstantsAssumption DEF TypeInv, TypeOK, Shape, CallOK, Calls, Pids, Id, OrphanInv, LookupInv
<1>0. \A pc \in Steps : Goto(c, pc) => Moves(c, pc, k.pid, k.owner, k.filed)
  BY <1>1, Moving
<1>2. PidByPort \subseteq 0..Len(procs) /\ \A p \in PidByPort : p # 0 => p \in Listening
  BY <1>1 DEF PidByPort, Listening
<1>3. /\ k.pc \in {"clean", "port", "spawn"} => S = {}
      /\ k.pc \in {"alive", "wait", "check", "save"} => S \subseteq {k.pid}
      /\ k.pc = "adopt" /\ k.pid # 0 => S \subseteq {k.pid}
  BY DEF OrphanInv, LookupInv
<1>4. \A i \in Projects : \A p \in ServersOf(i) : file[i] \in {p, 0, NoFile}
  BY DEF OrphanInv, FileInv
<1>5. Found(Id(c)) \subseteq {Id(c)} /\ (Found(Id(c)) = {} <=> file[Id(c)] = NoFile)
  BY <1>1, FoundOwn DEF Orphans
<1>6. UNCHANGED procs => \A i \in Projects : ServersOf(i)' = ServersOf(i)
  BY DEF ServersOf
<1>7. k.pc # "wait" => S \subseteq Listening /\ \A p \in Listening : S \subseteq {p}
  BY <1>1, OneServer DEF At
<1>8. UNCHANGED <<procs, file>> => \A i \in Projects : \A p \in ServersOf(i)' : file'[i] \in {p, 0, NoFile}
  BY <1>4, <1>6
<1> USE DEF At
<1>9. CASE StopReads(c)
  <2>0. \A i \in Projects : \A p \in ServersOf(i)' : file'[i] \in {p, 0, NoFile}
    BY <1>8, <1>9 DEF StopReads
  <2>1. CASE Found(Id(c)) = {} /\ Goto(c, "read")
    <3>1. Moves(c, "read", k.pid, k.owner, k.filed)
      BY <1>0, <2>1 DEF Steps
    <3> QED
      BY <1>1, <2>0, <3>1, OrphanMoves
  <2>2. ASSUME NEW o \in Found(Id(c)), call' = [call EXCEPT ![c].pc = "kill", ![c].owner = o, ![c].pid = file[o]]
        PROVE  OrphanInv'
    <3>1. o = Id(c) /\ file[o] \in Pids
      BY <1>1, <1>5
    <3>2. Moves(c, "kill", file[o], o, k.filed)
      BY <1>1, <2>2, <3>1, Moving DEF Steps
    <3> QED
      BY <1>1, <2>0, <3>1, <3>2, OrphanMoves
  <2> QED
    BY <1>9, <2>1, <2>2 DEF StopReads
<1>10. CASE ReadRunFile(c)
  <2>0. /\ \A i \in Projects : ServersOf(i)' = ServersOf(i)
        /\ \A i \in Projects : \A p \in ServersOf(i)' : file'[i] \in {p, 0, NoFile}
    BY <1>6, <1>8, <1>10 DEF ReadRunFile
  <2>1. CASE call' = [call EXCEPT ![c].pc = "query", ![c].pid = 0, ![c].filed = FALSE]
    <3>1. 0 \in Pids /\ FALSE \in BOOLEAN /\ "query" \in Steps
      BY <1>1 DEF Steps
    <3>2. PICK filed \in BOOLEAN : Moves(c, "query", 0, k.owner, filed)
      <4>1. Moves(c, "query", 0, k.owner, FALSE)
        BY <1>1, <2>1, <3>1, Moving
      <4> QED
        BY <4>1
    <3> QED
      BY <1>1, <2>0, <3>2, OrphanMoves
  <2>2. ASSUME NEW o \in Found(Id(c)),
               call' = [call EXCEPT ![c].pc = IF file[o] = 0 THEN "query" ELSE "alive",
                                    ![c].owner = o, ![c].pid = file[o], ![c].filed = TRUE]
        PROVE  OrphanInv'
    <3> DEFINE pc == IF file[o] = 0 THEN "query" ELSE "alive"
    <3>1. o = Id(c) /\ file[o] \in Pids /\ file[o] # NoFile
      BY <1>1, <1>5
    <3>2. pc \in Steps /\ pc \in {"query", "alive"} /\ (pc = "alive" => file[o] # 0)
      BY DEF Steps
    <3>3. call' = [call EXCEPT ![c].pc = pc, ![c].owner = o, ![c].pid = file[o], ![c].filed = TRUE]
      BY <2>2
    <3> HIDE DEF pc
    <3>4. PICK filed \in BOOLEAN : Moves(c, pc, file[o], o, filed)
      <4>1. Moves(c, pc, file[o], o, TRUE)
        BY <1>1, <3>1, <3>2, <3>3, Moving
      <4> QED
        BY <4>1
    <3>5. pc = "alive" => S \subseteq {file[o]}
      BY <1>1, <1>4, <3>1, <3>2
    <3> QED
      BY <1>1, <2>0, <3>1, <3>2, <3>4, <3>5, OrphanMoves
  <2> QED
    BY <1>10, <2>1, <2>2 DEF ReadRunFile
<1>11. CASE QueryPort(c)
  <2>0. /\ \A i \in Projects : ServersOf(i)' = ServersOf(i)
        /\ \A i \in Projects : \A p \in ServersOf(i)' : file'[i] \in {p, 0, NoFile}
    BY <1>6, <1>8, <1>11 DEF QueryPort
  <2>1. CASE Goto(c, "find")
    <3>1. Moves(c, "find", k.pid, k.owner, k.filed)
      BY <1>0, <2>1 DEF Steps
    <3> QED
      BY <1>1, <2>0, <3>1, OrphanMoves
  <2>2. CASE (Goto(c, "clean") \/ NotRunning(c)) /\ ~\E p \in Listening : Answers(p, Id(c))
    <3>1. S = {}
      <4>1. \A p \in S : p \in Listening /\ Answers(p, Id(c))
        BY <1>1, <1>7, <1>11, ConstantsAssumption DEF QueryPort, ServersOf, Answers, SameRepo
      <4> QED
        BY <2>2, <4>1
    <3>2. Ends(c) \/ \E pc \in {"clean", "port"} : Moves(c, pc, k.pid, k.owner, k.filed)
      <4>1. CASE Goto(c, "clean")
        BY <1>0, <4>1 DEF Steps
      <4>2. CASE NotRunning(c)
        BY <1>1, <4>2, AfterStatus
      <4> QED
        BY <2>2, <4>1, <4>2
    <3>3. CASE Ends(c)
      BY <2>0, <3>3, OrphanEnds
    <3>4. ASSUME NEW pc \in {"clean", "port"}, Moves(c, pc, k.pid, k.owner, k.filed) PROVE OrphanInv'
      BY <1>1, <2>0, <3>1, <3>4, OrphanMoves
    <3> QED
      BY <3>2, <3>3, <3>4
  <2> QED
    BY <1>11, <2>1, <2>2 DEF QueryPort
<1>12. CASE FindPid(c)
  <2>1. PICK p \in PidByPort : Running(c, p)
                               /\ file' = IF k.filed /\ p > 0 THEN [file EXCEPT ![k.owner] = p] ELSE file
    BY <1>12 DEF FindPid
  <2>2. \A i \in Projects : ServersOf(i)' = ServersOf(i)
    BY <1>6, <1>12 DEF FindPid
  <2>3. p \in Pids /\ (p # 0 => S \subseteq {p})
    BY <1>1, <1>2, <1>7, <1>12, <2>1 DEF FindPid
  <2>4. \A i \in Projects : \A x \in ServersOf(i)' : file'[i] \in {x, 0, NoFile}
    <3>1. CASE file' = file
      BY <1>4, <2>2, <3>1
    <3>2. CASE p > 0 /\ file' = [file EXCEPT ![Id(c)] = p]
      <4>1. p # 0
        BY <1>1, <1>2, <3>2
      <4> QED
        BY <1>1, <1>4, <2>2, <2>3, <3>2, <4>1
    <3> QED
      BY <1>1, <2>1, <3>1, <3>2
  <2>5. \/ Moves(c, "adopt", p, k.owner, k.filed)
        \/ Moves(c, "kill", p, Id(c), k.filed)
        \/ Ends(c)
    BY <1>1, <2>1, <2>3, AfterStatus
  <2>6. CASE Ends(c)
    BY <2>4, <2>6, OrphanEnds
  <2>7. CASE Moves(c, "adopt", p, k.owner, k.filed)
    BY <1>1, <2>2, <2>3, <2>4, <2>7, OrphanMoves
  <2>8. CASE Moves(c, "kill", p, Id(c), k.filed)
    BY <1>1, <2>4, <2>8, OrphanMoves
  <2> QED
    BY <2>5, <2>6, <2>7, <2>8
<1>13. CASE CheckAlive(c)
  <2>1. /\ S \subseteq {k.pid} /\ \A i \in Projects : ServersOf(i)' = ServersOf(i)
        /\ \A i \in Projects : \A p \in ServersOf(i)' : file'[i] \in {p, 0, NoFile}
    BY <1>3, <1>6, <1>8, <1>13 DEF CheckAlive
  <2>2. CASE ~Alive(k.pid) /\ Goto(c, "clean")
    <3>1. Moves(c, "clean", k.pid, k.owner, k.filed)
      BY <1>0, <2>2 DEF Steps
    <3>2. S = {}
      BY <2>1, <2>2 DEF ServersOf, Alive
    <3> QED
      BY <1>1, <2>1, <3>1, <3>2, OrphanMoves
  <2>3. CASE Running(c, k.pid)
    <3>1. \/ Moves(c, "adopt", k.pid, k.owner, k.filed)
          \/ Moves(c, "kill", k.pid, Id(c), k.filed)
          \/ Ends(c)
      BY <1>1, <2>3, AfterStatus
    <3>2. CASE Ends(c)
      BY <2>1, <3>2, OrphanEnds
    <3>3. CASE Moves(c, "adopt", k.pid, k.owner, k.filed)
      BY <1>1, <2>1, <3>3, OrphanMoves
    <3>4. CASE Moves(c, "kill", k.pid, Id(c), k.filed)
      BY <1>1, <2>1, <3>4, OrphanMoves
    <3> QED
      BY <3>1, <3>2, <3>3, <3>4
  <2> QED
    BY <1>13, <2>2, <2>3 DEF CheckAlive
<1>14. CASE CleanUp(c)
  <2>1. S = {} /\ \A i \in Projects : ServersOf(i)' = ServersOf(i)
    BY <1>3, <1>6, <1>14 DEF CleanUp
  <2>2. \A i \in Projects : file'[i] \in {file[i], NoFile}
    BY <1>14 DEF CleanUp
  <2>3. \A i \in Projects : \A p \in ServersOf(i)' : file'[i] \in {p, 0, NoFile}
    BY <1>4, <2>1, <2>2
  <2>4. Moves(c, "port", k.pid, k.owner, k.filed) \/ Ends(c)
    BY <1>1, <1>14, AfterStatus DEF CleanUp
  <2>5. CASE Ends(c)
    BY <2>3, <2>5, OrphanEnds
  <2>6. CASE Moves(c, "port", k.pid, k.owner, k.filed)
    BY <1>1, <2>1, <2>3, <2>6, OrphanMoves
  <2> QED
    BY <2>4, <2>5, <2>6
<1>15. CASE Adopt(c)
  <2>1. \A i \in Projects : ServersOf(i)' = ServersOf(i)
    BY <1>6, <1>15 DEF Adopt
  <2>2. \A i \in Projects : \A x \in ServersOf(i)' : file'[i] \in {x, 0, NoFile}
    <3>1. CASE UNCHANGED file
      BY <1>4, <2>1, <3>1
    <3>2. ASSUME NEW p \in IF k.pid = 0 THEN PidByPort ELSE {k.pid}, file' = [file EXCEPT ![Id(c)] = p]
          PROVE  \A i \in Projects : \A x \in ServersOf(i)' : file'[i] \in {x, 0, NoFile}
      <4>1. p = 0 \/ S \subseteq {p}
        BY <1>2, <1>3, <1>7, <1>15, <3>2 DEF Adopt
      <4> QED
        BY <1>1, <1>4, <2>1, <3>2, <4>1
    <3> QED
      BY <1>15, <3>1, <3>2 DEF Adopt
  <2> QED
    BY <1>15, <2>2, OrphanEnds DEF Adopt
<1>16. CASE ProbePort(c)
  <2>1. /\ S = {} /\ \A i \in Projects : ServersOf(i)' = ServersOf(i)
        /\ \A i \in Projects : \A p \in ServersOf(i)' : file'[i] \in {p, 0, NoFile}
    BY <1>3, <1>6, <1>8, <1>16 DEF ProbePort
  <2>2. CASE Ends(c)
    BY <2>1, <2>2, OrphanEnds
  <2>3. CASE Goto(c, "spawn")
    <3>1. Moves(c, "spawn", k.pid, k.owner, k.filed)
      BY <1>0, <2>3 DEF Steps
    <3> QED
      BY <1>1, <2>1, <3>1, OrphanMoves
  <2> QED
    BY <1>16, <2>2, <2>3 DEF ProbePort
<1>17. CASE Spawn(c)
  <2> DEFINE q == [serves |-> Id(c), st |-> "starting"]
             n == Len(procs) + 1
  <2>1. procs' = Append(procs, q) /\ q.serves = Id(c) /\ TypeInv'
    BY <1>17, RunType DEF Spawn, Run, Start
  <2> HIDE DEF q
  <2>2. DOMAIN procs' = 1..n /\ procs'[n] = q /\ \A p \in DOMAIN procs : procs'[p] = procs[p]
    BY <1>1, <2>1
  <2>3. \A i \in Projects : i # Id(c) => ServersOf(i)' \subseteq ServersOf(i)
    BY <1>1, <2>1, <2>2 DEF ServersOf
  <2>4. S = {}
    BY <1>3, <1>17 DEF Spawn
  <2>5. \A i \in Projects : i = Id(c) => ServersOf(i)' \subseteq {n}
    BY <1>1, <2>1, <2>2, <2>4 DEF ServersOf
  <2>6. Moves(c, "wait", n, k.owner, k.filed)
    <3>1. call'[c] \in Calls
      BY <2>1 DEF TypeInv, TypeOK
    <3>2. n \in Pids
      BY <1>1, <2>1, <2>2, ConstantsAssumption DEF TypeInv, TypeOK, Pids
    <3> QED
      BY <1>1, <1>17, <3>2, Moving DEF Spawn, Steps
  <2>7. \A i \in Projects : \A p \in ServersOf(i)' : file'[i] \in {p, 0, NoFile}
    BY <1>1, <1>4, <1>17, <2>3 DEF Spawn
  <2> HIDE DEF n
  <2> QED
    BY <1>1, <2>5, <2>6, <2>7, OrphanMoves
<1>18. CASE WaitReady(c)
  <2>1. Moves(c, "check", k.pid, k.owner, k.filed)
    BY <1>0, <1>18 DEF WaitReady, Steps
  <2>2. UNCHANGED <<procs, file>> /\ S \subseteq {k.pid}
    BY <1>3, <1>18 DEF WaitReady
  <2> QED
    BY <1>1, <1>6, <1>8, <2>1, <2>2, OrphanMoves
<1>19. CASE WaitTimesOut(c)
  <2>1. \A i \in Projects : ServersOf(i)' \subseteq ServersOf(i)
    <3>1. CASE Alive(k.pid) /\ Signal(k.pid)
      BY <3>1, SignalStops DEF Alive
    <3>2. CASE UNCHANGED procs
      BY <1>6, <3>2
    <3> QED
      BY <1>19, <3>1, <3>2 DEF WaitTimesOut
  <2>2. \A i \in Projects : \A p \in ServersOf(i)' : file'[i] \in {p, 0, NoFile}
    BY <1>4, <1>19, <2>1 DEF WaitTimesOut
  <2> QED
    BY <1>19, <2>2, OrphanEnds DEF WaitTimesOut
<1>20. CASE CheckExited(c)
  <2>1. /\ S \subseteq {k.pid} /\ \A i \in Projects : ServersOf(i)' = ServersOf(i)
        /\ \A i \in Projects : \A p \in ServersOf(i)' : file'[i] \in {p, 0, NoFile}
    BY <1>3, <1>6, <1>8, <1>20 DEF CheckExited
  <2>2. CASE Goto(c, "save")
    <3>1. Moves(c, "save", k.pid, k.owner, k.filed)
      BY <1>0, <2>2 DEF Steps
    <3> QED
      BY <1>1, <2>1, <3>1, OrphanMoves
  <2>3. CASE Ends(c)
    BY <2>1, <2>3, OrphanEnds
  <2> QED
    BY <1>20, <2>2, <2>3 DEF CheckExited
<1>21. CASE SaveState(c)
  <2>1. file' = [file EXCEPT ![Id(c)] = k.pid] /\ S \subseteq {k.pid} /\ Ends(c) /\ UNCHANGED procs
    BY <1>3, <1>21 DEF SaveState
  <2>2. \A i \in Projects : \A p \in ServersOf(i)' : file'[i] \in {p, 0, NoFile}
    BY <1>1, <1>4, <1>6, <2>1
  <2> QED
    BY <2>1, <2>2, OrphanEnds
<1>22. CASE Kill(c)
  <2>1. PICK p \in IF k.pid = 0 THEN PidByPort ELSE {k.pid} : IF p > 0 THEN Signal(p) ELSE UNCHANGED procs
    BY <1>22 DEF Kill
  <2>2. p \in 0..Len(procs)
    BY <1>1, <1>2, <2>1
  <2>3. \A i \in Projects : ServersOf(i)' \subseteq ServersOf(i)
    <3>1. CASE p > 0
      BY <1>1, <2>1, <2>2, <3>1, SignalStops
    <3>2. CASE ~(p > 0)
      BY <1>6, <2>1, <3>2
    <3> QED
      BY <3>1, <3>2
  <2>4. \A i \in Projects : \A x \in ServersOf(i)' : file'[i] \in {x, 0, NoFile}
    BY <1>4, <1>22, <2>3 DEF Kill
  <2>5. Moves(c, "remove", k.pid, k.owner, k.filed)
    BY <1>0, <1>22 DEF Kill, Steps
  <2> QED
    BY <1>1, <2>4, <2>5, OrphanMoves
<1>23. CASE RemoveState(c)
  <2>1. \A i \in Projects : ServersOf(i)' = ServersOf(i)
    BY <1>6, <1>23 DEF RemoveState
  <2>2. \A i \in Projects : file'[i] \in {file[i], NoFile}
    BY <1>1, <1>23 DEF RemoveState
  <2>3. \A i \in Projects : \A p \in ServersOf(i)' : file'[i] \in {p, 0, NoFile}
    BY <1>4, <2>1, <2>2
  <2> QED
    BY <1>23, <2>3, OrphanEnds DEF RemoveState
<1> QED
  BY <1>9, <1>10, <1>11, <1>12, <1>13, <1>14, <1>15, <1>16, <1>17, <1>18, <1>19, <1>20, <1>21, <1>22, <1>23
     DEF Run, Status, Start, Stop

LEMMA OrphansAreInvariant == ASSUME Orphans PROVE Spec => [](TypeInv /\ PortInv /\ OrphanInv)
<1>1. Init => OrphanInv
  <2> SUFFICES ASSUME Init PROVE OrphanInv
    OBVIOUS
  <2>1. \A i \in Projects : ServersOf(i) = {}
    BY DEF Init, ServersOf
  <2>2. Idle.pc = "idle" /\ Idle.owner = Idle.id
    BY DEF Idle
  <2>3. \A c \in Callers : call[c] = Idle
    BY DEF Init
  <2> QED
    BY <2>1, <2>2, <2>3 DEF OrphanInv, FileInv, LookupInv, Id
<1>2. TypeInv /\ RunFileInv /\ OrphanInv /\ [Next]_vars => OrphanInv'
  <2> SUFFICES ASSUME TypeInv, RunFileInv, OrphanInv, [Next]_vars PROVE OrphanInv'
    OBVIOUS
  <2>1. CASE Machine
    BY <2>1, MachineOrphans
  <2>2. ASSUME NEW c \in Callers, Begin(c) \/ Run(c) \/ Crash(c) PROVE OrphanInv'
    <3>1. ~Crash(c)
      BY DEF Crash, Mishap, Fails, Orphans, Named, OneTerminal
    <3> QED
      BY <2>2, <3>1, BeginOrphans, RunOrphans DEF RunFileInv
  <2>3. CASE UNCHANGED vars
    <3>1. \A i \in Projects : ServersOf(i)' = ServersOf(i)
      BY <2>3 DEF vars, ServersOf
    <3>2. \A c \in Callers : Id(c) \in Projects
      BY DEF TypeInv, TypeOK, Calls, Id
    <3> QED
      BY <2>3, <3>1, <3>2 DEF vars, OrphanInv, FileInv, LookupInv, Id
  <2> QED
    BY <2>1, <2>2, <2>3 DEF Next
<1>3. Spec => [](TypeInv /\ RunFileInv)
  BY RunFilesAreInvariant DEF Orphans
<1>4. RunFileInv => PortInv
  BY DEF RunFileInv
<1> QED
  BY <1>1, <1>2, <1>3, <1>4, PTL DEF Spec

\* With one terminal a start never gives up before the port because of the
\* server of its own checkout: it has adopted that, or none runs.  So it is for
\* checkouts whose run files get lost, unless another program takes the port,
\* and beside such programs, unless a run file gets lost.
THEOREM NeverBlocksItself == ASSUME Kept \/ Orphans PROVE Spec => []PortInUseByOthers
<1>1. CASE Kept
  <2>1. KeepInv => PortInUseByOthers
    BY DEF KeepInv, CommandInv, ServersOf, PortInUseByOthers, At
  <2> QED
    BY <1>1, <2>1, KeepIsInvariant, PTL
<1>2. CASE Orphans
  <2>1. OrphanInv => PortInUseByOthers
    BY DEF OrphanInv, LookupInv, ServersOf, PortInUseByOthers, At
  <2> QED
    BY <1>2, <2>1, OrphansAreInvariant, PTL
<1> QED
  BY <1>1, <1>2
=============================================================================
