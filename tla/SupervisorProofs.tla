------------------------- MODULE SupervisorProofs ---------------------------
(***************************************************************************)
(* Theorems about Supervisor, for every set of pids, models and clients.   *)
(***************************************************************************)
EXTENDS SupervisorInvariant, TLAPS

(* The labels by name, so that the proofs need not expand the sets.        *)
LEMMA LabelNames ==
    /\ {"idle", "start_lock", "stop_lock", "start_pid", "reset"} \subseteq Labels
    /\ StopLabels \subseteq Labels /\ SpawnLabels \subseteq Labels
    /\ PollLabels \subseteq Labels /\ MainLabels \subseteq Labels
    /\ {"kill_read", "kill_term", "kill_wait", "kill_kill", "kill_clear"} \subseteq Labels
    /\ {"spawn_begin", "spawn_exec", "spawn_failed", "spawn_pid"} \subseteq Labels
    /\ {"tick", "health", "verdict", "flag", "want", "restart_lock"} \subseteq Labels
    /\ {"reap", "bind", "serve", "drain", "leave", "exit", "down"} \subseteq Labels
  BY DEF Labels, Section, StopLabels, SpawnLabels, PollLabels, MainLabels

LEMMA GotoType ==
  ASSUME CallType, NEW a \in Actors, NEW label \in Labels, Goto(a, label)
  PROVE  pc' \in [Actors -> Labels]
  BY DEF CallType, Goto

LEMMA ReturnType ==
  ASSUME CallType, NEW a \in Actors, NEW label \in Labels, Return(a, label)
  PROVE  CallType'
  BY GotoType DEF CallType, Return

LEMMA RestType == ASSUME NEW a \in Actors PROVE Rest(a) \in Labels
  BY LabelNames DEF Rest

LEMMA SignalType ==
  ASSUME HostType, NEW p, NEW sig, Signal(p, sig), UNCHANGED waiters
  PROVE  HostType'
<1>1. proc' \in [Pids -> Phases]
  BY DEF HostType, Signal, Phases
<1>2. image' \in [Pids -> Models \union {NoModel}]
  BY DEF HostType, Signal
<1> QED
  BY <1>1, <1>2 DEF HostType

(* What a signal does, process by process.                                 *)
LEMMA SignalEffect ==
  ASSUME HostType, NEW p \in Pids, NEW sig \in {"TERM", "KILL"}, Signal(p, sig)
  PROVE  /\ \A q \in Pids : q # p => proc'[q] = proc[q] /\ image'[q] = image[q]
         /\ proc[p] = "other" => proc'[p] = "free"
         /\ sig = "TERM" /\ proc[p] # "other" => proc'[p] = proc[p] /\ image'[p] = image[p]
         /\ sig = "KILL" /\ Live(p) => proc'[p] = "killed"
         /\ ~Live(p) /\ proc[p] # "other" => proc'[p] = proc[p]
<1>1. proc' = [proc EXCEPT ![p] = proc'[p]] /\ image' = [image EXCEPT ![p] = image'[p]]
  BY DEF HostType, Signal
<1>2. CASE proc[p] = "other"
  BY <1>1, <1>2 DEF HostType, Signal, Live
<1>3. CASE ~Live(p) /\ proc[p] # "other"
  BY <1>1, <1>3 DEF HostType, Signal
<1>4. CASE Live(p) /\ sig = "TERM"
  BY <1>1, <1>4 DEF HostType, Signal, Live
<1>5. CASE Live(p) /\ sig = "KILL"
  BY <1>1, <1>5 DEF HostType, Signal, Live
<1> QED
  BY <1>2, <1>3, <1>4, <1>5

LEMMA ZeroRestarts == 0 \in 0 .. RestartModulus - 1
  BY BoundAssumption

LEMMA DaemonGoneType ==
  ASSUME TypeOK, NEW label \in Labels, DaemonGone(label)
  PROVE  TypeOK'
<1>1. WorkerType'
  BY ZeroRestarts DEF DaemonGone, FreshWorker, WorkerType, Statuses
<1>2. HostType'
  BY DEF DaemonGone, TypeOK, HostType, Phases
<1>3. CallType'
  BY RestType DEF DaemonGone, TypeOK, CallType
<1> QED
  BY <1>1, <1>2, <1>3 DEF DaemonGone, TypeOK

LEMMA TypeInit == Init => TypeOK /\ ChildKnown
<1> SUFFICES ASSUME Init PROVE TypeOK /\ ChildKnown
  OBVIOUS
<1>1. WorkerType
  BY ZeroRestarts DEF Init, WorkerType, Statuses
<1>2. HostType
  BY DEF Init, HostType, Phases
<1>3. CallType
  BY LabelNames, RestType DEF Init, CallType
<1>4. ChildKnown
  BY DEF Init, ChildKnown, Rest
<1> QED
  BY <1>1, <1>2, <1>3, <1>4 DEF Init, TypeOK

LEMMA TypeNext == TypeOK /\ ChildKnown /\ [Next]_vars => TypeOK'
<1> SUFFICES ASSUME TypeOK, ChildKnown, [Next]_vars PROVE TypeOK'
  OBVIOUS
<1> USE LabelNames, RestType, GotoType, ReturnType DEF TypeOK
<1> USE DEF worker, host, tasks, vars
<1>1. ASSUME NEW a \in Actors, SpawnStep(a) PROVE TypeOK'
  <2> USE DEF CallType, HostType, WorkerType
  <2>1. CASE SpawnBegin(a)
    <3>1. CallType'
      BY <2>1 DEF SpawnBegin
    <3>2. WorkerType'
      <4>1. CASE AlreadyActive(arg[a])
        BY <2>1, <4>1 DEF SpawnBegin
      <4>2. CASE ~AlreadyActive(arg[a])
        <5>1. /\ status' = "Starting" /\ model_id' = arg[a] /\ grace' = TRUE /\ stopping' = FALSE
              /\ UNCHANGED <<pid, restarts, cooling>>
          BY <2>1, <4>2 DEF SpawnBegin, Begin
        <5> QED
          BY <5>1 DEF Statuses
      <4> QED
        BY <4>1, <4>2
    <3> QED
      BY <2>1, <3>1, <3>2 DEF SpawnBegin
  <2>2. CASE SpawnNoLog(a)
    BY <2>2 DEF SpawnNoLog
  <2>3. CASE SpawnFails(a)
    BY <2>3 DEF SpawnFails
  <2>4. CASE SpawnFailed(a)
    BY <2>4 DEF SpawnFailed, Statuses
  <2>5. CASE SpawnExec(a)
    BY <2>5 DEF SpawnExec, Phases
  <2>6. CASE SpawnPid(a)
    <3>1. CallType'
      BY <2>6 DEF SpawnPid
    <3>2. myPid[a] \in Pids
      BY <2>6 DEF SpawnPid, ChildKnown
    <3> QED
      BY <2>6, <3>1, <3>2 DEF SpawnPid
  <2> QED
    BY <1>1, <2>1, <2>2, <2>3, <2>4, <2>5, <2>6 DEF SpawnStep
<1>2. ASSUME NEW a \in Actors, KillStep(a) PROVE TypeOK'
  <2> USE DEF CallType, HostType, WorkerType
  <2>1. CASE KillRead(a)
    BY <2>1 DEF KillRead
  <2>2. CASE KillTerm(a)
    <3>1. HostType'
      BY <2>2, SignalType DEF KillTerm
    <3>2. CallType'
      BY <2>2 DEF KillTerm
    <3> QED
      BY <2>2, <3>1, <3>2 DEF KillTerm
  <2>3. CASE KillWait(a)
    BY <2>3 DEF KillWait, AfterWait
  <2>4. CASE KillKill(a)
    <3>1. HostType'
      BY <2>4, SignalType DEF KillKill
    <3>2. CallType'
      BY <2>4 DEF KillKill
    <3> QED
      BY <2>4, <3>1, <3>2 DEF KillKill
  <2>5. CASE KillClear(a)
    <3>1. CallType'
      BY <2>5 DEF KillClear
    <3> QED
      BY <2>5, <3>1 DEF KillClear, Statuses
  <2> QED
    BY <1>2, <2>1, <2>2, <2>3, <2>4, <2>5 DEF KillStep
<1>3. ASSUME NEW c \in Clients, StartPid(c) \/ ResetRestarts(c) \/ StartLock(c)
      PROVE  TypeOK'
  <2>1. c \in Actors
    BY DEF Actors
  <2>2. CASE StartPid(c)
    BY <2>1, <2>2 DEF StartPid, CallType, HostType, WorkerType
  <2>3. CASE ResetRestarts(c)
    BY <2>1, <2>3, BoundAssumption DEF ResetRestarts, CallType, HostType, WorkerType
  <2>4. CASE StartLock(c)
    <3>1. CallType'
      BY <2>1, <2>4 DEF StartLock, Acquire, CallType
    <3> QED
      BY <2>4, <3>1 DEF StartLock, HostType, WorkerType
  <2> QED
    BY <1>3, <2>2, <2>3, <2>4
<1>4. ASSUME PollStep \/ RestartLock PROVE TypeOK'
  <2>1. Poller \in Actors
    BY DEF Actors
  <2> USE DEF CallType, HostType, WorkerType
  <2>2. CASE PollTick \/ RestartFlag
    BY <2>1, <2>2 DEF PollTick, RestartFlag
  <2>3. CASE PollHealth
    BY <2>1, <2>3 DEF PollHealth
  <2>4. CASE PollVerdict
    BY <2>1, <2>4 DEF PollVerdict, VerdictStatus, Statuses
  <2>5. CASE RestartWant
    BY <2>1, <2>5 DEF RestartWant
  <2>6. CASE RestartLock
    <3>1. CallType'
      BY <2>1, <2>6 DEF RestartLock, Acquire
    <3>2. (restarts + 1) % RestartModulus \in 0 .. RestartModulus - 1
      BY BoundAssumption
    <3>3. WorkerType'
      <4>1. /\ restarts' \in {(restarts + 1) % RestartModulus, restarts}
            /\ cooling' \in {TRUE, cooling} /\ UNCHANGED <<model_id, pid, status, stopping, grace>>
        BY <2>6 DEF RestartLock
      <4> QED
        BY <3>2, <4>1
    <3> QED
      BY <2>6, <3>1, <3>3 DEF RestartLock
  <2> QED
    BY <1>4, <2>2, <2>3, <2>4, <2>5, <2>6 DEF PollStep
<1>5. ASSUME MainStep \/ Terminate \/ BootSpawnError \/ Crash \/ Restart PROVE TypeOK'
  <2>1. Main \in Actors
    BY DEF Actors
  <2>2. CASE Reap
    BY <2>1, <2>2 DEF Reap, CallType, HostType, WorkerType, Phases
  <2>3. CASE Bind \/ Drained \/ Terminate \/ Restart
    <3>1. /\ \E label \in {"serve", "stop_lock", "drain", "reap"} : Goto(Main, label)
          /\ UNCHANGED <<worker, host, arg, myPid, verdict, lifecycle>>
          /\ shutting_down' \in {TRUE, shutting_down}
      BY <2>3 DEF Bind, Drained, Terminate, Restart
    <3>2. CallType'
      BY <2>1, <3>1 DEF CallType
    <3> QED
      BY <3>1, <3>2 DEF HostType, WorkerType
  <2>4. CASE Leave \/ BootSpawnError \/ Crash
    BY <2>4, DaemonGoneType DEF Leave, BootSpawnError, Crash
  <2> QED
    BY <1>5, <2>2, <2>3, <2>4 DEF MainStep
<1>6. ASSUME NEW a \in Actors, StopLock(a) PROVE TypeOK'
  BY <1>6 DEF StopLock, Acquire, CallType, HostType, WorkerType
<1>7. ASSUME NEW c \in Clients, Request(c) \/ Disconnect(c) PROVE TypeOK'
  <2>1. c \in Actors
    BY DEF Actors
  <2>2. CASE Request(c)
    BY <2>1, <2>2 DEF Request, CallType, HostType, WorkerType
  <2>3. CASE Disconnect(c)
    BY <2>1, <2>3 DEF Disconnect, HostType, WorkerType
  <2> QED
    BY <1>7, <2>2, <2>3
<1>8. ASSUME NEW p \in Pids, HostStep(p) PROVE TypeOK'
  <2> USE DEF CallType, HostType, WorkerType, Phases
  <2>1. CASE WaitTask(p)
    BY <2>1 DEF WaitTask, Statuses
  <2>2. CASE Load(p) \/ OtherProcess(p)
    BY <2>2 DEF Load, OtherProcess
  <2>3. CASE ProcessExit(p)
    BY <2>3 DEF ProcessExit
  <2> QED
    BY <1>8, <2>1, <2>2, <2>3 DEF HostStep
<1>9. CASE CoolDown \/ GraceOver
  <2>1. CASE CoolDown
    BY <2>1 DEF CoolDown, CallType, HostType, WorkerType
  <2>2. CASE GraceOver
    BY <2>2 DEF GraceOver, CallType, HostType, WorkerType
  <2> QED
    BY <1>9, <2>1, <2>2
<1>10. CASE UNCHANGED vars
  BY <1>10 DEF CallType, HostType, WorkerType
<1> QED
  BY <1>1, <1>2, <1>3, <1>4, <1>5, <1>6, <1>7, <1>8, <1>9, <1>10
  DEF Next, TaskStep, LockStep

LEMMA ChildNext == TypeOK /\ ChildKnown /\ [Next]_vars => ChildKnown'
<1> SUFFICES ASSUME TypeOK, ChildKnown, [Next]_vars, NEW b \in Actors, pc'[b] = "spawn_pid"
             PROVE  myPid'[b] \in Pids
  BY DEF ChildKnown
<1> USE DEF TypeOK, CallType, ChildKnown, Goto, Return, Rest, vars, tasks
<1>1. ASSUME NEW a \in Actors, SpawnStep(a) PROVE myPid'[b] \in Pids
  BY <1>1 DEF SpawnStep, SpawnBegin, SpawnNoLog, SpawnFails, SpawnFailed, SpawnExec, SpawnPid
<1>2. ASSUME NEW a \in Actors, KillStep(a) PROVE myPid'[b] \in Pids
  BY <1>2 DEF KillStep, KillRead, KillTerm, KillWait, AfterWait, KillKill, KillClear
<1>3. ASSUME NEW c \in Clients, StartPid(c) \/ ResetRestarts(c) \/ StartLock(c)
      PROVE  myPid'[b] \in Pids
  BY <1>3 DEF Actors, StartPid, ResetRestarts, StartLock
<1>4. ASSUME PollStep \/ RestartLock PROVE myPid'[b] \in Pids
  BY <1>4 DEF Actors, PollStep, PollTick, PollHealth, PollVerdict, RestartFlag, RestartWant,
              RestartLock
<1>5. ASSUME MainStep \/ Terminate \/ BootSpawnError \/ Crash \/ Restart
      PROVE  myPid'[b] \in Pids
  BY <1>5 DEF Actors, MainStep, Reap, Bind, Drained, Leave, Terminate, BootSpawnError, Crash,
              Restart, DaemonGone
<1>6. ASSUME NEW a \in Actors, StopLock(a) PROVE myPid'[b] \in Pids
  BY <1>6 DEF StopLock
<1>7. ASSUME NEW c \in Clients, Request(c) \/ Disconnect(c) PROVE myPid'[b] \in Pids
  BY <1>7 DEF Actors, Request, Disconnect
<1>8. ASSUME NEW p \in Pids, HostStep(p) PROVE myPid'[b] \in Pids
  BY <1>8 DEF HostStep, WaitTask, Load, ProcessExit, OtherProcess
<1>9. CASE CoolDown \/ GraceOver \/ UNCHANGED vars
  BY <1>9 DEF CoolDown, GraceOver
<1> QED
  BY <1>1, <1>2, <1>3, <1>4, <1>5, <1>6, <1>7, <1>8, <1>9
  DEF Next, TaskStep, LockStep

(* The variables keep their types: among them the u8 restart counter, the  *)
(* labels of every task and the holder of the lifecycle mutex.             *)
THEOREM TypeCorrect == Spec => []TypeOK
<1>1. TypeOK /\ ChildKnown /\ [Next]_vars => TypeOK' /\ ChildKnown'
  BY TypeNext, ChildNext
<1> QED
  BY TypeInit, <1>1, PTL DEF Spec

-----------------------------------------------------------------------------
(* Mutual exclusion: two actors are never inside the section together, and *)
(* nobody is inside it while the daemon is down.                           *)
LEMMA SectionUnique ==
  ASSUME TypeOK, Holding, Quiet, NEW a \in Actors, NEW b \in Actors,
         pc[a] \in Section, pc[b] \in Section
  PROVE  a = b
  BY ActorsAssumption
  DEF TypeOK, CallType, Holding, Quiet, Section, StopLabels, SpawnLabels, Actors

LEMMA SectionRunning ==
  ASSUME TypeOK, Quiet, OwnLabels, NEW a \in Actors, pc[a] \in Section
  PROVE  Running
  BY ActorsAssumption
  DEF TypeOK, CallType, OwnLabels, Quiet, Section, StopLabels, SpawnLabels, Actors,
      MainLabels, PollLabels, Running, DaemonUp

LEMMA IInvInit == Init => IInv
<1> SUFFICES ASSUME Init PROVE IInv
  OBVIOUS
<1>1. /\ pc[Main] = "reap" /\ pc[Poller] = "tick"
      /\ \A c \in Clients : pc[c] = "idle"
      /\ \A a \in Actors : pc[a] \in {"reap", "tick", "idle"} /\ arg[a] = NoModel
      /\ Main \in Actors /\ Poller \in Actors
  BY ActorsAssumption DEF Init, Rest, Actors
<1>2. pid = NoPid /\ model_id = NoModel /\ waiters = {} /\ lifecycle = NoActor
  BY DEF Init
<1>3. TypeOK
  BY TypeInit
<1>4. OwnLabels
  BY <1>1 DEF OwnLabels, MainLabels, PollLabels
<1>5. \A a \in Actors : pc[a] \notin Section
  BY <1>1 DEF Section, StopLabels, SpawnLabels
<1>6. Holding /\ Quiet
  BY <1>1, <1>2, <1>5 DEF Holding, Quiet
<1>7. Arguments
  BY <1>1, <1>5 DEF Arguments, Section
<1>8. Recorded
  BY <1>2 DEF Recorded
<1>9. \A a \in Actors : Knows(a)
  BY <1>1 DEF Knows, SpawnLabels
<1>10. NoOrphan /\ StoppedEmpty /\ NoOrphanAtExit
  BY <1>1 DEF NoOrphan, StoppedEmpty, NoOrphanAtExit, Running
<1>11. Ending
  BY <1>1 DEF Ending, StopLabels
<1> QED
  BY <1>3, <1>4, <1>6, <1>7, <1>8, <1>9, <1>10, <1>11 DEF IInv

-----------------------------------------------------------------------------
(* Without any assumption on hang-ups: the section and what it knows.      *)
LEMMA CoreInit == Init => CoreInv
<1> SUFFICES ASSUME Init PROVE CoreInv
  OBVIOUS
<1>1. IInv
  BY IInvInit
<1>2. \A a \in Actors : pc[a] \in {"reap", "tick", "idle"}
  BY ActorsAssumption DEF Init, Rest, Actors
<1>3. \A a \in Actors : Grips(a)
  BY <1>2 DEF Grips, SpawnLabels
<1> QED
  BY <1>1, <1>3 DEF IInv, CoreInv

LEMMA CoreNext ==
  ASSUME CoreInv, [Next]_vars
  PROVE  CoreInv'
<1>1. TypeOK'
  BY TypeNext DEF CoreInv, Grips, ChildKnown
<1> USE ActorsAssumption, NullAssumption
    DEF CoreInv, TypeOK, CallType, HostType, WorkerType, Statuses, Phases,
        OwnLabels, Holding, Quiet, Arguments, Recorded, Grips, Live, Running, DaemonUp, Booting,
        Actors, Section, StopLabels, SpawnLabels, PollLabels, MainLabels,
        Goto, Return, Rest, worker, host, tasks, vars
<1>2. ASSUME NEW a \in Actors, SpawnStep(a) PROVE CoreInv'
  <2>1. CASE SpawnBegin(a)
    BY <1>1, <2>1 DEF SpawnBegin, Begin, AlreadyActive
  <2>2. CASE SpawnNoLog(a)
    BY <1>1, <2>2 DEF SpawnNoLog
  <2>3. CASE SpawnFails(a)
    BY <1>1, <2>3 DEF SpawnFails
  <2>4. CASE SpawnFailed(a)
    BY <1>1, <2>4 DEF SpawnFailed
  <2>5. CASE SpawnExec(a)
    BY <1>1, <2>5 DEF SpawnExec
  <2>6. CASE SpawnPid(a)
    BY <1>1, <2>6 DEF SpawnPid
  <2> HIDE DEF CoreInv
  <2> QED
    BY <1>2, <2>1, <2>2, <2>3, <2>4, <2>5, <2>6 DEF SpawnStep
<1>3. ASSUME NEW a \in Actors, KillStep(a) PROVE CoreInv'
  <2>1. CASE KillRead(a)
    BY <1>1, <2>1 DEF KillRead
  <2>2. CASE KillTerm(a)
    <3> HIDE DEF CoreInv, HostType
    <3>1. HostType /\ myPid[a] \in Pids
      BY <2>2 DEF CoreInv, KillTerm
    <3>2. /\ \A q \in Pids : proc[q] # "other" => proc'[q] = proc[q]
          /\ \A q \in Pids : proc[q] # "other" => image'[q] = image[q]
          /\ \A q \in Pids : proc[q] = "other" => proc'[q] \in {"other", "free"}
      BY <2>2, <3>1, SignalEffect DEF KillTerm
    <3> QED
      BY <1>1, <2>2, <3>2 DEF KillTerm, CoreInv, HostType
  <2>3. CASE KillWait(a)
    <3>1. CASE PidAlive(myPid[a])
      BY <1>1, <2>3, <3>1 DEF KillWait, AfterWait
    <3>2. CASE ~PidAlive(myPid[a])
      <4>1. pid = NoPid \/ ~Live(pid)
        BY <2>3, <3>2 DEF KillWait, PidAlive
      <4> QED
        BY <1>1, <2>3, <3>2, <4>1 DEF KillWait, AfterWait
    <3> HIDE DEF CoreInv
    <3> QED
      BY <3>1, <3>2
  <2>4. CASE KillKill(a)
    <3> HIDE DEF CoreInv, HostType
    <3>1. HostType /\ myPid[a] \in Pids
      BY <2>4 DEF CoreInv, KillKill
    <3>2. /\ \A q \in Pids : \/ proc'[q] = proc[q]
                             \/ proc[q] = "other" /\ proc'[q] = "free"
                             \/ Live(q) /\ proc'[q] = "killed"
          /\ ~Live(myPid[a])'
          /\ \A q \in Pids : Live(q)' => image'[q] = image[q]
      BY <2>4, <3>1, SignalEffect DEF KillKill
    <3> QED
      BY <1>1, <2>4, <3>2 DEF KillKill, CoreInv, HostType
  <2>5. CASE KillClear(a)
    BY <1>1, <2>5 DEF KillClear
  <2> HIDE DEF CoreInv
  <2> QED
    BY <1>3, <2>1, <2>2, <2>3, <2>4, <2>5 DEF KillStep
<1>4. ASSUME NEW c \in Clients, StartPid(c) \/ ResetRestarts(c) \/ StartLock(c)
      PROVE  CoreInv'
  <2>1. CASE StartPid(c)
    BY <1>1, <2>1 DEF StartPid, StopBeforeStart
  <2>2. CASE ResetRestarts(c)
    BY <1>1, <2>2 DEF ResetRestarts
  <2>3. CASE StartLock(c)
    BY <1>1, <2>3 DEF StartLock, Acquire, AlreadyActive
  <2> HIDE DEF CoreInv
  <2> QED
    BY <1>4, <2>1, <2>2, <2>3
<1>5. ASSUME NEW a \in Actors, StopLock(a) PROVE CoreInv'
  BY <1>1, <1>5 DEF StopLock, Acquire
<1>6. ASSUME PollStep \/ RestartLock PROVE CoreInv'
  <2>1. CASE PollTick
    BY <1>1, <2>1 DEF PollTick
  <2>2. CASE PollHealth
    BY <1>1, <2>2 DEF PollHealth
  <2>3. CASE PollVerdict
    BY <1>1, <2>3 DEF PollVerdict, VerdictStatus
  <2>4. CASE RestartFlag
    BY <1>1, <2>4 DEF RestartFlag
  <2>5. CASE RestartWant
    BY <1>1, <2>5 DEF RestartWant, RestartWanted
  <2>6. CASE RestartLock
    BY <1>1, <2>6 DEF RestartLock, Acquire
  <2> HIDE DEF CoreInv
  <2> QED
    BY <1>6, <2>1, <2>2, <2>3, <2>4, <2>5, <2>6 DEF PollStep
<1>7. ASSUME NEW c \in Clients, Request(c) PROVE CoreInv'
  BY <1>1, <1>7 DEF Request
<1>8. ASSUME NEW c \in Clients, Disconnect(c) PROVE CoreInv'
  BY <1>1, <1>8 DEF Disconnect
<1>9. ASSUME MainStep \/ Terminate \/ Restart PROVE CoreInv'
  <2>1. CASE Reap
    BY <1>1, <2>1 DEF Reap
  <2>2. CASE Bind
    BY <1>1, <2>2 DEF Bind
  <2>3. CASE Drained
    BY <1>1, <2>3 DEF Drained
  <2>4. CASE Leave
    BY <1>1, <2>4 DEF Leave, DaemonGone, FreshWorker
  <2>5. CASE Terminate
    BY <1>1, <2>5 DEF Terminate
  <2>6. CASE Restart
    BY <1>1, <2>6 DEF Restart
  <2> HIDE DEF CoreInv
  <2> QED
    BY <1>9, <2>1, <2>2, <2>3, <2>4, <2>5, <2>6 DEF MainStep
<1>10. ASSUME BootSpawnError \/ Crash PROVE CoreInv'
  BY <1>1, <1>10 DEF BootSpawnError, Crash, DaemonGone, FreshWorker
<1>11. ASSUME NEW p \in Pids, HostStep(p) PROVE CoreInv'
  <2>1. CASE WaitTask(p)
    BY <1>1, <2>1 DEF WaitTask, StillOurs
  <2>2. CASE Load(p)
    BY <1>1, <2>2 DEF Load
  <2>3. CASE ProcessExit(p)
    BY <1>1, <2>3 DEF ProcessExit, PidAlive, Child
  <2>4. CASE OtherProcess(p)
    BY <1>1, <2>4 DEF OtherProcess
  <2> HIDE DEF CoreInv
  <2> QED
    BY <1>11, <2>1, <2>2, <2>3, <2>4 DEF HostStep
<1>12. CASE CoolDown \/ GraceOver \/ UNCHANGED vars
  BY <1>1, <1>12 DEF CoolDown, GraceOver
<1> HIDE DEF CoreInv, vars
<1> QED
  BY <1>2, <1>3, <1>4, <1>5, <1>6, <1>7, <1>8, <1>9, <1>10, <1>11, <1>12
  DEF Next, TaskStep, LockStep

(* What holds wherever clients hang up, in every reachable state.          *)
THEOREM CoreInvariance == Spec => []CoreInv
  BY CoreInit, CoreNext, PTL DEF Spec

(* The lifecycle mutex does its work: never two actors stop and spawn.     *)
THEOREM SectionExclusive == Spec => []OneInSection
<1>1. CoreInv => OneInSection
  BY SectionUnique DEF CoreInv, OneInSection
<1> QED
  BY CoreInvariance, <1>1, PTL

(* The model in the state is the one the recorded worker was started with, *)
(* wherever clients hang up.                                               *)
THEOREM ReportedModelIsTrue == Spec => []ReportedModelRuns
<1>1. CoreInv => ReportedModelRuns
  BY DEF CoreInv, Recorded, ReportedModelRuns
<1> QED
  BY CoreInvariance, <1>1, PTL

(* A recorded worker that lives stays recorded as long as the daemon runs. *)
LEMMA RecordStays ==
  ASSUME CoreInv, [Next]_vars, NEW p \in Pids, p = pid, Live(p), Running'
  PROVE  pid' = p
<1> USE NullAssumption DEF worker, vars
<1>1. ASSUME NEW a \in Actors, SpawnStep(a) PROVE pid' = p
  BY <1>1 DEF SpawnStep, SpawnBegin, Begin, SpawnNoLog, SpawnFails, SpawnFailed, SpawnExec,
              SpawnPid, CoreInv, Grips, SpawnLabels
<1>2. ASSUME NEW a \in Actors, KillStep(a) PROVE pid' = p
  BY <1>2 DEF KillStep, KillRead, KillTerm, KillWait, KillKill, KillClear, CoreInv, Grips
<1>3. ASSUME NEW c \in Clients, \/ StartPid(c) \/ ResetRestarts(c) \/ StartLock(c)
                                \/ Request(c) \/ Disconnect(c)
      PROVE  pid' = p
  BY <1>3 DEF StartPid, ResetRestarts, StartLock, Request, Disconnect
<1>4. ASSUME NEW a \in Actors, StopLock(a) PROVE pid' = p
  BY <1>4 DEF StopLock
<1>5. PollStep \/ RestartLock => pid' = p
  BY DEF PollStep, PollTick, PollHealth, PollVerdict, RestartFlag, RestartWant, RestartLock
<1>6. Reap \/ Bind \/ Drained \/ Terminate \/ Restart => pid' = p
  BY DEF Reap, Bind, Drained, Terminate, Restart
<1>7. ~(Leave \/ BootSpawnError \/ Crash)
  BY DEF Leave, BootSpawnError, Crash, DaemonGone, Running, DaemonUp, Actors
<1>8. ASSUME NEW q \in Pids, HostStep(q) PROVE pid' = p
  BY <1>8 DEF HostStep, WaitTask, StillOurs, Load, ProcessExit, OtherProcess, Live
<1>9. CoolDown \/ GraceOver \/ UNCHANGED vars => pid' = p
  BY DEF CoolDown, GraceOver
<1> QED
  BY <1>1, <1>2, <1>3, <1>4, <1>5, <1>6, <1>7, <1>8, <1>9
  DEF Next, TaskStep, LockStep, MainStep

(* A child not yet recorded stays with its spawner, is recorded, or is     *)
(* left behind by a client that hangs up.                                  *)
LEMMA ChildStays ==
  ASSUME CoreInv, [Next]_vars, NEW b \in Actors, pc[b] = "spawn_pid", Running, Running'
  PROVE  \/ pc'[b] = "spawn_pid" /\ myPid'[b] = myPid[b]
         \/ pid' = myPid[b]
         \/ b \in Clients /\ pc'[b] = "idle"
<1> DEFINE Stays == pc'[b] = "spawn_pid" /\ myPid'[b] = myPid[b]
<1>t. /\ pc \in [Actors -> Labels] /\ myPid \in [Actors -> Pids \union {NoPid}]
      /\ Clients \subseteq Actors /\ Poller \in Actors /\ Main \in Actors
  BY DEF CoreInv, TypeOK, CallType, Actors
<1> USE <1>t DEF Goto, Return, tasks, vars
<1>1. ASSUME NEW a \in Actors, SpawnStep(a) PROVE Stays \/ pid' = myPid[b]
  BY <1>1 DEF SpawnStep, SpawnBegin, SpawnNoLog, SpawnFails, SpawnFailed, SpawnExec, SpawnPid
<1>2. ASSUME NEW a \in Actors, KillStep(a) \/ StopLock(a) PROVE Stays
  BY <1>2 DEF KillStep, KillRead, KillTerm, KillWait, KillKill, KillClear, StopLock
<1>3. ASSUME NEW c \in Clients, StartPid(c) \/ ResetRestarts(c) \/ StartLock(c) \/ Request(c)
      PROVE  Stays
  BY <1>3 DEF StartPid, ResetRestarts, StartLock, Request
<1>4. ASSUME NEW c \in Clients, Disconnect(c)
      PROVE  Stays \/ (b \in Clients /\ pc'[b] = "idle")
  BY <1>4 DEF Disconnect
<1>5. PollStep \/ RestartLock => Stays
  BY DEF PollStep, PollTick, PollHealth, PollVerdict, RestartFlag, RestartWant, RestartLock
<1>6. Bind \/ Drained \/ Terminate => Stays
  BY DEF Bind, Drained, Terminate
<1>7. ~(Reap \/ Restart \/ Leave \/ BootSpawnError \/ Crash)
  BY DEF Reap, Restart, Leave, BootSpawnError, Crash, DaemonGone, Running, DaemonUp
<1>8. ASSUME NEW q \in Pids, HostStep(q) PROVE Stays
  BY <1>8 DEF HostStep, WaitTask, Load, ProcessExit, OtherProcess
<1>9. CoolDown \/ GraceOver \/ UNCHANGED vars => Stays
  BY DEF CoolDown, GraceOver
<1> QED
  BY <1>1, <1>2, <1>3, <1>4, <1>5, <1>6, <1>7, <1>8, <1>9
  DEF Next, TaskStep, LockStep, MainStep

(* supervisor.rs:140-156: only a hang-up before the pid is recorded puts a *)
(* worker that runs out of reach, whatever else happens.                   *)
THEOREM OnlyHangUpsLose == Spec => LostOnlyByHangUp
<1>1. ASSUME CoreInv, [Next]_vars, NEW p \in Pids, Running, Live(p), InReach(p),
             Running', ~InReach(p)'
      PROVE  \E c \in Clients : pc[c] = "spawn_pid" /\ myPid[c] = p /\ pc'[c] = "idle"
  <2>1. p # pid
    BY <1>1, RecordStays DEF InReach
  <2>2. PICK b \in Actors : pc[b] = "spawn_pid" /\ myPid[b] = p
    BY <1>1, <2>1 DEF InReach
  <2> QED
    BY <1>1, <2>2, ChildStays DEF InReach
<1>2. CoreInv /\ [Next]_vars
        => \A p \in Pids :
             /\ Running /\ Live(p) /\ InReach(p)
             /\ Running' /\ Live(p)' /\ ~InReach(p)'
             => \E c \in Clients : pc[c] = "spawn_pid" /\ myPid[c] = p /\ pc'[c] = "idle"
  BY <1>1
<1> QED
  BY CoreInvariance, <1>2, PTL DEF Spec, LostOnlyByHangUp

-----------------------------------------------------------------------------
(* Every step keeps the invariant, as long as no client hangs up between   *)
(* the fork of a worker and the record of its pid.                         *)
LEMMA IInvNext ==
  ASSUME ChildIsRecorded, IInv, [Next]_vars
  PROVE  IInv'
<1>1. TypeOK'
  BY TypeNext DEF IInv, Knows, ChildKnown
<1> USE ActorsAssumption, NullAssumption
    DEF IInv, TypeOK, CallType, HostType, WorkerType, Statuses, Phases,
        OwnLabels, Holding, Quiet, Arguments, Recorded, Knows, NoOrphan, StoppedEmpty,
        Ending, NoOrphanAtExit, NoneLive, Live, Running, DaemonUp, Booting,
        NoRequestInFlight, Actors, Section, StopLabels, SpawnLabels, PollLabels, MainLabels,
        Goto, Return, Rest, worker, host, tasks, vars
<1>2. ASSUME NEW a \in Actors, SpawnStep(a) PROVE IInv'
  <2>1. CASE SpawnBegin(a)
    BY <1>1, <2>1 DEF SpawnBegin, Begin, AlreadyActive
  <2>2. CASE SpawnNoLog(a)
    BY <1>1, <2>2 DEF SpawnNoLog
  <2>3. CASE SpawnFails(a)
    BY <1>1, <2>3 DEF SpawnFails
  <2>4. CASE SpawnFailed(a)
    BY <1>1, <2>4 DEF SpawnFailed
  <2>5. CASE SpawnExec(a)
    BY <1>1, <2>5 DEF SpawnExec
  <2>6. CASE SpawnPid(a)
    BY <1>1, <2>6 DEF SpawnPid
  <2> HIDE DEF IInv
  <2> QED
    BY <1>2, <2>1, <2>2, <2>3, <2>4, <2>5, <2>6 DEF SpawnStep
<1>3. ASSUME NEW a \in Actors, KillStep(a) PROVE IInv'
  <2>1. CASE KillRead(a)
    BY <1>1, <2>1 DEF KillRead
  <2>2. CASE KillTerm(a)
    <3> HIDE DEF IInv, HostType
    <3>1. HostType /\ myPid[a] \in Pids
      BY <2>2 DEF IInv, KillTerm
    <3>2. /\ \A q \in Pids : proc[q] # "other" => proc'[q] = proc[q]
          /\ \A q \in Pids : proc[q] # "other" => image'[q] = image[q]
          /\ \A q \in Pids : proc[q] = "other" => proc'[q] \in {"other", "free"}
      BY <2>2, <3>1, SignalEffect DEF KillTerm
    <3> QED
      BY <1>1, <2>2, <3>2 DEF KillTerm, IInv, HostType
  <2>3. CASE KillWait(a)
    <3>1. CASE PidAlive(myPid[a])
      BY <1>1, <2>3, <3>1 DEF KillWait, AfterWait
    <3>2. CASE ~PidAlive(myPid[a])
      <4>1. NoneLive
        BY <2>3, <3>2 DEF KillWait, PidAlive
      <4> QED
        BY <1>1, <2>3, <3>2, <4>1 DEF KillWait, AfterWait
    <3> HIDE DEF IInv
    <3> QED
      BY <3>1, <3>2
  <2>4. CASE KillKill(a)
    <3> HIDE DEF IInv, HostType
    <3>1. HostType /\ myPid[a] \in Pids
      BY <2>4 DEF IInv, KillKill
    <3>2. /\ \A q \in Pids : \/ proc'[q] = proc[q]
                             \/ proc[q] = "other" /\ proc'[q] = "free"
                             \/ Live(q) /\ proc'[q] = "killed"
          /\ ~Live(myPid[a])'
          /\ \A q \in Pids : Live(q)' => image'[q] = image[q]
      BY <2>4, <3>1, SignalEffect DEF KillKill
    <3> QED
      BY <1>1, <2>4, <3>2 DEF KillKill, IInv, HostType
  <2>5. CASE KillClear(a)
    BY <1>1, <2>5 DEF KillClear
  <2> HIDE DEF IInv
  <2> QED
    BY <1>3, <2>1, <2>2, <2>3, <2>4, <2>5 DEF KillStep
<1>4. ASSUME NEW c \in Clients, StartPid(c) \/ ResetRestarts(c) \/ StartLock(c)
      PROVE  IInv'
  <2>1. CASE StartPid(c)
    BY <1>1, <2>1 DEF StartPid, StopBeforeStart
  <2>2. CASE ResetRestarts(c)
    BY <1>1, <2>2 DEF ResetRestarts
  <2>3. CASE StartLock(c)
    BY <1>1, <2>3 DEF StartLock, Acquire, AlreadyActive
  <2> HIDE DEF IInv
  <2> QED
    BY <1>4, <2>1, <2>2, <2>3
<1>5. ASSUME NEW a \in Actors, StopLock(a) PROVE IInv'
  BY <1>1, <1>5 DEF StopLock, Acquire
<1>6. ASSUME PollStep \/ RestartLock PROVE IInv'
  <2>1. CASE PollTick
    BY <1>1, <2>1 DEF PollTick
  <2>2. CASE PollHealth
    BY <1>1, <2>2 DEF PollHealth
  <2>3. CASE PollVerdict
    BY <1>1, <2>3 DEF PollVerdict, VerdictStatus
  <2>4. CASE RestartFlag
    BY <1>1, <2>4 DEF RestartFlag
  <2>5. CASE RestartWant
    BY <1>1, <2>5 DEF RestartWant, RestartWanted
  <2>6. CASE RestartLock
    BY <1>1, <2>6 DEF RestartLock, Acquire
  <2> HIDE DEF IInv
  <2> QED
    BY <1>6, <2>1, <2>2, <2>3, <2>4, <2>5, <2>6 DEF PollStep
<1>7. ASSUME NEW c \in Clients, Request(c) PROVE IInv'
  BY <1>1, <1>7 DEF Request
<1>8. ASSUME NEW c \in Clients, Disconnect(c) PROVE IInv'
  BY <1>1, <1>8, DisconnectAssumption DEF Disconnect, ChildIsRecorded, AwaitPoints
<1>9. ASSUME MainStep \/ Terminate \/ Restart PROVE IInv'
  <2>1. CASE Reap
    BY <1>1, <2>1 DEF Reap
  <2>2. CASE Bind
    BY <1>1, <2>2 DEF Bind
  <2>3. CASE Drained
    BY <1>1, <2>3 DEF Drained
  <2>4. CASE Leave
    BY <1>1, <2>4 DEF Leave, DaemonGone, FreshWorker
  <2>5. CASE Terminate
    BY <1>1, <2>5 DEF Terminate
  <2>6. CASE Restart
    BY <1>1, <2>6 DEF Restart
  <2> HIDE DEF IInv
  <2> QED
    BY <1>9, <2>1, <2>2, <2>3, <2>4, <2>5, <2>6 DEF MainStep
<1>10. ASSUME BootSpawnError \/ Crash PROVE IInv'
  BY <1>1, <1>10 DEF BootSpawnError, Crash, DaemonGone, FreshWorker
<1>11. ASSUME NEW p \in Pids, HostStep(p) PROVE IInv'
  <2>1. CASE WaitTask(p)
    BY <1>1, <2>1 DEF WaitTask, StillOurs
  <2>2. CASE Load(p)
    BY <1>1, <2>2 DEF Load
  <2>3. CASE ProcessExit(p)
    BY <1>1, <2>3 DEF ProcessExit, PidAlive, Child
  <2>4. CASE OtherProcess(p)
    BY <1>1, <2>4 DEF OtherProcess
  <2> HIDE DEF IInv
  <2> QED
    BY <1>11, <2>1, <2>2, <2>3, <2>4 DEF HostStep
<1>12. CASE CoolDown \/ GraceOver \/ UNCHANGED vars
  BY <1>1, <1>12 DEF CoolDown, GraceOver
<1> HIDE DEF IInv, vars
<1> QED
  BY <1>2, <1>3, <1>4, <1>5, <1>6, <1>7, <1>8, <1>9, <1>10, <1>11, <1>12
  DEF Next, TaskStep, LockStep

(* The inductive invariant holds in every reachable state.                 *)
THEOREM Invariance ==
  ASSUME ChildIsRecorded
  PROVE  Spec => []IInv
<1>1. IInv /\ [Next]_vars => IInv'
  BY IInvNext
<1> QED
  BY IInvInit, <1>1, PTL DEF Spec

-----------------------------------------------------------------------------
LEMMA IInvSole == IInv => SoleWorker
<1> SUFFICES ASSUME IInv, Running, NEW p \in Pids, NEW q \in Pids, Live(p), Live(q)
             PROVE  p = q
  BY DEF SoleWorker
<1>1. CASE p = pid \/ q = pid
  BY <1>1, NullAssumption DEF IInv, NoOrphan, Knows, SpawnLabels
<1>2. CASE p # pid /\ q # pid
  <2>1. PICK a \in Actors : pc[a] = "spawn_pid" /\ myPid[a] = p
    BY <1>2 DEF IInv, NoOrphan
  <2>2. PICK b \in Actors : pc[b] = "spawn_pid" /\ myPid[b] = q
    BY <1>2 DEF IInv, NoOrphan
  <2> QED
    BY <2>1, <2>2, SectionUnique DEF IInv, Section, SpawnLabels
<1> QED
  BY <1>1, <1>2

(* At most one llama-server runs, for any number of pids, models, clients. *)
THEOREM OneWorker ==
  ASSUME ChildIsRecorded
  PROVE  Spec => []SoleWorker
BY Invariance, IInvSole, PTL

(* Every llama-server that runs is within reach of stop_inner.             *)
THEOREM NoWorkerLost ==
  ASSUME ChildIsRecorded
  PROVE  Spec => []NoOrphan
<1>1. IInv => NoOrphan
  BY DEF IInv
<1> QED
  BY Invariance, <1>1, PTL

(* An orderly exit leaves no llama-server behind.                          *)
THEOREM CleanExit ==
  ASSUME ChildIsRecorded
  PROVE  Spec => []NoOrphanAtExit
<1>1. IInv => NoOrphanAtExit
  BY DEF IInv
<1> QED
  BY Invariance, <1>1, PTL

(* "Stopped" is never shown while a llama-server runs.                     *)
THEOREM StoppedIsTrue ==
  ASSUME ChildIsRecorded
  PROVE  Spec => []StoppedMeansNoWorker
<1>1. IInv => StoppedMeansNoWorker
  BY DEF IInv, StoppedEmpty, StoppedMeansNoWorker, NoneLive
<1> QED
  BY Invariance, <1>1, PTL

-----------------------------------------------------------------------------
(* Only RestartLock raises the counter, one at a time; only ResetRestarts  *)
(* and the end of the daemon lower it, unless the u8 wraps.                *)
LEMMA CounterStep ==
  ASSUME TypeOK, [Next]_vars
  PROVE  \/ restarts' = restarts
         \/ restarts' = 0 /\ (~DaemonUp' \/ \E c \in Clients : pc[c] = "reset")
         \/ RestartLock /\ status = "Crashed" /\ restarts' = (restarts + 1) % RestartModulus
<1> USE DEF worker, vars
<1>1. ASSUME NEW a \in Actors, SpawnStep(a) \/ KillStep(a) \/ StopLock(a)
      PROVE  restarts' = restarts
  BY <1>1 DEF SpawnStep, SpawnBegin, Begin, SpawnNoLog, SpawnFails, SpawnFailed, SpawnExec,
              SpawnPid, KillStep, KillRead, KillTerm, KillWait, KillKill, KillClear, StopLock
<1>2. ASSUME NEW c \in Clients, StartPid(c) \/ StartLock(c) \/ Request(c) \/ Disconnect(c)
      PROVE  restarts' = restarts
  BY <1>2 DEF StartPid, StartLock, Request, Disconnect
<1>3. ASSUME NEW c \in Clients, ResetRestarts(c)
      PROVE  restarts' = 0 /\ pc[c] = "reset"
  BY <1>3 DEF ResetRestarts
<1>4. PollStep => restarts' = restarts
  BY DEF PollStep, PollTick, PollHealth, PollVerdict, RestartFlag, RestartWant
<1>5. RestartLock => \/ restarts' = restarts
                     \/ status = "Crashed" /\ restarts' = (restarts + 1) % RestartModulus
  BY DEF RestartLock
<1>6. Reap \/ Bind \/ Drained \/ Terminate \/ Restart => restarts' = restarts
  BY DEF Reap, Bind, Drained, Terminate, Restart
<1>7. Leave \/ BootSpawnError \/ Crash => restarts' = 0 /\ ~DaemonUp'
  BY DEF Leave, BootSpawnError, Crash, DaemonGone, FreshWorker, DaemonUp, Actors
<1>8. ASSUME NEW p \in Pids, HostStep(p) PROVE restarts' = restarts
  BY <1>8 DEF HostStep, WaitTask, Load, ProcessExit, OtherProcess
<1>9. CoolDown \/ GraceOver \/ UNCHANGED vars => restarts' = restarts
  BY DEF CoolDown, GraceOver
<1> QED
  BY <1>1, <1>2, <1>3, <1>4, <1>5, <1>6, <1>7, <1>8, <1>9
  DEF Next, TaskStep, LockStep, MainStep

(* A poller that waits for the mutex has seen the budget not used up.      *)
LEMMA WaitingStep ==
  ASSUME TypeOK, [Next]_vars, pc'[Poller] = "restart_lock"
  PROVE  \/ pc[Poller] = "restart_lock" /\ ~RestartLock
         \/ restarts < MaxRestarts /\ restarts' = restarts
<1> USE ActorsAssumption
    DEF TypeOK, CallType, Actors, Goto, Return, Rest, worker, tasks, vars
<1>1. ASSUME NEW a \in Actors, SpawnStep(a) \/ KillStep(a) \/ StopLock(a)
      PROVE  pc[Poller] = "restart_lock" /\ ~RestartLock
  BY <1>1 DEF SpawnStep, SpawnBegin, SpawnNoLog, SpawnFails, SpawnFailed, SpawnExec, SpawnPid,
              KillStep, KillRead, KillTerm, KillWait, AfterWait, KillKill, KillClear, StopLock,
              RestartLock
<1>2. ASSUME NEW c \in Clients, \/ StartPid(c) \/ ResetRestarts(c) \/ StartLock(c)
                                \/ Request(c) \/ Disconnect(c)
      PROVE  pc[Poller] = "restart_lock" /\ ~RestartLock
  BY <1>2 DEF StartPid, ResetRestarts, StartLock, Request, Disconnect, RestartLock
<1>3. ASSUME PollStep
      PROVE  restarts < MaxRestarts /\ restarts' = restarts
  BY <1>3 DEF PollStep, PollTick, PollHealth, PollVerdict, RestartFlag, RestartWant,
              RestartWanted
<1>4. ~RestartLock
  BY DEF RestartLock
<1>5. MainStep \/ Terminate \/ BootSpawnError \/ Crash \/ Restart => pc[Poller] = "restart_lock"
  BY DEF MainStep, Reap, Bind, Drained, Leave, Terminate, BootSpawnError, Crash, Restart,
         DaemonGone
<1>6. ASSUME NEW p \in Pids, HostStep(p) PROVE pc[Poller] = "restart_lock"
  BY <1>6 DEF HostStep, WaitTask, Load, ProcessExit, OtherProcess
<1>7. CoolDown \/ GraceOver \/ UNCHANGED vars => pc[Poller] = "restart_lock"
  BY DEF CoolDown, GraceOver
<1> QED
  BY <1>1, <1>2, <1>3, <1>4, <1>5, <1>6, <1>7 DEF Next, TaskStep, LockStep

(* The restart counter never passes max_restarts, although the budget is   *)
(* read before the mutex is taken and spent after.                         *)
LEMMA BudgetInvariant == Spec => [](TypeOK /\ BudgetInv)
<1>1. Init => BudgetInv
  BY BoundAssumption, ActorsAssumption DEF Init, BudgetInv, RestartBudget, Rest, Actors
<1>2. TypeOK /\ BudgetInv /\ [Next]_vars => BudgetInv'
  <2> SUFFICES ASSUME TypeOK, BudgetInv, [Next]_vars PROVE BudgetInv'
    OBVIOUS
  <2> USE BoundAssumption DEF BudgetInv, RestartBudget
  <2>1. restarts \in Nat
    BY DEF TypeOK, WorkerType
  <2>2. restarts' <= MaxRestarts
    <3>1. RestartLock => (restarts + 1) % RestartModulus <= MaxRestarts
      BY <2>1 DEF RestartLock
    <3> QED
      BY <3>1, CounterStep
  <2>3. ASSUME pc'[Poller] = "restart_lock" PROVE restarts' < MaxRestarts
    BY <2>1, <2>3, WaitingStep, CounterStep
  <2> QED
    BY <2>2, <2>3
<1> QED
  BY <1>1, <1>2, TypeCorrect, PTL DEF Spec

(* The counter is bounded by max_restarts for every configuration.         *)
THEOREM BudgetKept == Spec => []RestartBudget
<1>1. BudgetInv => RestartBudget
  BY DEF BudgetInv
<1> QED
  BY BudgetInvariant, <1>1, PTL

(* supervisor.rs:117-120 holds when max_restarts fits the counter: only a  *)
(* start lowers it.  The assumption is needed: max_restarts is a u32, the  *)
(* counter a u8.                                                           *)
THEOREM CounterKept ==
  ASSUME MaxRestarts < RestartModulus
  PROVE  Spec => CounterResetOnlyByStart
<1> DEFINE A == restarts' < restarts /\ DaemonUp' => \E c \in Clients : pc[c] = "reset"
<1>1. TypeOK /\ BudgetInv /\ [Next]_vars => [A]_vars
  <2> SUFFICES ASSUME TypeOK, BudgetInv, [Next]_vars, restarts' < restarts, DaemonUp'
               PROVE  \E c \in Clients : pc[c] = "reset"
    OBVIOUS
  <2>1. restarts \in Nat /\ RestartModulus \in Nat \ {0} /\ MaxRestarts \in Nat
    BY BoundAssumption DEF TypeOK, WorkerType
  <2>2. RestartLock => (restarts + 1) % RestartModulus = restarts + 1
    BY <2>1 DEF RestartLock, BudgetInv
  <2> QED
    BY <2>1, <2>2, CounterStep
<1> QED
  BY <1>1, BudgetInvariant, PTL DEF Spec, CounterResetOnlyByStart

-----------------------------------------------------------------------------
(* The supervisor implements WorkerSlot.                                   *)

(* What the refinement mapping yields: the model of the worker that runs.  *)
SlotIs == /\ \A p \in Pids : Running /\ Live(p) => SlotModel = image[p]
          /\ ~Running \/ NoneLive => SlotModel = NoModel

LEMMA SlotValue == IInv => SlotIs
<1> SUFFICES ASSUME IInv PROVE SlotIs
  OBVIOUS
<1>1. ASSUME NEW p \in Pids, Running, Live(p) PROVE SlotModel = image[p]
  <2>1. \A q \in Pids : Live(q) => q = p
    BY <1>1, IInvSole DEF SoleWorker
  <2>2. (CHOOSE q \in Pids : Live(q)) = p
    BY <1>1, <2>1
  <2> QED
    BY <1>1, <2>2 DEF SlotModel
<1>2. ~Running \/ NoneLive => SlotModel = NoModel
  BY DEF SlotModel, NoneLive
<1> QED
  BY <1>1, <1>2 DEF SlotIs

LEMMA SlotInit == Init => Slot!Init
  BY DEF Init, Slot!Init, SlotModel, SlotPhase, Running, DaemonUp, Actors

LEMMA SlotStep ==
  ASSUME IInv, IInv', SlotIs, SlotIs', [Next]_vars
  PROVE  [Slot!Next]_<<SlotModel, model_id, SlotPhase>>
<1> USE ActorsAssumption, NullAssumption
    DEF Actors, Goto, Return, Rest, worker, host, tasks, vars
<1> DEFINE SameHost  == UNCHANGED <<proc, image, model_id>>
           SamePhase == UNCHANGED <<Running, SlotPhase>>
<1>1. SameHost /\ SamePhase => UNCHANGED <<SlotModel, model_id, SlotPhase>>
  BY DEF SlotIs, NoneLive, Live
<1>2. ASSUME NEW a \in Actors, SpawnNoLog(a) \/ SpawnFails(a) \/ SpawnFailed(a) \/ SpawnPid(a)
      PROVE  SameHost /\ SamePhase
  BY <1>2 DEF IInv, TypeOK, CallType, Knows, SpawnNoLog,
              SpawnFails, SpawnFailed, SpawnPid, Running, DaemonUp, SlotPhase, SpawnLabels
<1>16. ASSUME NEW a \in Actors, SpawnBegin(a)
       PROVE  \E m \in Models : Slot!Announce(m)
  <2>1. Running /\ NoneLive /\ arg[a] \in Models /\ pid = NoPid
    BY <1>16, SectionRunning
    DEF IInv, TypeOK, CallType, Knows, Arguments, SpawnBegin, Section, SpawnLabels
  <2>2. model_id' = arg[a] /\ UNCHANGED <<proc, image>> /\ SamePhase
    BY <1>16, <2>1 DEF SpawnBegin, Begin, AlreadyActive, IInv, TypeOK, CallType, Running,
                       DaemonUp, SlotPhase
  <2>3. NoneLive'
    BY <2>1, <2>2 DEF NoneLive, Live
  <2>4. SlotModel = NoModel /\ SlotModel' = NoModel
    BY <2>1, <2>3 DEF SlotIs
  <2> QED
    BY <2>1, <2>2, <2>4 DEF Slot!Announce, SlotPhase
<1>3. ASSUME NEW a \in Actors, SpawnExec(a)
      PROVE  \E m \in Models : Slot!Launch(m)
  <2>1. Running /\ NoneLive /\ arg[a] \in Models
    BY <1>3, SectionRunning
    DEF IInv, TypeOK, CallType, Knows, Arguments, SpawnExec, Section, SpawnLabels
  <2>2. Running' /\ UNCHANGED SlotPhase
    BY <1>3, <2>1 DEF SpawnExec, IInv, TypeOK, CallType, Running, DaemonUp, SlotPhase
  <2>3. \E p \in Pids : Live(p)' /\ image'[p] = arg[a]
    BY <1>3 DEF SpawnExec, IInv, TypeOK, HostType, Live
  <2>4. SlotModel = NoModel /\ SlotModel' = arg[a] /\ model_id = arg[a] /\ UNCHANGED model_id
    BY <1>3, <2>1, <2>2, <2>3 DEF SlotIs, SpawnExec, IInv, Arguments
  <2> QED
    BY <2>1, <2>2, <2>4 DEF Slot!Launch, SlotPhase
<1>4. ASSUME NEW a \in Actors, KillRead(a) \/ KillWait(a) \/ KillClear(a) \/ StopLock(a)
      PROVE  SameHost /\ SamePhase
  BY <1>4 DEF IInv, TypeOK, CallType, OwnLabels, Arguments, KillRead, KillWait, AfterWait,
              KillClear, StopLock, Running, DaemonUp, SlotPhase, SpawnLabels
<1>5. ASSUME NEW c \in Clients, \/ StartPid(c) \/ ResetRestarts(c) \/ StartLock(c)
                                \/ Request(c) \/ Disconnect(c)
      PROVE  SameHost /\ SamePhase
  BY <1>5 DEF IInv, TypeOK, CallType, StartPid, ResetRestarts, StartLock, Request, Disconnect,
              Running, DaemonUp, SlotPhase
<1>6. ASSUME PollStep \/ RestartLock
      PROVE  SameHost /\ SamePhase
  BY <1>6 DEF IInv, TypeOK, CallType, PollStep, PollTick, PollHealth, PollVerdict, RestartFlag,
              RestartWant, RestartLock, Running, DaemonUp, SlotPhase
<1>7. ASSUME Bind \/ Drained \/ Terminate
      PROVE  SameHost /\ SamePhase
  BY <1>7 DEF IInv, TypeOK, CallType, Bind, Drained, Terminate, Running, DaemonUp, SlotPhase
<1>8. Reap => Slot!Open
  <2> SUFFICES ASSUME Reap PROVE Slot!Open
    OBVIOUS
  <2>1. ~Running /\ SlotPhase = "abandoned" /\ SlotPhase' = "open"
    BY DEF Reap, IInv, TypeOK, CallType, Running, DaemonUp, SlotPhase
  <2>2. NoneLive'
    BY DEF Reap, IInv, TypeOK, HostType, NoneLive, Live
  <2> QED
    BY <2>1, <2>2 DEF Reap, Slot!Open, SlotIs
<1>9. Leave => Slot!Close
  <2> SUFFICES ASSUME Leave PROVE Slot!Close
    OBVIOUS
  <2>1. Running /\ NoneLive /\ SlotPhase = "open"
    BY DEF Leave, IInv, Ending, Running, DaemonUp, SlotPhase
  <2>2. ~Running' /\ SlotPhase' = "closed"
    BY DEF Leave, DaemonGone, Running, DaemonUp, SlotPhase
  <2> QED
    BY <2>1, <2>2 DEF Leave, DaemonGone, FreshWorker, Slot!Close, SlotIs
<1>10. BootSpawnError \/ Crash => Slot!Abandon
  BY DEF BootSpawnError, Crash, DaemonGone, FreshWorker, Slot!Abandon, SlotIs, Running, DaemonUp, SlotPhase
<1>11. Restart => Slot!Abandon
  BY DEF Restart, IInv, TypeOK, CallType, Quiet, Slot!Abandon, SlotIs, Running, DaemonUp, SlotPhase
<1>12. ASSUME NEW p \in Pids, SamePhase, UNCHANGED model_id,
              \A q \in Pids \ {p} : Live(q)' <=> Live(q),
              \A q \in Pids \ {p} : image'[q] = image[q], ~Live(p)'
       PROVE  Slot!Vacate \/ UNCHANGED <<SlotModel, model_id, SlotPhase>>
  <2>1. CASE Running /\ Live(p)
    <3>1. NoneLive'
      BY <1>12, <2>1, IInvSole DEF SoleWorker, NoneLive
    <3>2. SlotModel = image[p] /\ SlotModel' = NoModel
      BY <2>1, <3>1 DEF SlotIs
    <3> QED
      BY <1>12, <2>1, <3>2 DEF Slot!Vacate, SlotPhase
  <2>2. CASE ~(Running /\ Live(p))
    BY <1>12, <2>2 DEF SlotIs, NoneLive
  <2> QED
    BY <2>1, <2>2
<1>13. ASSUME NEW p \in Pids, HostStep(p)
       PROVE  Slot!Vacate \/ UNCHANGED <<SlotModel, model_id, SlotPhase>>
  <2>1. SamePhase /\ UNCHANGED model_id
    BY <1>13 DEF HostStep, WaitTask, Load, ProcessExit, OtherProcess, Running, DaemonUp, SlotPhase
  <2>2. CASE Load(p)
    BY <2>1, <2>2 DEF Load, IInv, TypeOK, HostType, SlotIs, NoneLive, Live
  <2>3. CASE ~Load(p)
    <3>1. \A q \in Pids \ {p} : (Live(q)' <=> Live(q)) /\ image'[q] = image[q]
      BY <1>13, <2>3 DEF HostStep, WaitTask, ProcessExit, OtherProcess, IInv, TypeOK, HostType,
                         Live
    <3>2. ~Live(p)'
      BY <1>13, <2>3 DEF HostStep, WaitTask, ProcessExit, OtherProcess, IInv, TypeOK, HostType,
                         Live
    <3> QED
      BY <1>12, <2>1, <3>1, <3>2
  <2> QED
    BY <2>2, <2>3
<1>14. ASSUME NEW a \in Actors, KillTerm(a) \/ KillKill(a)
       PROVE  Slot!Vacate \/ UNCHANGED <<SlotModel, model_id, SlotPhase>>
  <2>1. SamePhase /\ UNCHANGED model_id /\ myPid[a] \in Pids
    BY <1>14 DEF KillTerm, KillKill, IInv, TypeOK, CallType, OwnLabels, Knows, Running, DaemonUp,
                 SlotPhase
  <2>2. CASE KillKill(a)
    <3>1. PICK p \in Pids : p = myPid[a]
      BY <2>1
    <3>2. \A q \in Pids \ {p} : (Live(q)' <=> Live(q)) /\ image'[q] = image[q]
      BY <2>2, <3>1 DEF KillKill, Signal, IInv, TypeOK, HostType, Live
    <3>3. ~Live(p)'
      BY <2>2, <3>1 DEF KillKill, Signal, IInv, TypeOK, HostType, Live
    <3> QED
      BY <1>12, <2>1, <3>2, <3>3
  <2>3. CASE KillTerm(a)
    <3>1. \A q \in Pids : (Live(q)' <=> Live(q)) /\ image'[q] = image[q]
      BY <2>3 DEF KillTerm, Signal, IInv, TypeOK, HostType, Live
    <3> QED
      BY <2>1, <3>1 DEF SlotIs, NoneLive
  <2> QED
    BY <1>14, <2>2, <2>3
<1>15. CoolDown \/ GraceOver \/ UNCHANGED vars => SameHost /\ SamePhase
  BY DEF CoolDown, GraceOver, Running, DaemonUp, SlotPhase
<1> QED
  BY <1>1, <1>2, <1>3, <1>4, <1>5, <1>6, <1>7, <1>8, <1>9, <1>10, <1>11, <1>13, <1>14, <1>15, <1>16
  DEF Next, TaskStep, LockStep, SpawnStep, KillStep, MainStep, Slot!Next

(* Every behaviour of the supervisor is, through the mapping, one of the   *)
(* single slot: no switch without an empty slot, no orderly end with a     *)
(* worker in it.                                                           *)
THEOREM Refinement ==
  ASSUME ChildIsRecorded
  PROVE  Spec => ImplementsSlot
<1>1. IInv /\ SlotIs /\ IInv' /\ SlotIs' /\ [Next]_vars => [Slot!Next]_<<SlotModel, model_id, SlotPhase>>
  BY SlotStep
<1> QED
  BY <1>1, SlotInit, SlotValue, Invariance, PTL DEF Spec, ImplementsSlot, Slot!Spec
=============================================================================
