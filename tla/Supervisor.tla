----------------------------- MODULE Supervisor -----------------------------
(***************************************************************************)
(* The life cycle of the one llama-server worker that the daemon owns:     *)
(* src/supervisor.rs, its callers in src/main.rs (boot, the HTTP handlers  *)
(* for start and stop, the 2s poller, graceful shutdown) and the boot-time *)
(* reaper of src/reap.rs.                                                  *)
(*                                                                         *)
(* A step of an actor runs from one point where it takes the state mutex,  *)
(* sleeps or waits for the network to the next one.  Everything another    *)
(* task, the kernel or a signal can do in between is an action of its own. *)
(* pc[a] names the point where actor a is; the labels of the shared code   *)
(* (spawn, stop_inner) are used by whichever actor is executing it.        *)
(*                                                                         *)
(* Two steps of the code are merged where the second only adds a read that *)
(* commutes with every other actor: taking the lifecycle mutex with the    *)
(* first read under it, and a failed GET /health with the status read that *)
(* follows it.                                                             *)
(***************************************************************************)
EXTENDS Naturals, FiniteSets

CONSTANTS
    Pids,            \* process ids of the host
    Models,          \* configured models
    Clients,         \* HTTP connections that call /models/:id/start and /stop
    Poller,          \* the 2s supervisor task
    Main,            \* the main task: boot and graceful shutdown
    NoPid, NoModel, NoActor,
    RestartOnCrash,  \* worker.restart_on_crash
    MaxRestarts,     \* worker.max_restarts (u32)
    RestartModulus,  \* restarts is a u8: 256 in the program
    DisconnectAt,    \* await points at which a client may hang up
    PidReuse         \* whether unrelated processes take the pids of dead ones

Actors == Clients \union {Poller, Main}

StopLabels  == {"kill_read", "kill_term", "kill_wait", "kill_kill", "kill_clear"}
SpawnLabels == {"spawn_begin", "spawn_exec", "spawn_failed", "spawn_pid"}
Section     == StopLabels \union SpawnLabels \union {"start_pid", "reset"}
PollLabels  == {"tick", "health", "verdict", "flag", "want", "restart_lock"}
MainLabels  == {"reap", "bind", "serve", "drain", "leave", "exit", "down"}
Labels      == Section \union PollLabels \union MainLabels
                 \union {"idle", "start_lock", "stop_lock"}

\* The labels at which a handler's future is suspended and can be dropped.
AwaitPoints == {"start_lock", "stop_lock", "start_pid", "reset"}
                 \union (StopLabels \ {"kill_kill"})
                 \union (SpawnLabels \ {"spawn_exec"})

ASSUME ActorsAssumption ==
    /\ Poller # Main /\ Poller \notin Clients /\ Main \notin Clients
    /\ NoActor \notin Actors
ASSUME NullAssumption == NoPid \notin Pids /\ NoModel \notin Models
ASSUME BoundAssumption == MaxRestarts \in Nat /\ RestartModulus \in Nat \ {0}
ASSUME SwitchAssumption == RestartOnCrash \in BOOLEAN /\ PidReuse \in BOOLEAN
ASSUME DisconnectAssumption == DisconnectAt \subseteq AwaitPoints

VARIABLES
    \* WorkerState, behind the state mutex
    model_id, pid, status, stopping, restarts,
    cooling,        \* last_restart is at most 5s old
    grace,          \* started_at is at most 60s old
    \* Supervisor
    lifecycle,      \* who holds the lifecycle mutex
    shutting_down,
    \* the host: what each pid is, and the model file it was started with
    proc, image,
    waiters,        \* pids with a live wait-task
    \* the tasks
    pc,
    arg,            \* the model a call is for; NoModel for a stop
    myPid,          \* stop_inner's `pid`, spawn's `child`
    verdict         \* what poll decided to write after GET /health

worker == <<model_id, pid, status, stopping, restarts, cooling, grace>>
host   == <<proc, image, waiters>>
tasks  == <<pc, arg, myPid, verdict, lifecycle, shutting_down>>
vars   == <<worker, host, tasks>>

Statuses == {"Stopped", "Starting", "Ready", "Crashed"}
Phases   == {"free", "loading", "up", "killed", "exited", "other"}

Live(p)     == proc[p] \in {"loading", "up"}
PidAlive(p) == proc[p] \in {"loading", "up", "killed"}

DaemonUp == pc[Main] \notin {"exit", "down"}
Booting  == pc[Main] \in SpawnLabels \union {"reap"}
Running  == DaemonUp /\ pc[Main] # "reap"

WorkerType ==
    /\ model_id \in Models \union {NoModel}
    /\ pid \in Pids \union {NoPid}
    /\ status \in Statuses
    /\ stopping \in BOOLEAN /\ cooling \in BOOLEAN /\ grace \in BOOLEAN
    /\ restarts \in 0 .. RestartModulus - 1

HostType ==
    /\ proc \in [Pids -> Phases]
    /\ image \in [Pids -> Models \union {NoModel}]
    /\ waiters \in SUBSET Pids

CallType ==
    /\ pc \in [Actors -> Labels]
    /\ arg \in [Actors -> Models \union {NoModel}]
    /\ myPid \in [Actors -> Pids \union {NoPid}]
    /\ lifecycle \in Actors \union {NoActor}

TypeOK ==
    /\ WorkerType /\ HostType /\ CallType
    /\ verdict \in {"none", "Ready", "Crashed"}
    /\ shutting_down \in BOOLEAN

-----------------------------------------------------------------------------
(* Where an actor is between two calls.                                    *)
Rest(a) == IF a = Poller THEN "tick" ELSE IF a = Main THEN "down" ELSE "idle"

Goto(a, label) == pc' = [pc EXCEPT ![a] = label]

(* Faulty variants of operators below: the bugs the properties must catch. *)
AcquireUnlocked(a) == UNCHANGED lifecycle
ReturnHolding(a, label) == Goto(a, label) /\ UNCHANGED lifecycle
                             /\ arg' = [arg EXCEPT ![a] = NoModel]
                             /\ myPid' = [myPid EXCEPT ![a] = NoPid]
BeginResetting(m) == status' = "Starting" /\ model_id' = m /\ grace' = TRUE
                       /\ stopping' = FALSE /\ restarts' = 0 /\ UNCHANGED <<pid, cooling>>
AnyPid(p)          == TRUE
NeverKill(p)       == "kill_clear"
WaitForExit(p)     == IF PidAlive(p) THEN "kill_wait" ELSE "kill_clear"
NeverStop          == FALSE
RestartOnceMore    == RestartOnCrash /\ restarts <= MaxRestarts /\ status = "Crashed"
                        /\ ~cooling
RestartIfPid       == RestartOnCrash /\ restarts < MaxRestarts /\ status = "Crashed"
                        /\ ~cooling /\ pid # NoPid
NoDrain            == TRUE

(* WorkerState::new.                                                       *)
FreshWorker ==
    /\ model_id' = NoModel /\ pid' = NoPid /\ status' = "Stopped"
    /\ stopping' = FALSE /\ restarts' = 0 /\ cooling' = FALSE /\ grace' = FALSE

(* Any llama-server, and any other process, may be there before the daemon. *)
Init ==
    /\ model_id = NoModel /\ pid = NoPid /\ status = "Stopped"
    /\ stopping = FALSE /\ restarts = 0 /\ cooling = FALSE /\ grace = FALSE
    /\ proc \in [Pids -> {"free", "up"} \union (IF PidReuse THEN {"other"} ELSE {})]
    /\ image = [p \in Pids |-> NoModel]
    /\ waiters = {}
    /\ pc = [a \in Actors |-> IF a = Main THEN "reap" ELSE Rest(a)]
    /\ arg = [a \in Actors |-> NoModel]
    /\ myPid = [a \in Actors |-> NoPid]
    /\ verdict = "none" /\ lifecycle = NoActor /\ shutting_down = FALSE

(* The daemon process is gone: its memory and tasks with it, but not the   *)
(* worker processes (no kill_on_drop).  init reaps the zombies.            *)
DaemonGone(label) ==
    /\ FreshWorker
    /\ pc' = [a \in Actors |-> IF a = Main THEN label ELSE Rest(a)]
    /\ arg' = [a \in Actors |-> NoModel]
    /\ myPid' = [a \in Actors |-> NoPid]
    /\ verdict' = "none" /\ lifecycle' = NoActor /\ shutting_down' = FALSE
    /\ waiters' = {}
    /\ proc' = [p \in Pids |-> IF proc[p] = "exited" THEN "free" ELSE proc[p]]
    /\ UNCHANGED image

(* The end of a call: its locals die and its lifecycle guard is dropped.   *)
Return(a, label) ==
    /\ Goto(a, label)
    /\ arg' = [arg EXCEPT ![a] = NoModel]
    /\ myPid' = [myPid EXCEPT ![a] = NoPid]
    /\ lifecycle' = IF lifecycle = a THEN NoActor ELSE lifecycle

Acquire(a) == lifecycle = NoActor /\ lifecycle' = a

AlreadyActive(m) == model_id = m /\ pid # NoPid

-----------------------------------------------------------------------------
(* spawn                                                                   *)

Begin(m) ==
    /\ status' = "Starting" /\ model_id' = m /\ grace' = TRUE /\ stopping' = FALSE
    /\ UNCHANGED <<pid, restarts, cooling>>

(* No caller arrives here with a pid, so the early return is never taken.  *)
SpawnBegin(a) ==
    /\ pc[a] = "spawn_begin"
    /\ IF AlreadyActive(arg[a])
         THEN Return(a, Rest(a)) /\ UNCHANGED worker
         ELSE Goto(a, "spawn_exec") /\ Begin(arg[a]) /\ UNCHANGED <<arg, myPid, lifecycle>>
    /\ UNCHANGED <<host, verdict, shutting_down>>

(* worker_log_file()? or try_clone()? failed: spawn returns as it stands.  *)
SpawnNoLog(a) ==
    /\ pc[a] = "spawn_exec" /\ a # Main
    /\ Return(a, Rest(a))
    /\ UNCHANGED <<worker, host, verdict, shutting_down>>

SpawnFails(a) ==
    /\ pc[a] = "spawn_exec"
    /\ Goto(a, "spawn_failed")
    /\ UNCHANGED <<worker, host, arg, myPid, verdict, lifecycle, shutting_down>>

SpawnFailed(a) ==
    /\ pc[a] = "spawn_failed" /\ a # Main
    /\ pid' = NoPid /\ status' = "Crashed"
    /\ Return(a, Rest(a))
    /\ UNCHANGED <<model_id, stopping, restarts, cooling, grace, host, verdict,
                   shutting_down>>

(* At boot the `?` on spawn ends the daemon.                               *)
BootSpawnError ==
    /\ pc[Main] \in {"spawn_exec", "spawn_failed"}
    /\ DaemonGone("down")

SpawnExec(a) ==
    /\ pc[a] = "spawn_exec"
    /\ \E p \in Pids :
         /\ proc[p] = "free"
         /\ proc' = [proc EXCEPT ![p] = "loading"]
         /\ image' = [image EXCEPT ![p] = arg[a]]
         /\ myPid' = [myPid EXCEPT ![a] = p]
    /\ Goto(a, "spawn_pid")
    /\ UNCHANGED <<worker, waiters, arg, verdict, lifecycle, shutting_down>>

SpawnPid(a) ==
    /\ pc[a] = "spawn_pid"
    /\ pid' = myPid[a]
    /\ waiters' = waiters \union {myPid[a]}
    /\ Return(a, IF a = Main THEN "bind" ELSE Rest(a))
    /\ UNCHANGED <<model_id, status, stopping, restarts, cooling, grace, proc, image,
                   verdict, shutting_down>>

(* The wait-task of p: p exited, and only a state that still names p is    *)
(* cleared.  The kernel frees the pid and the task compares it in one step *)
(* here: a pid is not taken again in between.                              *)
StillOurs(p) == pid = p

WaitTask(p) ==
    /\ p \in waiters /\ proc[p] = "exited"
    /\ proc' = [proc EXCEPT ![p] = "free"]
    /\ waiters' = waiters \ {p}
    /\ IF StillOurs(p)
         THEN /\ pid' = NoPid
              /\ status' = IF stopping THEN "Stopped" ELSE "Crashed"
         ELSE UNCHANGED <<pid, status>>
    /\ UNCHANGED <<model_id, stopping, restarts, cooling, grace, image, tasks>>

-----------------------------------------------------------------------------
(* stop_inner                                                              *)

KillRead(a) ==
    /\ pc[a] = "kill_read"
    /\ myPid' = [myPid EXCEPT ![a] = pid]
    /\ Goto(a, IF pid = NoPid THEN "kill_clear" ELSE "kill_term")
    /\ UNCHANGED <<worker, host, arg, verdict, lifecycle, shutting_down>>

(* A signal to a pid that now belongs to an unrelated process ends that.   *)
Signal(p, sig) ==
    /\ proc' = [proc EXCEPT ![p] =
                  CASE proc[p] = "other"              -> "free"
                    [] Live(p) /\ sig = "KILL"        -> "killed"
                    [] OTHER                          -> proc[p]]
    /\ image' = [image EXCEPT ![p] = IF Live(p) /\ sig = "KILL" THEN NoModel ELSE image[p]]

(* SIGTERM only asks: the worker may exit (ProcessExit) or not.            *)
KillTerm(a) ==
    /\ pc[a] = "kill_term"
    /\ stopping' = TRUE
    /\ Signal(myPid[a], "TERM")
    /\ Goto(a, "kill_wait")
    /\ UNCHANGED <<model_id, pid, status, restarts, cooling, grace, waiters, arg, myPid,
                   verdict, lifecycle, shutting_down>>

(* The victim is seen gone, or ten sleeps are over and it is still there.  *)
AfterWait(p) == IF PidAlive(p) THEN "kill_kill" ELSE "kill_clear"

KillWait(a) ==
    /\ pc[a] = "kill_wait"
    /\ Goto(a, AfterWait(myPid[a]))
    /\ UNCHANGED <<worker, host, arg, myPid, verdict, lifecycle, shutting_down>>

KillKill(a) ==
    /\ pc[a] = "kill_kill"
    /\ Signal(myPid[a], "KILL")
    /\ Goto(a, "kill_clear")
    /\ UNCHANGED <<worker, waiters, arg, myPid, verdict, lifecycle, shutting_down>>

(* What each caller does after stop_inner: maybe_restart and start_model   *)
(* go on, stop returns.                                                    *)
KillClear(a) ==
    /\ pc[a] = "kill_clear"
    /\ pid' = NoPid /\ status' = "Stopped" /\ stopping' = FALSE
    /\ IF arg[a] # NoModel
         THEN /\ Goto(a, IF a = Poller THEN "spawn_begin" ELSE "reset")
              /\ myPid' = [myPid EXCEPT ![a] = NoPid]
              /\ UNCHANGED <<arg, lifecycle>>
         ELSE Return(a, IF a = Main THEN "leave" ELSE Rest(a))
    /\ UNCHANGED <<model_id, restarts, cooling, grace, host, verdict, shutting_down>>

-----------------------------------------------------------------------------
(* start_model and stop, called by the HTTP handlers                       *)

Request(c) ==
    /\ pc[Main] = "serve" /\ pc[c] = "idle"
    /\ \E m \in Models \union {NoModel} :
         /\ arg' = [arg EXCEPT ![c] = m]
         /\ Goto(c, IF m = NoModel THEN "stop_lock" ELSE "start_lock")
    /\ UNCHANGED <<worker, host, myPid, verdict, lifecycle, shutting_down>>

StartLock(c) ==
    /\ pc[c] = "start_lock" /\ lifecycle = NoActor
    /\ IF AlreadyActive(arg[c])
         THEN Return(c, "idle")
         ELSE Acquire(c) /\ Goto(c, "start_pid") /\ UNCHANGED <<arg, myPid>>
    /\ UNCHANGED <<worker, host, verdict, shutting_down>>

StopBeforeStart == pid # NoPid

StartPid(c) ==
    /\ pc[c] = "start_pid"
    /\ Goto(c, IF StopBeforeStart THEN "kill_read" ELSE "reset")
    /\ UNCHANGED <<worker, host, arg, myPid, verdict, lifecycle, shutting_down>>

ResetRestarts(c) ==
    /\ pc[c] = "reset"
    /\ restarts' = 0
    /\ Goto(c, "spawn_begin")
    /\ UNCHANGED <<model_id, pid, status, stopping, cooling, grace, host, arg, myPid,
                   verdict, lifecycle, shutting_down>>

StopLock(a) ==
    /\ pc[a] = "stop_lock"
    /\ Acquire(a)
    /\ Goto(a, "kill_read")
    /\ UNCHANGED <<worker, host, arg, myPid, verdict, shutting_down>>

(* The client hangs up: axum drops the handler's future at its await       *)
(* point, and with it the lifecycle guard and a child not yet recorded.    *)
Disconnect(c) ==
    /\ pc[c] \in DisconnectAt
    /\ Return(c, "idle")
    /\ UNCHANGED <<worker, host, verdict, shutting_down>>

-----------------------------------------------------------------------------
(* The poller: poll, then maybe_restart, every 2s                          *)

PollTick ==
    /\ pc[Poller] = "tick" /\ DaemonUp /\ ~Booting
    /\ Goto(Poller, IF pid # NoPid THEN "health" ELSE "flag")
    /\ UNCHANGED <<worker, host, arg, myPid, verdict, lifecycle, shutting_down>>

(* Any llama-server that is up answers on the port, or not in time.        *)
PollHealth ==
    /\ pc[Poller] = "health"
    /\ \/ /\ \E p \in Pids : proc[p] = "up"
          /\ verdict' = "Ready"
       \/ verdict' = IF \/ status = "Starting" /\ ~grace
                        \/ status \in {"Ready", "Crashed"}
                       THEN "Crashed" ELSE "none"
    /\ Goto(Poller, "verdict")
    /\ UNCHANGED <<worker, host, arg, myPid, lifecycle, shutting_down>>

VerdictStatus == IF verdict = "none" THEN status ELSE verdict

PollVerdict ==
    /\ pc[Poller] = "verdict"
    /\ status' = VerdictStatus
    /\ verdict' = "none"
    /\ Goto(Poller, "flag")
    /\ UNCHANGED <<model_id, pid, stopping, restarts, cooling, grace, host, arg, myPid,
                   lifecycle, shutting_down>>

RestartFlag ==
    /\ pc[Poller] = "flag"
    /\ Goto(Poller, IF shutting_down THEN "tick" ELSE "want")
    /\ UNCHANGED <<worker, host, arg, myPid, verdict, lifecycle, shutting_down>>

RestartWanted ==
    RestartOnCrash /\ restarts < MaxRestarts /\ status = "Crashed" /\ ~cooling

RestartWant ==
    /\ pc[Poller] = "want"
    /\ IF RestartWanted /\ model_id # NoModel
         THEN /\ arg' = [arg EXCEPT ![Poller] = model_id]
              /\ Goto(Poller, "restart_lock")
         ELSE /\ Goto(Poller, "tick")
              /\ UNCHANGED arg
    /\ UNCHANGED <<worker, host, myPid, verdict, lifecycle, shutting_down>>

RestartLock ==
    /\ pc[Poller] = "restart_lock" /\ lifecycle = NoActor
    /\ IF status = "Crashed"
         THEN /\ Acquire(Poller)
              /\ restarts' = (restarts + 1) % RestartModulus
              /\ cooling' = TRUE
              /\ Goto(Poller, "kill_read")
              /\ UNCHANGED <<arg, myPid>>
         ELSE /\ Return(Poller, "tick")
              /\ UNCHANGED <<restarts, cooling>>
    /\ UNCHANGED <<model_id, pid, status, stopping, grace, host, verdict, shutting_down>>

-----------------------------------------------------------------------------
(* main: reap, autostart, serve, drain, stop the worker, exit              *)

(* Every process named llama-server gets TERM, and KILL 3s later.          *)
Reap ==
    /\ pc[Main] = "reap"
    /\ proc' = [p \in Pids |-> IF Live(p) THEN "killed" ELSE proc[p]]
    /\ image' = [p \in Pids |-> NoModel]
    /\ \E m \in Models \union {NoModel} :
         /\ arg' = [arg EXCEPT ![Main] = m]
         /\ Goto(Main, IF m = NoModel THEN "bind" ELSE "spawn_begin")
    /\ UNCHANGED <<worker, waiters, myPid, verdict, lifecycle, shutting_down>>

Bind ==
    /\ pc[Main] = "bind"
    /\ Goto(Main, "serve")
    /\ UNCHANGED <<worker, host, arg, myPid, verdict, lifecycle, shutting_down>>

Terminate ==
    /\ pc[Main] = "serve"
    /\ shutting_down' = TRUE
    /\ Goto(Main, "drain")
    /\ UNCHANGED <<worker, host, arg, myPid, verdict, lifecycle>>

NoRequestInFlight == \A c \in Clients : pc[c] = "idle"

(* axum has closed its last connection.  The calls that start or stop a    *)
(* worker are over then; when the others are, a stream to a client that    *)
(* does not read among them, is not known here: this may occur, and is     *)
(* never obliged to.                                                       *)
Drained ==
    /\ pc[Main] = "drain"
    /\ NoRequestInFlight
    /\ Goto(Main, "stop_lock")
    /\ UNCHANGED <<worker, host, arg, myPid, verdict, lifecycle, shutting_down>>

Leave ==
    /\ pc[Main] = "leave"
    /\ DaemonGone("exit")

(* The daemon dies: killed, panicked, or main returned an error.           *)
Crash ==
    /\ DaemonUp
    /\ DaemonGone("down")

Restart ==
    /\ pc[Main] \in {"exit", "down"}
    /\ Goto(Main, "reap")
    /\ UNCHANGED <<worker, host, arg, myPid, verdict, lifecycle, shutting_down>>

-----------------------------------------------------------------------------
(* The host and the clock                                                  *)

Load(p) ==
    /\ proc[p] = "loading"
    /\ proc' = [proc EXCEPT ![p] = "up"]
    /\ UNCHANGED <<worker, image, waiters, tasks>>

(* A worker whose daemon still waits for it stays a zombie until then.     *)
Child(p) == p \in waiters \/ \E a \in Actors : pc[a] = "spawn_pid" /\ myPid[a] = p

ProcessExit(p) ==
    /\ PidAlive(p)
    /\ proc' = [proc EXCEPT ![p] = IF Child(p) THEN "exited" ELSE "free"]
    /\ image' = [image EXCEPT ![p] = NoModel]
    /\ UNCHANGED <<worker, waiters, tasks>>

(* An unrelated process takes a free pid, or ends.                         *)
OtherProcess(p) ==
    /\ PidReuse /\ proc[p] \in {"free", "other"}
    /\ proc' = [proc EXCEPT ![p] = IF proc[p] = "free" THEN "other" ELSE "free"]
    /\ UNCHANGED <<worker, image, waiters, tasks>>

CoolDown ==
    /\ cooling /\ cooling' = FALSE
    /\ UNCHANGED <<model_id, pid, status, stopping, restarts, grace, host, tasks>>

GraceOver ==
    /\ grace /\ grace' = FALSE
    /\ UNCHANGED <<model_id, pid, status, stopping, restarts, cooling, host, tasks>>

-----------------------------------------------------------------------------
SpawnStep(a) == SpawnBegin(a) \/ SpawnNoLog(a) \/ SpawnFails(a) \/ SpawnFailed(a)
                  \/ SpawnExec(a) \/ SpawnPid(a)
KillStep(a)  == KillRead(a) \/ KillTerm(a) \/ KillWait(a) \/ KillKill(a) \/ KillClear(a)
PollStep     == PollTick \/ PollHealth \/ PollVerdict \/ RestartFlag \/ RestartWant
MainStep     == Reap \/ Bind \/ Drained \/ Leave
HostStep(p)  == WaitTask(p) \/ Load(p) \/ ProcessExit(p) \/ OtherProcess(p)

(* What an actor does on its own, and what needs the lifecycle mutex.      *)
TaskStep(a) ==
    \/ SpawnStep(a) \/ KillStep(a)
    \/ a \in Clients /\ (StartPid(a) \/ ResetRestarts(a))
    \/ a = Poller /\ PollStep
    \/ a = Main /\ MainStep
LockStep(a) ==
    \/ StopLock(a)
    \/ a \in Clients /\ StartLock(a)
    \/ a = Poller /\ RestartLock

Next ==
    \/ \E a \in Actors : TaskStep(a) \/ LockStep(a)
    \/ \E c \in Clients : Request(c) \/ Disconnect(c)
    \/ Terminate \/ BootSpawnError \/ Crash \/ Restart
    \/ \E p \in Pids : HostStep(p)
    \/ CoolDown \/ GraceOver

Spec == Init /\ [][Next]_vars

(***************************************************************************)
(* Fairness.  The tokio runtime polls every runnable task; sleeps and the  *)
(* HTTP timeout end; the lifecycle mutex is tokio's, which is granted in   *)
(* the order of the requests: hence strong fairness for taking it.  Nobody *)
(* is obliged to send a request or a signal, no worker to exit, and no     *)
(* client to let axum close its connection: Drained is not fair.           *)
(***************************************************************************)
Fairness ==
    /\ \A a \in Actors : WF_vars(TaskStep(a) /\ ~Drained) /\ SF_vars(LockStep(a))
    /\ \A p \in Pids : WF_vars(WaitTask(p))
    /\ WF_vars(CoolDown)

FairSpec == Spec /\ Fairness

-----------------------------------------------------------------------------
(* Properties                                                              *)

(* README.md:3, config.example.toml:52: once legacy servers are reaped, at  *)
(* most one llama-server runs on the host, whatever start, stop, switch,   *)
(* crash and auto-restart interleave with (supervisor.rs:103-317).         *)
SoleWorker == Running => \A p, q \in Pids : Live(p) /\ Live(q) => p = q

(* DESIGN.md:538-540: no worker is orphaned.  Every llama-server that runs *)
(* is the one the state names, or is about to be recorded by its spawner   *)
(* (supervisor.rs:140-156), so that stop_inner can reach it.               *)
NoOrphan ==
    Running => \A p \in Pids : Live(p) => p = pid \/ \E a \in Actors :
                                                      pc[a] = "spawn_pid" /\ myPid[a] = p

(* The same wherever clients hang up (supervisor.rs:140-156, 206-229): of  *)
(* all that clients, the poller, main, the kernel and crashes of workers   *)
(* can do, only a hang-up between cmd.spawn() and the record of the pid    *)
(* ever puts a llama-server that runs out of stop_inner's reach.           *)
InReach(p) == p = pid \/ \E a \in Actors : pc[a] = "spawn_pid" /\ myPid[a] = p

LostOnlyByHangUp ==
    [][\A p \in Pids :
          /\ Running /\ Live(p) /\ InReach(p)
          /\ Running' /\ Live(p)' /\ ~InReach(p)'
          => \E c \in Clients : pc[c] = "spawn_pid" /\ myPid[c] = p /\ pc'[c] = "idle"]_vars

(* main.rs:505-531: after an orderly shutdown nothing is left running, also *)
(* when the poller or a client was inside a restart when SIGTERM came.     *)
NoOrphanAtExit == pc[Main] = "exit" => \A p \in Pids : ~Live(p)

(* supervisor.rs:206-229: "Stopped" on the panel means no llama-server     *)
(* runs or serves, also one that ignored SIGTERM; one that has got SIGKILL *)
(* does neither, though it may take the kernel a moment to end it.         *)
StoppedMeansNoWorker == Running /\ status = "Stopped" => \A p \in Pids : ~Live(p)

(* supervisor.rs:103-197: the model the panel and the proxy name is the one *)
(* the recorded process was started with, through every switch.            *)
ReportedModelRuns == pid # NoPid /\ Live(pid) => image[pid] = model_id

(* supervisor.rs:278-307: the counter never passes max_restarts, although  *)
(* it is checked before the lifecycle lock and advanced after it.          *)
RestartBudget == restarts <= MaxRestarts

(* supervisor.rs:117-120: "The counter is reset only on an intentional     *)
(* model switch in start_model": no auto-restart, stop, spawn failure or   *)
(* recovery lowers it while the daemon runs.                               *)
CounterResetOnlyByStart ==
    [][restarts' < restarts /\ DaemonUp' => \E c \in Clients : pc[c] = "reset"]_vars

(* The supervisor implements the one-slot abstraction of WorkerSlot: the   *)
(* slot holds the model of the llama-server that runs, and what is         *)
(* reported is the model_id of the worker's state.                         *)
SlotPhase == IF Running THEN "open" ELSE IF pc[Main] = "exit" THEN "closed" ELSE "abandoned"
SlotModel == IF Running /\ \E p \in Pids : Live(p)
               THEN image[CHOOSE p \in Pids : Live(p)] ELSE NoModel

Slot == INSTANCE WorkerSlot WITH slot <- SlotModel, reported <- model_id, phase <- SlotPhase

ImplementsSlot == Slot!Spec

(* supervisor.rs:179-229: every start and stop request gets its answer: no *)
(* lock is left held, no wait for a dying worker is unbounded.             *)
CallsReturn == \A c \in Clients : pc[c] # "idle" ~> pc[c] = "idle"

(* supervisor.rs:274-317: with restart_on_crash, a crashed worker is dealt *)
(* with as long as the daemon serves and restarts are left.                *)
CrashRecovered ==
    RestartOnCrash =>
      (status = "Crashed" /\ pc[Main] = "serve"
         ~> status # "Crashed" \/ restarts >= MaxRestarts \/ pc[Main] # "serve")

(* main.rs:524-531: once axum has closed its last connection the daemon    *)
(* ends, whatever restart the poller is in the middle of and whatever the  *)
(* worker makes of its signals.  That the connections close at all is not  *)
(* promised: a client that stops reading a stream keeps its own open.      *)
ShutdownCompletes == pc[Main] = "stop_lock" ~> ~DaemonUp

-----------------------------------------------------------------------------
(* What comments say, and the code does not keep                           *)

(* supervisor.rs:158-160 "Unexpected exit (not a deliberate stop) =>       *)
(* Crashed": after a deliberate stop the worker is not reported Crashed,   *)
(* which would have the poller start it again.                             *)
StopIsNotACrash == [][status = "Stopped" => status' # "Crashed"]_vars
=============================================================================
