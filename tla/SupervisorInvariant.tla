------------------------ MODULE SupervisorInvariant -------------------------
(***************************************************************************)
(* The inductive invariant behind SoleWorker, NoOrphan, NoOrphanAtExit,    *)
(* StoppedMeansNoWorker and ReportedModelRuns.  None of them is inductive  *)
(* alone: what keeps a second worker out is who may be inside the section  *)
(* that kills and spawns, and what that section knows at each of its       *)
(* labels about the recorded pid and the processes of the host.            *)
(***************************************************************************)
EXTENDS Supervisor

(* Typing alone is not inductive: spawn_pid must have a child to record.   *)
ChildKnown == \A a \in Actors : pc[a] = "spawn_pid" => myPid[a] \in Pids

(* What no run of the safety theorems may do: see NoOrphan and its run     *)
(* with a client that hangs up between the fork and the record of the pid. *)
ChildIsRecorded == "spawn_pid" \notin DisconnectAt

NoneLive == \A p \in Pids : ~Live(p)

(* Each actor only ever is at labels of its own code.                      *)
OwnLabels ==
    /\ pc[Main] \in MainLabels \union SpawnLabels \union StopLabels \union {"stop_lock"}
    /\ pc[Poller] \in PollLabels \union SpawnLabels \union StopLabels
    /\ \A c \in Clients : pc[c] \in Section \union {"idle", "start_lock", "stop_lock"}

(* The section is entered under the lifecycle mutex, or at boot.           *)
Holding == \A a \in Actors :
             pc[a] \in Section => lifecycle = a \/ (a = Main /\ pc[Main] \in SpawnLabels)

(* Nobody else runs before boot is over or after the daemon is gone.       *)
Quiet ==
    /\ pc[Main] \in {"reap", "exit", "down", "bind"} \union SpawnLabels =>
         \A c \in Clients : pc[c] = "idle"
    /\ pc[Main] \in {"reap", "exit", "down"} \union SpawnLabels =>
         pc[Poller] = "tick" /\ lifecycle = NoActor
    /\ pc[Main] \in {"reap", "exit", "down"} =>
         pid = NoPid /\ model_id = NoModel /\ waiters = {}

(* The calls know their model; main stops, after boot, with none.          *)
Arguments ==
    /\ pc[Main] \notin SpawnLabels => arg[Main] = NoModel
    /\ \A a \in Actors : pc[a] \in {"spawn_exec", "spawn_failed", "spawn_pid"} =>
         model_id = arg[a]
    /\ pc[Poller] \in StopLabels => arg[Poller] # NoModel
    /\ \A a \in Actors :
         pc[a] \in SpawnLabels \union {"start_lock", "start_pid", "reset", "restart_lock"} =>
           arg[a] # NoModel

(* A wait-task's process is not reaped before it; the recorded pid has a   *)
(* wait-task and, while it lives, runs the recorded model.                 *)
Recorded ==
    /\ \A p \in waiters : proc[p] \notin {"free", "other"}
    /\ pid # NoPid => pid \in waiters /\ (Live(pid) => image[pid] = model_id)

(* What the actor in the section knows.                                    *)
Knows(a) ==
    /\ pc[a] \in {"kill_term", "kill_wait", "kill_kill"} =>
         myPid[a] \in Pids /\ pid \in {myPid[a], NoPid}
    /\ pc[a] = "kill_clear" => NoneLive
    /\ pc[a] \in SpawnLabels \union {"reset"} => pid = NoPid
    /\ pc[a] \in {"reset", "spawn_begin", "spawn_exec", "spawn_failed"} => NoneLive
    /\ pc[a] \in {"spawn_exec", "spawn_pid"} => status # "Stopped"
    /\ pc[a] = "spawn_pid" =>
         /\ myPid[a] \in Pids \ waiters
         /\ proc[myPid[a]] \notin {"free", "other"}
         /\ Live(myPid[a]) => image[myPid[a]] = model_id

(* "Stopped" is written when no worker is left.                            *)
StoppedEmpty == Running /\ status = "Stopped" => NoneLive

(* Shutdown: once main is past the drain no request is in flight, and once *)
(* it has stopped the worker a restart still waiting cannot be granted.    *)
Ending ==
    /\ pc[Main] \in {"drain", "stop_lock", "leave"} \union StopLabels => shutting_down
    /\ pc[Main] \in {"stop_lock", "leave"} \union StopLabels => NoRequestInFlight
    /\ pc[Main] = "leave" =>
         /\ pid = NoPid /\ NoneLive
         /\ pc[Poller] \notin Section
         /\ pc[Poller] \in {"want", "restart_lock"} => status = "Stopped"

IInv ==
    /\ TypeOK /\ OwnLabels /\ Holding /\ Quiet /\ Arguments /\ Recorded
    /\ \A a \in Actors : Knows(a)
    /\ NoOrphan /\ StoppedEmpty /\ Ending /\ NoOrphanAtExit

(***************************************************************************)
(* What is left of it when a client may hang up at spawn_pid as well: a    *)
(* worker may then run that nobody knows of, but the section still belongs *)
(* to one actor, and what it knows of the recorded pid is still true.      *)
(***************************************************************************)
Grips(a) ==
    /\ pc[a] \in {"kill_term", "kill_wait", "kill_kill"} =>
         myPid[a] \in Pids /\ pid \in {myPid[a], NoPid}
    /\ pc[a] = "kill_clear" => pid = NoPid \/ ~Live(pid)
    /\ pc[a] \in SpawnLabels \union {"reset"} => pid = NoPid
    /\ pc[a] = "spawn_pid" =>
         /\ myPid[a] \in Pids \ waiters
         /\ proc[myPid[a]] \notin {"free", "other"}
         /\ Live(myPid[a]) => image[myPid[a]] = model_id

CoreInv ==
    /\ TypeOK /\ OwnLabels /\ Holding /\ Quiet /\ Arguments /\ Recorded
    /\ \A a \in Actors : Grips(a)

(* supervisor.rs:63-68, 179-229: no two actors kill and spawn at once.     *)
OneInSection == \A a, b \in Actors : pc[a] \in Section /\ pc[b] \in Section => a = b

(* The restart counter when the poller waits for the lifecycle mutex.      *)
BudgetInv ==
    /\ RestartBudget
    /\ pc[Poller] = "restart_lock" => restarts < MaxRestarts
=============================================================================
