-------------------------------- MODULE Jobs ---------------------------------
(***************************************************************************)
(* The two background jobs of the daemon: the model download of            *)
(* src/download.rs and the rebuild of llama.cpp of src/rebuild.rs, with    *)
(* the collectors of src/collect.rs that read what their commands print.   *)
(*                                                                         *)
(* A job is claimed by the HTTP handler, run by a task of its own, which   *)
(* the client does not have to wait for, and reported under the mutex of   *)
(* its state.  A download is one command and a registration; a rebuild is  *)
(* git pull, cmake whatever became of the pull, and a record.  A command's *)
(* descendants share its pipes: a collector ends when the last of them has *)
(* closed its end, or when it cannot read what they print, and the         *)
(* watchdog kills the command alone.                                       *)
(*                                                                         *)
(* A descendant can outlive its job, and all of them a daemon that dies;   *)
(* no code looks at a process whose output it does not read, and kids      *)
(* forgets it when the next command has pipes of its own.                  *)
(***************************************************************************)
EXTENDS Naturals, Sequences, FiniteSets

CONSTANTS
    Clients,          \* connections that call /api/hf/download and /api/rebuild
    Files, NoFile,    \* the GGUF files a download may find in the cache
    Ids, Id(_),       \* model ids, and derive_id of a file
    Configured,       \* [id, file] of the models in config.toml at first
    MaxHistory        \* builds that are remembered (20)

Kinds   == {"download", "rebuild"}
Entries == [id : Ids, file : Files]

ASSUME FileAssumption ==
    /\ NoFile \notin Files /\ \A f \in Files : Id(f) \in Ids
    /\ Configured \subseteq Entries
    /\ \A m, n \in Configured : m.id = n.id => m = n
ASSUME HistoryAssumption == MaxHistory \in Nat \ {0}

VARIABLES
    status,           \* of the job that is shown
    pc,               \* where the handler of a client is
    task, step,       \* where the task is, and at which command of a rebuild
    good,             \* no command has failed so far
    child,            \* the command: none, running, passed, failed (not waited for)
    kids,             \* a descendant of the last command holds its pipes
    reads,            \* a collector still reads them
    found,            \* the file of the download that is being registered
    history, disk,    \* builds, newest first: in memory and in builds.json
    torn,             \* builds.json was emptied and not filled again
    models, config,   \* the registry, and config.toml
    spoilt            \* config.toml holds half an entry and cannot be parsed

jobs    == <<status, task, step, good>>
procs   == <<child, kids, reads>>
builds  == <<history, disk, torn>>
catalog == <<found, models, config, spoilt>>
vars    == <<jobs, pc, procs, builds, catalog>>

TypeOK ==
    /\ status \in [Kinds -> {"idle", "running", "ok", "failed"}]
    /\ pc \in [Clients -> {"idle", "spawn_error", "sha", "stamp"}]
    /\ task \in [Kinds -> {"none", "spawn", "wait", "collect", "sha", "report",
                           "record", "save", "resolve", "register"}]
    /\ step \in {"pull", "build"}
    /\ good \in [Kinds -> BOOLEAN]
    /\ child \in [Kinds -> {"none", "running", "passed", "failed"}]
    /\ kids \in [Kinds -> BOOLEAN] /\ reads \in [Kinds -> BOOLEAN]
    /\ found \in Files \union {NoFile}
    /\ history \in Seq(BOOLEAN) /\ Len(history) <= MaxHistory
    /\ disk \in Seq(BOOLEAN) /\ Len(disk) <= MaxHistory /\ torn \in BOOLEAN
    /\ models \subseteq Entries /\ config \subseteq Entries /\ spoilt \in BOOLEAN

Init ==
    /\ status = [j \in Kinds |-> "idle"] /\ pc = [c \in Clients |-> "idle"]
    /\ task = [j \in Kinds |-> "none"] /\ step = "pull"
    /\ good = [j \in Kinds |-> TRUE]
    /\ child = [j \in Kinds |-> "none"]
    /\ kids = [j \in Kinds |-> FALSE] /\ reads = [j \in Kinds |-> FALSE]
    /\ found = NoFile
    /\ history = <<>> /\ disk = <<>> /\ torn = FALSE
    /\ models = Configured /\ config = Configured /\ spoilt = FALSE

Goto(c, label)     == pc' = [pc EXCEPT ![c] = label]
TaskAt(j, label)   == task' = [task EXCEPT ![j] = label]
Show(j, result)    == status' = [status EXCEPT ![j] = result]

(* Faulty variants of operators below: the bugs the properties must catch. *)
AnyStatus(j)       == TRUE
DontCollect(j)     == TRUE
AppendLast(result) == IF Len(history) < MaxHistory THEN Append(history, result)
                                                   ELSE history
Unbounded(result)  == <<result>> \o history
KnownFile(m)       == m \in models
NeverKills(j)      == FALSE
ForgetsPull(j)     ==
    /\ task[j] = "wait" /\ child[j] \in {"passed", "failed"}
    /\ good' = [good EXCEPT ![j] = child[j] = "passed"]
    /\ child' = [child EXCEPT ![j] = "none"]
    /\ TaskAt(j, "collect")
    /\ UNCHANGED <<status, step, pc, kids, reads, builds, catalog>>

(* Who takes the mutex of a job's state waits for a task that reports.     *)
Unlocked(j) == task[j] \notin {"record", "save", "resolve", "register"}

-----------------------------------------------------------------------------
(* The handlers                                                            *)

(* A second call is answered with an error and changes nothing.            *)
NotRunning(j) == status[j] # "running"

Claim(j) == Unlocked(j) /\ NotRunning(j) /\ Show(j, "running")

Launch(j) ==
    /\ child' = [child EXCEPT ![j] = "running"]
    /\ kids' = [kids EXCEPT ![j] = FALSE]
    /\ reads' = [reads EXCEPT ![j] = TRUE]
    /\ TaskAt(j, "wait")

(* DownloadManager::start: from the claim to the spawned task nothing is   *)
(* awaited, unless the command cannot be spawned.                          *)
StartDownload(c) ==
    /\ pc[c] = "idle"
    /\ Claim("download")
    /\ good' = [good EXCEPT !["download"] = TRUE]
    /\ \/ Launch("download") /\ UNCHANGED pc
       \/ Goto(c, "spawn_error") /\ UNCHANGED <<task, procs>>
    /\ UNCHANGED <<step, builds, catalog>>

SpawnError(c) ==
    /\ pc[c] = "spawn_error" /\ Unlocked("download")
    /\ Show("download", "failed")
    /\ Goto(c, "idle")
    /\ UNCHANGED <<task, step, good, procs, builds, catalog>>

(* RebuildManager::start.                                                  *)
StartRebuild(c) ==
    /\ pc[c] = "idle"
    /\ Claim("rebuild")
    /\ Goto(c, "sha")
    /\ UNCHANGED <<task, step, good, procs, builds, catalog>>

GitSha(c) ==
    /\ pc[c] = "sha"
    /\ Goto(c, "stamp")
    /\ UNCHANGED <<jobs, procs, builds, catalog>>

Stamp(c) ==
    /\ pc[c] = "stamp" /\ Unlocked("rebuild")
    /\ TaskAt("rebuild", "spawn") /\ step' = "pull"
    /\ good' = [good EXCEPT !["rebuild"] = TRUE]
    /\ Goto(c, "idle")
    /\ UNCHANGED <<status, procs, builds, catalog>>

(* The client leaves at an await: the future is dropped, the claim stays.  *)
Disconnect(c) ==
    /\ pc[c] # "idle"
    /\ Goto(c, "idle")
    /\ UNCHANGED <<jobs, procs, builds, catalog>>

-----------------------------------------------------------------------------
(* The task: its commands                                                  *)

(* A step's command is over, or could not be spawned.                      *)
NextStep(j) ==
    IF j = "download" THEN TaskAt(j, "report") /\ UNCHANGED step
    ELSE IF step = "pull" THEN TaskAt(j, "spawn") /\ step' = "build"
    ELSE TaskAt(j, "sha") /\ UNCHANGED step

SpawnStep ==
    /\ task["rebuild"] = "spawn"
    /\ \/ Launch("rebuild") /\ UNCHANGED <<step, good>>
       \/ NextStep("rebuild") /\ good' = [good EXCEPT !["rebuild"] = FALSE] /\ UNCHANGED procs
    /\ UNCHANGED <<status, pc, builds, catalog>>

(* child.wait() answers.                                                   *)
Waited(j) ==
    /\ task[j] = "wait" /\ child[j] \in {"passed", "failed"}
    /\ good' = [good EXCEPT ![j] = good[j] /\ child[j] = "passed"]
    /\ child' = [child EXCEPT ![j] = "none"]
    /\ TaskAt(j, "collect")
    /\ UNCHANGED <<status, step, pc, kids, reads, builds, catalog>>

(* The 30 minutes are over: start_kill, and wait for the command, which    *)
(* may have ended of itself by then.                                       *)
Expired(j) == child[j] # "none"

Watchdog(j) ==
    /\ task[j] = "wait" /\ Expired(j)
    /\ good' = [good EXCEPT ![j] = FALSE]
    /\ child' = [child EXCEPT ![j] = "none"]
    /\ TaskAt(j, "collect")
    /\ UNCHANGED <<status, step, pc, kids, reads, builds, catalog>>

(* The collectors are tasks of their own.  The last one is over at the end *)
(* of the pipe, or when what it reads is not text, as it may be any time.  *)
EndRead(j) ==
    /\ reads[j] /\ child[j] # "running" /\ ~kids[j]
    /\ reads' = [reads EXCEPT ![j] = FALSE]
    /\ UNCHANGED <<jobs, pc, child, kids, builds, catalog>>

GiveUp(j) ==
    /\ reads[j]
    /\ reads' = [reads EXCEPT ![j] = FALSE]
    /\ UNCHANGED <<jobs, pc, child, kids, builds, catalog>>

Joined(j) == ~reads[j]

Collect(j) ==
    /\ task[j] = "collect" /\ Joined(j)
    /\ NextStep(j)
    /\ UNCHANGED <<status, good, pc, procs, builds, catalog>>

-----------------------------------------------------------------------------
(* The task: its report                                                    *)

AfterSha ==
    /\ task["rebuild"] = "sha"
    /\ TaskAt("rebuild", "report")
    /\ UNCHANGED <<status, step, good, pc, procs, builds, catalog>>

(* The mutex is taken; a rebuild keeps it until its record is saved, a     *)
(* successful download until its model is registered.                      *)
ReportRebuild ==
    /\ task["rebuild"] = "report"
    /\ Show("rebuild", IF good["rebuild"] THEN "ok" ELSE "failed")
    /\ TaskAt("rebuild", "record")
    /\ UNCHANGED <<step, good, pc, procs, builds, catalog>>

Recorded(result) == SubSeq(<<result>> \o history, 1, IF Len(history) < MaxHistory
                                                       THEN Len(history) + 1 ELSE MaxHistory)

(* fs::write empties the file before it fills it; its errors are ignored.  *)
Record ==
    /\ task["rebuild"] = "record"
    /\ history' = Recorded(good["rebuild"])
    /\ torn' \in {torn, TRUE}
    /\ TaskAt("rebuild", "save")
    /\ UNCHANGED <<status, step, good, pc, procs, disk, catalog>>

Save ==
    /\ task["rebuild"] = "save"
    /\ \/ disk' = history /\ torn' = FALSE
       \/ UNCHANGED <<disk, torn>>
    /\ TaskAt("rebuild", "none")
    /\ UNCHANGED <<status, step, good, pc, procs, history, catalog>>

ReportDownload ==
    /\ task["download"] = "report"
    /\ IF good["download"]
         THEN TaskAt("download", "resolve") /\ UNCHANGED status
         ELSE TaskAt("download", "none") /\ Show("download", "failed")
    /\ UNCHANGED <<step, good, pc, procs, builds, catalog>>

Resolve ==
    /\ task["download"] = "resolve"
    /\ \/ /\ found' \in Files
          /\ TaskAt("download", "register") /\ UNCHANGED status
       \/ /\ TaskAt("download", "none") /\ Show("download", "failed")
          /\ UNCHANGED found
    /\ UNCHANGED <<step, good, pc, procs, builds, models, config, spoilt>>

Known(m) == \E n \in models : n.id = m.id

(* An id that is known keeps its file.  persist_model appends an entry, or *)
(* fails with nothing of it written, or with a part that spoils the file.  *)
Persist(m) ==
    \/ config' = config \union {m} /\ UNCHANGED spoilt
    \/ spoilt' \in {spoilt, TRUE} /\ UNCHANGED config

Register ==
    /\ task["download"] = "register"
    /\ LET m == [id |-> Id(found), file |-> found] IN
         IF Known(m) THEN UNCHANGED <<models, config, spoilt>>
         ELSE models' = models \union {m} /\ Persist(m)
    /\ found' = NoFile
    /\ Show("download", "ok")
    /\ TaskAt("download", "none")
    /\ UNCHANGED <<step, good, pc, procs, builds>>

-----------------------------------------------------------------------------
(* The commands, and the daemon's end                                      *)

Exit(j) ==
    /\ child[j] = "running"
    /\ \E result \in {"passed", "failed"} : child' = [child EXCEPT ![j] = result]
    /\ UNCHANGED <<jobs, pc, kids, reads, builds, catalog>>

Fork(j) ==
    /\ child[j] = "running"
    /\ kids' = [kids EXCEPT ![j] = TRUE]
    /\ UNCHANGED <<jobs, pc, child, reads, builds, catalog>>

(* The last of them closes its end.                                        *)
KidsExit(j) ==
    /\ kids[j]
    /\ kids' = [kids EXCEPT ![j] = FALSE]
    /\ UNCHANGED <<jobs, pc, child, reads, builds, catalog>>

(* Somebody takes the half entry out of config.toml.                       *)
Mend ==
    /\ spoilt /\ spoilt' = FALSE
    /\ UNCHANGED <<jobs, pc, procs, builds, found, models, config>>

(* The daemon ends, however, and is started again: it loads builds.json    *)
(* (nothing, if that cannot be parsed) and config.toml, without which it   *)
(* does not start.                                                         *)
Restart ==
    /\ ~spoilt
    /\ status' = [j \in Kinds |-> "idle"] /\ pc' = [c \in Clients |-> "idle"]
    /\ task' = [j \in Kinds |-> "none"] /\ step' = "pull"
    /\ good' = [j \in Kinds |-> TRUE]
    /\ child' = [j \in Kinds |-> "none"]
    /\ kids' = [j \in Kinds |-> FALSE] /\ reads' = [j \in Kinds |-> FALSE]
    /\ found' = NoFile
    /\ history' = IF torn THEN <<>> ELSE disk
    /\ models' = config
    /\ UNCHANGED <<disk, torn, config, spoilt>>

-----------------------------------------------------------------------------
Call(c)      == StartDownload(c) \/ StartRebuild(c) \/ Disconnect(c)
Handler(c)   == SpawnError(c) \/ GitSha(c) \/ Stamp(c)
Command(j)   == Waited(j) \/ Watchdog(j) \/ Collect(j)
Report       == AfterSha \/ ReportRebuild \/ Record \/ Save
Registration == ReportDownload \/ Resolve \/ Register
Host(j)      == Exit(j) \/ Fork(j) \/ KidsExit(j) \/ EndRead(j) \/ GiveUp(j)

Next ==
    \/ \E c \in Clients : Call(c) \/ Handler(c)
    \/ \E j \in Kinds : Command(j) \/ Host(j)
    \/ SpawnStep \/ Report \/ Registration \/ Mend \/ Restart

Spec == Init /\ [][Next]_vars

(***************************************************************************)
(* Fairness.  The runtime runs what is runnable, and the watchdog's timer  *)
(* goes off.  No command is obliged to end, nor `git rev-parse`, which has *)
(* no watchdog, and no descendant of one to close its pipes.               *)
(***************************************************************************)
Fairness ==
    /\ \A c \in Clients : WF_vars(SpawnError(c) \/ Stamp(c))
    /\ \A j \in Kinds : WF_vars(Command(j)) /\ WF_vars(EndRead(j))
    /\ WF_vars(SpawnStep) /\ WF_vars(Registration)
    /\ WF_vars(ReportRebuild \/ Record \/ Save)

FairSpec == Spec /\ Fairness

-----------------------------------------------------------------------------
(* Properties                                                              *)

Pending(j) == IF j = "download" THEN {"spawn_error"} ELSE {"sha", "stamp"}

(* DESIGN.md:344, 362 "one at a time": a claim is in the hands of one      *)
(* handler or of one task, and until it is reported the job is running,    *)
(* however calls, hang-ups and restarts interleave.                        *)
OneOwner(j) ==
    /\ \A c, d \in Clients : pc[c] \in Pending(j) /\ pc[d] \in Pending(j) => c = d
    /\ \A c \in Clients : pc[c] \in Pending(j) => task[j] = "none" /\ status[j] = "running"
    /\ task[j] \notin {"none", "record", "save"} => status[j] = "running"

OneJob == \A j \in Kinds : OneOwner(j)

(* download.rs:182-183, rebuild.rs:211-212: a command, and a collector of  *)
(* what it prints, has its task waiting for it and its job running: a job  *)
(* is not over, and neither its next command nor the next job begins,      *)
(* while one is left.  Of a descendant that is no longer read it says      *)
(* nothing: that may outlive the job.                                      *)
NothingUnawaited ==
    \A j \in Kinds :
        /\ child[j] # "none" => task[j] = "wait" /\ status[j] = "running"
        /\ reads[j] => task[j] \in {"wait", "collect"} /\ status[j] = "running"

(* rebuild.rs:156-173: once a rebuild is over the newest record says what  *)
(* the job that is shown says, at the cap of 20 records too.               *)
HistoryTruthful ==
    status["rebuild"] \in {"ok", "failed"} /\ task["rebuild"] = "none" =>
        history # <<>> /\ Head(history) = (status["rebuild"] = "ok")

(* download.rs:199-217: an id names one file, before and after a restart   *)
(* and whichever of two files of that name came first, and config.toml     *)
(* never holds a model that the running daemon does not know.              *)
RegistrySound ==
    /\ \A m, n \in models : m.id = n.id => m = n
    /\ config \subseteq models

(* download.rs:160-193, rebuild.rs:128-175: the task ends, with a command  *)
(* that hangs too, if only no descendant keeps pipes that are read open    *)
(* for ever and the `git rev-parse` after a build answers.                 *)
TasksEnd ==
    \A j \in Kinds :
        []<>~(kids[j] /\ reads[j]) /\ []<>(task[j] # "sha") =>
            (task[j] # "none" ~> task[j] = "none")

-----------------------------------------------------------------------------
(* The job as its status shows it: module JobSlot                          *)

Live(j) == child[j] # "none" \/ reads[j]

CommandsOf(j) == IF j = "rebuild" THEN 2 ELSE 1

Pulling == step = "pull" /\ task["rebuild"] \in {"spawn", "wait", "collect"}

(* Commands of the job that have not begun.                                *)
Todo(j) ==
    IF status[j] # "running" THEN 0
    ELSE IF task[j] = "none" THEN CommandsOf(j)
    ELSE (IF task[j] = "spawn" THEN 1 ELSE 0) + (IF j = "rebuild" /\ Pulling THEN 1 ELSE 0)

(* A command that has failed counts before its task knows.                 *)
Sound(j) == status[j] = "running" /\ task[j] # "none" => good[j] /\ child[j] # "failed"

Slot(j) == INSTANCE JobSlot WITH
             Commands <- CommandsOf(j), shown <- status[j],
             todo <- Todo(j), busy <- Live(j), sound <- Sound(j)

(* Whatever its handlers and its task do, and however they are cut short,  *)
(* a job is one of module JobSlot.                                         *)
ImplementsJob ==
    /\ \A j \in Kinds : Slot(j)!Init
    /\ [][\A j \in Kinds : [Slot(j)!Next]_(Slot(j)!vars)]_vars

-----------------------------------------------------------------------------
(* What a comment says, and the code does not keep.                        *)

(* download.rs:160-163 "Watch the child with a timeout so a hung `hf`      *)
(* can't leave the job "running" forever".                                 *)
DownloadEnds == task["download"] = "wait" ~> status["download"] # "running"
==============================================================================
