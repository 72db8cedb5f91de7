----------------------------- MODULE JobsProofs ------------------------------
(***************************************************************************)
(* Proofs about Jobs, for any number of clients, files and ids and any cap *)
(* of the history.  JobInv is inductive as it stands: that no command and  *)
(* no collector outlives the wait for it needs the job's one owner, and    *)
(* the one owner needs nothing else.                                       *)
(***************************************************************************)
EXTENDS Jobs, TLAPS

-----------------------------------------------------------------------------
(* The records                                                             *)

(* Recorded puts the result first and keeps the cap.                       *)
LEMMA RecordedFirst ==
    ASSUME NEW result \in BOOLEAN, history \in Seq(BOOLEAN), Len(history) <= MaxHistory
    PROVE  /\ Recorded(result) \in Seq(BOOLEAN)
           /\ Len(Recorded(result)) <= MaxHistory
           /\ Recorded(result) # <<>>
           /\ Head(Recorded(result)) = result
<1> DEFINE longer == <<result>> \o history
           n == IF Len(history) < MaxHistory THEN Len(history) + 1 ELSE MaxHistory
<1>1. longer \in Seq(BOOLEAN) /\ Len(longer) = Len(history) + 1 /\ longer[1] = result
  OBVIOUS
<1>2. n \in 1..Len(longer) /\ n <= MaxHistory
  BY <1>1, HistoryAssumption
<1> HIDE DEF longer, n
<1>3. /\ SubSeq(longer, 1, n) \in Seq(BOOLEAN)
      /\ Len(SubSeq(longer, 1, n)) = n
      /\ SubSeq(longer, 1, n)[1] = result
  BY <1>1, <1>2
<1>4. Recorded(result) = SubSeq(longer, 1, n)
  BY DEF Recorded, longer, n
<1> QED
  BY <1>2, <1>3, <1>4

-----------------------------------------------------------------------------
(* Types                                                                   *)

(* The task that registers has resolved a file.                            *)
Resolved == task["download"] = "register" => found \in Files

Typed == TypeOK /\ Resolved

LEMMA EmptyHistory == <<>> \in Seq(BOOLEAN) /\ Len(<<>>) <= MaxHistory
BY HistoryAssumption

LEMMA NextStepType ==
    ASSUME TypeOK, NEW j \in Kinds, NextStep(j)
    PROVE  /\ task' \in [Kinds -> {"none", "spawn", "wait", "collect", "sha", "report",
                                   "record", "save", "resolve", "register"}]
           /\ step' \in {"pull", "build"}
           /\ task'[j] \in {"spawn", "sha", "report"}
           /\ \A i \in Kinds \ {j} : task'[i] = task[i]
<1>1. CASE j = "download"
  BY <1>1 DEF NextStep, TaskAt, TypeOK, Kinds
<1>2. CASE j # "download" /\ step = "pull"
  BY <1>2 DEF NextStep, TaskAt, TypeOK, Kinds
<1>3. CASE j # "download" /\ step # "pull"
  BY <1>3 DEF NextStep, TaskAt, TypeOK, Kinds
<1> QED
  BY <1>1, <1>2, <1>3

LEMMA InitTyped == Init => Typed
<1> SUFFICES ASSUME Init PROVE Typed
  OBVIOUS
<1>1. Configured \subseteq Entries
  BY FileAssumption
<1> QED
  BY <1>1, EmptyHistory DEF Init, Typed, Resolved, TypeOK, Kinds

LEMMA NextTypeOK == Typed /\ [Next]_vars => TypeOK'
<1> SUFFICES ASSUME TypeOK, Resolved, [Next]_vars PROVE TypeOK'
  BY DEF Typed
<1> USE DEF TypeOK, Kinds, Goto, TaskAt, Show
<1>1. ASSUME NEW c \in Clients, StartDownload(c) PROVE TypeOK'
  <2>1. UNCHANGED <<step, builds, catalog>>
    BY <1>1 DEF StartDownload
  <2>2. /\ status' \in [Kinds -> {"idle", "running", "ok", "failed"}]
        /\ good' \in [Kinds -> BOOLEAN]
    BY <1>1 DEF StartDownload, Claim
  <2>3. CASE Launch("download") /\ UNCHANGED pc
    BY <2>1, <2>2, <2>3 DEF Launch, builds, catalog
  <2>4. CASE pc' = [pc EXCEPT ![c] = "spawn_error"] /\ UNCHANGED <<task, procs>>
    BY <2>1, <2>2, <2>4 DEF builds, catalog, procs
  <2> QED
    BY <1>1, <2>3, <2>4 DEF StartDownload
<1>2. ASSUME NEW c \in Clients, StartRebuild(c) PROVE TypeOK'
  BY <1>2 DEF StartRebuild, Claim, builds, catalog, procs
<1>3. ASSUME NEW c \in Clients, Disconnect(c) PROVE TypeOK'
  BY <1>3 DEF Disconnect, jobs, builds, catalog, procs
<1>4. ASSUME NEW c \in Clients, SpawnError(c) PROVE TypeOK'
  BY <1>4 DEF SpawnError, builds, catalog, procs
<1>5. ASSUME NEW c \in Clients, GitSha(c) PROVE TypeOK'
  BY <1>5 DEF GitSha, jobs, builds, catalog, procs
<1>6. ASSUME NEW c \in Clients, Stamp(c) PROVE TypeOK'
  BY <1>6 DEF Stamp, builds, catalog, procs
<1>7. ASSUME NEW j \in Kinds, Waited(j) PROVE TypeOK'
  BY <1>7 DEF Waited, builds, catalog
<1>8. ASSUME NEW j \in Kinds, Watchdog(j) PROVE TypeOK'
  BY <1>8 DEF Watchdog, builds, catalog
<1>9. ASSUME NEW j \in Kinds, Collect(j) PROVE TypeOK'
  BY <1>9, NextStepType DEF Collect, builds, catalog, procs
<1>10. ASSUME NEW j \in Kinds, Host(j) PROVE TypeOK'
  <2>1. UNCHANGED <<jobs, pc, builds, catalog>>
    BY <1>10 DEF Host, Exit, Fork, KidsExit, EndRead, GiveUp
  <2>2. /\ child' \in [Kinds -> {"none", "running", "passed", "failed"}]
        /\ kids' \in [Kinds -> BOOLEAN] /\ reads' \in [Kinds -> BOOLEAN]
    <3>1. CASE Exit(j)
      BY <3>1 DEF Exit
    <3>2. CASE Fork(j)
      <4>1. UNCHANGED <<child, reads>> /\ kids' = [kids EXCEPT ![j] = TRUE]
        BY <3>2 DEF Fork
      <4> QED
        BY <4>1
    <3>3. CASE KidsExit(j)
      <4>1. UNCHANGED <<child, reads>> /\ kids' = [kids EXCEPT ![j] = FALSE]
        BY <3>3 DEF KidsExit
      <4> QED
        BY <4>1
    <3>4. CASE EndRead(j) \/ GiveUp(j)
      <4>1. UNCHANGED <<child, kids>> /\ reads' = [reads EXCEPT ![j] = FALSE]
        BY <3>4 DEF EndRead, GiveUp
      <4> QED
        BY <4>1
    <3> QED
      BY <1>10, <3>1, <3>2, <3>3, <3>4 DEF Host
  <2> QED
    BY <2>1, <2>2 DEF jobs, builds, catalog
<1>11. CASE SpawnStep
  <2>1. CASE Launch("rebuild") /\ UNCHANGED <<step, good>>
    BY <1>11, <2>1 DEF SpawnStep, Launch, builds, catalog
  <2>2. CASE NextStep("rebuild") /\ good' = [good EXCEPT !["rebuild"] = FALSE]
             /\ UNCHANGED procs
    BY <1>11, <2>2, NextStepType DEF SpawnStep, builds, catalog, procs
  <2> QED
    BY <1>11, <2>1, <2>2 DEF SpawnStep
<1>12. CASE AfterSha \/ ReportRebuild
  BY <1>12 DEF AfterSha, ReportRebuild, builds, catalog, procs
<1>13. CASE Record
  <2>1. /\ Recorded(good["rebuild"]) \in Seq(BOOLEAN)
        /\ Len(Recorded(good["rebuild"])) <= MaxHistory
    BY RecordedFirst
  <2> QED
    BY <1>13, <2>1 DEF Record, catalog, procs
<1>14. CASE Save
  BY <1>14 DEF Save, catalog, procs
<1>15. CASE ReportDownload
  BY <1>15 DEF ReportDownload, builds, catalog, procs
<1>16. CASE Resolve
  BY <1>16 DEF Resolve, builds, procs
<1>17. CASE Register
  <2>1. [id |-> Id(found), file |-> found] \in Entries
    BY <1>17, FileAssumption DEF Register, Resolved, Entries
  <2>2. models' \subseteq Entries /\ config' \subseteq Entries /\ spoilt' \in BOOLEAN
    BY <1>17, <2>1 DEF Register, Persist
  <2> QED
    BY <1>17, <2>2 DEF Register, builds, procs
<1>18. CASE Restart
  <2>1. history' \in Seq(BOOLEAN) /\ Len(history') <= MaxHistory
    BY <1>18, EmptyHistory DEF Restart
  <2> QED
    BY <1>18, <2>1 DEF Restart
<1>19. CASE Mend \/ UNCHANGED vars
  BY <1>19 DEF Mend, vars, jobs, procs, builds, catalog
<1> QED
  BY <1>1, <1>2, <1>3, <1>4, <1>5, <1>6, <1>7, <1>8, <1>9, <1>10, <1>11, <1>12, <1>13,
     <1>14, <1>15, <1>16, <1>17, <1>18, <1>19
     DEF Next, Call, Handler, Command, Report, Registration

LEMMA NextTyped == Typed /\ [Next]_vars => Typed'
<1> SUFFICES ASSUME TypeOK, Resolved, [Next]_vars PROVE Resolved'
  BY NextTypeOK DEF Typed
<1> USE DEF TypeOK, Resolved, Kinds, Goto, TaskAt
<1>1. ASSUME NEW c \in Clients, Call(c) \/ Handler(c) PROVE Resolved'
  BY <1>1 DEF Call, Handler, StartDownload, StartRebuild, Disconnect, SpawnError, GitSha, Stamp,
              Launch, jobs, catalog
<1>2. ASSUME NEW j \in Kinds, Waited(j) \/ Watchdog(j) \/ Host(j) PROVE Resolved'
  BY <1>2 DEF Waited, Watchdog, Host, Exit, Fork, KidsExit, EndRead, GiveUp, jobs, catalog
<1>3. ASSUME NEW j \in Kinds, Collect(j) PROVE Resolved'
  BY <1>3, NextStepType DEF Collect, catalog
<1>4. CASE SpawnStep
  <2>1. UNCHANGED catalog /\ (Launch("rebuild") \/ NextStep("rebuild"))
    BY <1>4 DEF SpawnStep
  <2>2. task'["download"] = task["download"]
    BY <2>1, NextStepType DEF Launch
  <2> QED
    BY <2>1, <2>2 DEF catalog
<1>5. CASE Report
  BY <1>5 DEF Report, AfterSha, ReportRebuild, Record, Save, catalog
<1>6. CASE Registration
  BY <1>6 DEF Registration, ReportDownload, Resolve, Register
<1>7. CASE Restart
  BY <1>7 DEF Restart
<1>8. CASE Mend \/ UNCHANGED vars
  BY <1>8 DEF Mend, vars, jobs, catalog
<1> QED
  BY <1>1, <1>2, <1>3, <1>4, <1>5, <1>6, <1>7, <1>8 DEF Next, Command

(* Every variable keeps its type; in particular the builds remembered, in  *)
(* memory and on disk, never exceed the cap of 20.                         *)
THEOREM TypeCorrect == Spec => []TypeOK
<1>1. Typed => TypeOK
  BY DEF Typed
<1> QED
  BY <1>1, InitTyped, NextTyped, PTL DEF Spec

-----------------------------------------------------------------------------
(* One job of a kind, and nothing of it unawaited                          *)

(* No one takes a claim that is held: whoever may claim finds no handler   *)
(* pending and no task.                                                    *)
LEMMA ClaimIsFree ==
    ASSUME TypeOK, OneJob, NEW j \in Kinds, Unlocked(j), NotRunning(j)
    PROVE  task[j] = "none" /\ \A c \in Clients : pc[c] \notin Pending(j)
BY DEF TypeOK, OneJob, OneOwner, Unlocked, NotRunning

LEMMA InitOneJob == Init => OneJob /\ NothingUnawaited
BY DEF Init, OneJob, OneOwner, NothingUnawaited, Pending, Kinds

LEMMA NextOneJob == TypeOK /\ OneJob /\ [Next]_vars => OneJob'
<1> SUFFICES ASSUME TypeOK, OneJob, [Next]_vars PROVE OneJob'
  OBVIOUS
<1> USE DEF TypeOK, OneJob, OneOwner, Pending, Kinds, Goto, TaskAt, Show
<1>1. ASSUME NEW c \in Clients, StartDownload(c) PROVE OneJob'
  BY <1>1, ClaimIsFree DEF StartDownload, Claim, Launch
<1>2. ASSUME NEW c \in Clients, StartRebuild(c) PROVE OneJob'
  BY <1>2, ClaimIsFree DEF StartRebuild, Claim
<1>3. ASSUME NEW c \in Clients, Disconnect(c) PROVE OneJob'
  BY <1>3 DEF Disconnect, jobs
<1>4. ASSUME NEW c \in Clients, SpawnError(c) PROVE OneJob'
  <2>1. /\ pc[c] = "spawn_error" /\ UNCHANGED task /\ pc' = [pc EXCEPT ![c] = "idle"]
        /\ status' = [status EXCEPT !["download"] = "failed"]
    BY <1>4 DEF SpawnError
  <2>2. /\ task["download"] = "none" /\ \A d \in Clients : pc'[d] # "spawn_error"
        /\ \A d \in Clients : pc'[d] \in {"sha", "stamp"} => pc[d] = pc'[d]
    BY <2>1
  <2>3. OneOwner("download")'
    BY <2>1, <2>2
  <2>4. OneOwner("rebuild")'
    BY <2>1, <2>2
  <2> QED
    BY <2>3, <2>4
<1>5. ASSUME NEW c \in Clients, GitSha(c) PROVE OneJob'
  BY <1>5 DEF GitSha, jobs
<1>6. ASSUME NEW c \in Clients, Stamp(c) PROVE OneJob'
  BY <1>6 DEF Stamp
<1>7. ASSUME NEW j \in Kinds, Waited(j) \/ Watchdog(j) PROVE OneJob'
  BY <1>7 DEF Waited, Watchdog
<1>8. ASSUME NEW j \in Kinds, Collect(j) PROVE OneJob'
  BY <1>8, NextStepType DEF Collect
<1>9. ASSUME NEW j \in Kinds, Host(j) PROVE OneJob'
  BY <1>9 DEF Host, Exit, Fork, KidsExit, EndRead, GiveUp, jobs
<1>10. CASE SpawnStep
  <2>1. UNCHANGED <<status, pc>> /\ task["rebuild"] = "spawn"
    BY <1>10 DEF SpawnStep
  <2>2. task'["rebuild"] \in {"wait", "spawn", "sha", "report"} /\ task'["download"] = task["download"]
    BY <1>10, NextStepType DEF SpawnStep, Launch
  <2> QED
    BY <2>1, <2>2
<1>11. CASE Report
  <2>1. CASE AfterSha
    BY <2>1 DEF AfterSha
  <2>2. CASE ReportRebuild
    BY <2>2 DEF ReportRebuild
  <2>3. CASE Record
    BY <2>3 DEF Record
  <2>4. CASE Save
    BY <2>4 DEF Save
  <2> QED
    BY <1>11, <2>1, <2>2, <2>3, <2>4 DEF Report
<1>12. CASE Registration
  BY <1>12 DEF Registration, ReportDownload, Resolve, Register
<1>13. CASE Restart
  BY <1>13 DEF Restart
<1>14. CASE Mend \/ UNCHANGED vars
  BY <1>14 DEF Mend, vars, jobs
<1> QED
  BY <1>1, <1>2, <1>3, <1>4, <1>5, <1>6, <1>7, <1>8, <1>9, <1>10, <1>11, <1>12, <1>13, <1>14
     DEF Next, Call, Handler, Command

LEMMA NextAwaited ==
    TypeOK /\ OneJob /\ NothingUnawaited /\ [Next]_vars => NothingUnawaited'
<1> SUFFICES ASSUME TypeOK, OneJob, NothingUnawaited, [Next]_vars PROVE NothingUnawaited'
  OBVIOUS
<1> USE DEF TypeOK, NothingUnawaited, Kinds, Goto, TaskAt, Show
<1>1. ASSUME NEW c \in Clients, StartDownload(c) PROVE NothingUnawaited'
  BY <1>1, ClaimIsFree DEF StartDownload, Claim, Launch, procs
<1>2. ASSUME NEW c \in Clients, StartRebuild(c) PROVE NothingUnawaited'
  BY <1>2, ClaimIsFree DEF StartRebuild, Claim, procs
<1>3. ASSUME NEW c \in Clients, Disconnect(c) \/ GitSha(c) PROVE NothingUnawaited'
  BY <1>3 DEF Disconnect, GitSha, jobs, procs
<1>4. ASSUME NEW c \in Clients, SpawnError(c) \/ Stamp(c) PROVE NothingUnawaited'
  BY <1>4 DEF SpawnError, Stamp, OneJob, OneOwner, Pending, procs
<1>5. ASSUME NEW j \in Kinds, Waited(j) \/ Watchdog(j) PROVE NothingUnawaited'
  BY <1>5 DEF Waited, Watchdog, Expired
<1>6. ASSUME NEW j \in Kinds, Collect(j) PROVE NothingUnawaited'
  BY <1>6, NextStepType DEF Collect, Joined, procs
<1>7. ASSUME NEW j \in Kinds, Host(j) PROVE NothingUnawaited'
  <2>1. UNCHANGED jobs
    BY <1>7 DEF Host, Exit, Fork, KidsExit, EndRead, GiveUp
  <2>2. CASE Exit(j)
    BY <2>1, <2>2 DEF Exit, jobs
  <2>3. CASE Fork(j) \/ KidsExit(j)
    BY <2>1, <2>3 DEF Fork, KidsExit, jobs
  <2>4. CASE EndRead(j) \/ GiveUp(j)
    <3>1. UNCHANGED child /\ \A i \in Kinds : reads'[i] => reads[i]
      BY <2>4 DEF EndRead, GiveUp
    <3> QED
      BY <2>1, <3>1 DEF jobs
  <2> QED
    BY <1>7, <2>2, <2>3, <2>4 DEF Host
<1>8. CASE SpawnStep
  <2>1. /\ UNCHANGED status
        /\ child["rebuild"] = "none" /\ ~reads["rebuild"] /\ status["rebuild"] = "running"
    BY <1>8 DEF SpawnStep, OneJob, OneOwner
  <2>2. CASE Launch("rebuild")
    BY <2>1, <2>2 DEF Launch
  <2>3. CASE NextStep("rebuild") /\ UNCHANGED procs
    BY <2>1, <2>3, NextStepType DEF procs
  <2> QED
    BY <1>8, <2>2, <2>3 DEF SpawnStep
<1>9. CASE Report
  <2>1. CASE AfterSha \/ ReportRebuild
    BY <2>1 DEF AfterSha, ReportRebuild, procs
  <2>2. CASE Record \/ Save
    <3>1. /\ task["rebuild"] \in {"record", "save"} /\ UNCHANGED <<status, child, reads>>
          /\ task'["download"] = task["download"]
      BY <2>2 DEF Record, Save, procs
    <3>2. child["rebuild"] = "none" /\ ~reads["rebuild"]
      BY <3>1
    <3> QED
      BY <3>1, <3>2
  <2> QED
    BY <1>9, <2>1, <2>2 DEF Report
<1>10. CASE Registration
  BY <1>10 DEF Registration, ReportDownload, Resolve, Register, procs
<1>11. CASE Restart
  BY <1>11 DEF Restart
<1>12. CASE Mend \/ UNCHANGED vars
  BY <1>12 DEF Mend, vars, jobs, procs
<1> QED
  BY <1>1, <1>2, <1>3, <1>4, <1>5, <1>6, <1>7, <1>8, <1>9, <1>10, <1>11, <1>12
     DEF Next, Call, Handler, Command

(* download.rs:118-132, rebuild.rs:103-115: the claim under the mutex lets *)
(* one job of a kind exist at a time, whoever calls, hangs up or restarts  *)
(* the daemon meanwhile.                                                   *)
THEOREM AtMostOneJob == Spec => []OneJob
<1> DEFINE Inv == Typed /\ OneJob
<1>1. Init => Inv
  BY InitTyped, InitOneJob
<1>2. Inv /\ [Next]_vars => Inv'
  BY NextTyped, NextOneJob DEF Typed
<1> QED
  BY <1>1, <1>2, PTL DEF Spec

(* download.rs:182-183, rebuild.rs:211-212: no command and no collector is *)
(* there without its job's task waiting for it, so that none is when the   *)
(* job is over or its next command begins.                                 *)
THEOREM AllIsAwaited == Spec => []NothingUnawaited
<1> DEFINE Inv == Typed /\ OneJob /\ NothingUnawaited
<1>1. Init => Inv
  BY InitTyped, InitOneJob
<1>2. Inv /\ [Next]_vars => Inv'
  BY NextTyped, NextOneJob, NextAwaited DEF Typed
<1> QED
  BY <1>1, <1>2, PTL DEF Spec

-----------------------------------------------------------------------------
(* The registry                                                            *)

LEMMA InitRegistry == Init => RegistrySound
BY FileAssumption DEF Init, RegistrySound

LEMMA NextRegistry == RegistrySound /\ [Next]_vars => RegistrySound'
<1> SUFFICES ASSUME RegistrySound, [Next]_vars PROVE RegistrySound'
  OBVIOUS
<1>1. CASE UNCHANGED <<models, config>>
  BY <1>1 DEF RegistrySound
<1>2. CASE Register
  <2> DEFINE m == [id |-> Id(found), file |-> found]
  <2>1. CASE Known(m)
    BY <1>1, <1>2, <2>1 DEF Register
  <2>2. CASE ~Known(m)
    <3>1. models' = models \union {m} /\ config' \subseteq config \union {m}
      BY <1>2, <2>2 DEF Register, Persist
    <3>2. \A n \in models : n.id # m.id
      BY <2>2 DEF Known
    <3> QED
      BY <3>1, <3>2 DEF RegistrySound
  <2> QED
    BY <2>1, <2>2
<1>3. CASE Restart
  BY <1>3 DEF Restart, RegistrySound
<1>4. ASSUME NEW c \in Clients, Call(c) \/ Handler(c) PROVE UNCHANGED catalog
  BY <1>4 DEF Call, Handler, StartDownload, StartRebuild, Disconnect, SpawnError, GitSha, Stamp
<1>5. ASSUME NEW j \in Kinds, Command(j) \/ Host(j) PROVE UNCHANGED catalog
  BY <1>5 DEF Command, Host, Waited, Watchdog, Collect, Exit, Fork, KidsExit, EndRead, GiveUp
<1>6. CASE SpawnStep \/ Report \/ ReportDownload \/ Resolve \/ Mend
  BY <1>1, <1>6 DEF Mend, SpawnStep, Report, AfterSha, ReportRebuild, Record, Save, ReportDownload,
                    Resolve, catalog
<1> QED
  BY <1>1, <1>2, <1>3, <1>4, <1>5, <1>6 DEF Next, Registration, catalog, vars

(* download.rs:203-220: whatever files are downloaded, in whatever order   *)
(* and with restarts between, an id names one of them.                     *)
THEOREM OneFilePerId == Spec => []RegistrySound
BY InitRegistry, NextRegistry, PTL DEF Spec

-----------------------------------------------------------------------------
(* The record                                                              *)

(* What the task writes next, or has just written, is what it showed.      *)
Shown(result) == status["rebuild"] = (IF result THEN "ok" ELSE "failed")

Recording ==
    /\ task["rebuild"] = "record" => Shown(good["rebuild"])
    /\ task["rebuild"] = "save" => history # <<>> /\ Shown(Head(history))

LEMMA InitRecording == Init => HistoryTruthful /\ Recording
BY DEF Init, HistoryTruthful, Recording, Kinds

LEMMA NextRecording ==
    TypeOK /\ OneJob /\ HistoryTruthful /\ Recording /\ [Next]_vars
        => HistoryTruthful' /\ Recording'
<1> SUFFICES ASSUME TypeOK, OneJob, HistoryTruthful, Recording, [Next]_vars
             PROVE  HistoryTruthful' /\ Recording'
  OBVIOUS
<1> USE DEF TypeOK, HistoryTruthful, Recording, Shown, Kinds, Goto, TaskAt, Show
<1>1. ASSUME UNCHANGED history,
             UNCHANGED <<status["rebuild"], task["rebuild"], good["rebuild"]>>
      PROVE  HistoryTruthful' /\ Recording'
  BY <1>1
<1>2. ASSUME UNCHANGED history,
             status'["rebuild"] \in {"idle", "running"},
             task'["rebuild"] \notin {"record", "save"}
      PROVE  HistoryTruthful' /\ Recording'
  BY <1>2
<1>3. ASSUME NEW c \in Clients, Call(c) \/ SpawnError(c) \/ GitSha(c)
      PROVE  HistoryTruthful' /\ Recording'
  <2>1. CASE StartRebuild(c)
    BY <1>2, <2>1, ClaimIsFree DEF StartRebuild, Claim, builds
  <2>2. CASE StartDownload(c) \/ Disconnect(c) \/ SpawnError(c) \/ GitSha(c)
    BY <1>1, <2>2 DEF StartDownload, Disconnect, SpawnError, GitSha, Claim, Launch, jobs, builds
  <2> QED
    BY <1>3, <2>1, <2>2 DEF Call
<1>4. ASSUME NEW c \in Clients, Stamp(c) PROVE HistoryTruthful' /\ Recording'
  BY <1>2, <1>4 DEF Stamp, OneJob, OneOwner, Pending, builds
<1>5. ASSUME NEW j \in Kinds, Command(j) PROVE HistoryTruthful' /\ Recording'
  <2>1. UNCHANGED <<status, history>> /\ task[j] \in {"wait", "collect"}
    BY <1>5 DEF Command, Waited, Watchdog, Collect, builds
  <2>2. CASE j = "download"
    <3>1. UNCHANGED <<task["rebuild"], good["rebuild"]>>
      BY <1>5, <2>2, NextStepType DEF Command, Waited, Watchdog, Collect
    <3> QED
      BY <1>1, <2>1, <3>1
  <2>3. CASE j = "rebuild"
    <3>1. status["rebuild"] = "running"
      BY <2>1, <2>3 DEF OneJob, OneOwner
    <3>2. task'["rebuild"] \notin {"record", "save"}
      BY <1>5, <2>3, NextStepType DEF Command, Waited, Watchdog, Collect
    <3> QED
      BY <1>2, <2>1, <3>1, <3>2
  <2> QED
    BY <2>2, <2>3
<1>6. ASSUME NEW j \in Kinds, Host(j) PROVE HistoryTruthful' /\ Recording'
  BY <1>1, <1>6 DEF Host, Exit, Fork, KidsExit, EndRead, GiveUp, jobs, builds
<1>7. CASE SpawnStep \/ AfterSha
  <2>1. UNCHANGED <<status, history>> /\ status["rebuild"] = "running"
    BY <1>7 DEF SpawnStep, AfterSha, builds, OneJob, OneOwner
  <2>2. task'["rebuild"] \notin {"record", "save"}
    BY <1>7, NextStepType DEF SpawnStep, AfterSha, Launch
  <2> QED
    BY <1>2, <2>1, <2>2
<1>8. CASE ReportRebuild
  BY <1>8 DEF ReportRebuild
<1>9. CASE Record
  BY <1>9, RecordedFirst DEF Record
<1>10. CASE Save
  <2>1. history # <<>> /\ Shown(Head(history)) /\ UNCHANGED <<status, history>>
    BY <1>10 DEF Save
  <2>2. Head(history) \in BOOLEAN
    <3> HIDE DEF HistoryTruthful, Recording, Shown
    <3>1. history \in Seq(BOOLEAN) /\ history # <<>>
      BY <2>1
    <3> QED
      BY ONLY <3>1
  <2>3. Head(history) = (status["rebuild"] = "ok")
    <3>1. CASE Head(history)
      BY <2>1, <3>1
    <3>2. CASE ~Head(history)
      <4>1. status["rebuild"] = "failed"
        BY <2>1, <3>2
      <4> QED
        BY <2>2, <3>2, <4>1
    <3> QED
      BY <2>2, <3>1, <3>2
  <2>4. task'["rebuild"] = "none"
    BY <1>10 DEF Save
  <2> QED
    BY <2>1, <2>3, <2>4
<1>11. CASE Registration
  <2>1. CASE ReportDownload
    BY <1>1, <2>1 DEF ReportDownload, builds
  <2>2. CASE Resolve \/ Register
    BY <1>1, <2>2 DEF Resolve, Register, builds
  <2> QED
    BY <1>11, <2>1, <2>2 DEF Registration
<1>12. CASE Restart
  BY <1>12 DEF Restart
<1>13. CASE Mend \/ UNCHANGED vars
  BY <1>1, <1>13 DEF Mend, vars, jobs, builds
<1> QED
  BY <1>3, <1>4, <1>5, <1>6, <1>7, <1>8, <1>9, <1>10, <1>11, <1>12, <1>13
     DEF Next, Handler, Report

(* rebuild.rs:150-177: the newest record is that of the rebuild which is   *)
(* shown, however full the history is.                                     *)
THEOREM RecordIsTrue == Spec => []HistoryTruthful
<1> DEFINE Inv == Typed /\ OneJob /\ HistoryTruthful /\ Recording
<1>1. Init => Inv
  BY InitTyped, InitOneJob, InitRecording
<1>2. Inv /\ [Next]_vars => Inv'
  BY NextTyped, NextOneJob, NextRecording DEF Typed
<1> QED
  BY <1>1, <1>2, PTL DEF Spec
-----------------------------------------------------------------------------
(* The job as its status shows it                                          *)

(* Which steps a task takes, where it has a command, that a download is    *)
(* registered only if its command has passed, and that a rebuild which is  *)
(* being recorded is shown as over.                                        *)
Ordered ==
    /\ task["download"] \notin {"spawn", "sha", "record", "save"}
    /\ task["rebuild"] \notin {"resolve", "register"}
    /\ \A j \in Kinds : child[j] # "none" <=> task[j] = "wait"
    /\ task["download"] \in {"resolve", "register"} => good["download"]
    /\ task["rebuild"] \in {"record", "save"} => status["rebuild"] # "running"

LEMMA InitOrdered == Init => Ordered
BY DEF Init, Ordered, Kinds

LEMMA NextOrdered == TypeOK /\ OneJob /\ Ordered /\ [Next]_vars => Ordered'
<1> SUFFICES ASSUME TypeOK, OneJob, Ordered, [Next]_vars PROVE Ordered'
  OBVIOUS
<1> USE DEF TypeOK, Ordered, Kinds, Goto, TaskAt, Show
<1>1. ASSUME NEW c \in Clients, StartDownload(c) PROVE Ordered'
  BY <1>1, ClaimIsFree DEF StartDownload, Claim, Launch, procs
<1>2. ASSUME NEW c \in Clients, StartRebuild(c) \/ Disconnect(c) \/ SpawnError(c) \/ GitSha(c)
      PROVE  Ordered'
  BY <1>2 DEF StartRebuild, Disconnect, SpawnError, GitSha, Claim, Unlocked, jobs, procs
<1>3. ASSUME NEW c \in Clients, Stamp(c) PROVE Ordered'
  BY <1>3 DEF Stamp, OneJob, OneOwner, Pending, procs
<1>4. ASSUME NEW j \in Kinds, Waited(j) \/ Watchdog(j) PROVE Ordered'
  BY <1>4 DEF Waited, Watchdog
<1>5. ASSUME NEW j \in Kinds, Collect(j) PROVE Ordered'
  BY <1>5 DEF Collect, NextStep, procs
<1>6. ASSUME NEW j \in Kinds, Host(j) PROVE Ordered'
  BY <1>6 DEF Host, Exit, Fork, KidsExit, EndRead, GiveUp, jobs
<1>7. CASE SpawnStep
  BY <1>7 DEF SpawnStep, Launch, NextStep, procs
<1>8. CASE Report
  <2>1. CASE AfterSha
    BY <2>1 DEF AfterSha, procs
  <2>2. CASE ReportRebuild
    BY <2>2 DEF ReportRebuild, procs
  <2>3. CASE Record
    BY <2>3 DEF Record, procs
  <2>4. CASE Save
    BY <2>4 DEF Save, procs
  <2> QED
    BY <1>8, <2>1, <2>2, <2>3, <2>4 DEF Report
<1>9. CASE Registration
  BY <1>9 DEF Registration, ReportDownload, Resolve, Register, procs
<1>10. CASE Restart
  BY <1>10 DEF Restart
<1>11. CASE Mend \/ UNCHANGED vars
  BY <1>11 DEF Mend, vars, jobs, procs
<1> QED
  BY <1>1, <1>2, <1>3, <1>4, <1>5, <1>6, <1>7, <1>8, <1>9, <1>10, <1>11
     DEF Next, Call, Handler, Command

JobInv == Typed /\ OneJob /\ NothingUnawaited /\ Ordered

LEMMA JobInvariance == Spec => []JobInv
<1>1. Init => JobInv
  BY InitTyped, InitOneJob, InitOrdered DEF JobInv
<1>2. JobInv /\ [Next]_vars => JobInv'
  BY NextTyped, NextOneJob, NextAwaited, NextOrdered DEF Typed, JobInv
<1> QED
  BY <1>1, <1>2, PTL DEF Spec

LEMMA SlotStart == Init => \A j \in Kinds : Slot(j)!Init
BY DEF Init, Slot!Init, Todo, Live, Sound, Kinds

(* A job that nothing happens to takes no step.                            *)
LEMMA Untouched ==
    ASSUME NEW j \in Kinds,
           UNCHANGED <<status[j], task[j], good[j], child[j], reads[j]>>,
           j = "rebuild" => UNCHANGED step
    PROVE  UNCHANGED Slot(j)!vars
BY DEF Slot!vars, Todo, CommandsOf, Live, Sound, Pulling, Kinds
LEMMA StartIsStep ==
    ASSUME JobInv, NEW c \in Clients, Call(c) \/ Handler(c), NEW j \in Kinds
    PROVE  [Slot(j)!Next]_(Slot(j)!vars)
<1> USE DEF JobInv, Typed, TypeOK, Kinds, Goto, TaskAt, Show
<1>1. CASE StartDownload(c)
  <2>1. CASE j = "rebuild"
    BY <1>1, <2>1, Untouched DEF StartDownload, Claim, Launch, procs
  <2>2. CASE j = "download"
    <3>1. ~Slot(j)!Running /\ ~Live(j)
      BY <1>1, <2>2 DEF StartDownload, Claim, NotRunning, NothingUnawaited, Slot!Running, Live
    <3>2. status'[j] = "running" /\ Sound(j)'
      BY <1>1, <2>2, <3>1 DEF StartDownload, Claim, Launch, Live, Sound, procs
    <3>3. \/ Todo(j)' = CommandsOf(j) /\ Live(j)' = FALSE
          \/ Todo(j)' = CommandsOf(j) - 1 /\ Live(j)' = TRUE
      BY <1>1, <2>2, <3>1, ClaimIsFree
         DEF StartDownload, Claim, Launch, Todo, CommandsOf, Live, Pulling, procs
    <3> QED
      BY <3>1, <3>2, <3>3 DEF Slot!Next, Slot!Claim
  <2> QED
    BY <2>1, <2>2
<1>2. CASE StartRebuild(c)
  <2>1. CASE j = "download"
    BY <1>2, <2>1, Untouched DEF StartRebuild, Claim, procs
  <2>2. CASE j = "rebuild"
    <3>1. ~Slot(j)!Running /\ ~Live(j)
      BY <1>2, <2>2 DEF StartRebuild, Claim, NotRunning, NothingUnawaited, Slot!Running, Live
    <3>2. status'[j] = "running" /\ Sound(j)' /\ Todo(j)' = CommandsOf(j) /\ Live(j)' = FALSE
      BY <1>2, <2>2, <3>1, ClaimIsFree
         DEF StartRebuild, Claim, Sound, Todo, CommandsOf, Live, procs
    <3> QED
      BY <3>1, <3>2 DEF Slot!Next, Slot!Claim
  <2> QED
    BY <2>1, <2>2
<1>3. CASE Disconnect(c) \/ GitSha(c)
  BY <1>3, Untouched DEF Disconnect, GitSha, jobs, procs
<1>4. CASE SpawnError(c)
  <2>1. CASE j = "rebuild"
    BY <1>4, <2>1, Untouched DEF SpawnError, procs
  <2>2. CASE j = "download"
    <3>1. status[j] = "running" /\ task[j] = "none" /\ ~Live(j)
      BY <1>4, <2>2 DEF SpawnError, OneJob, OneOwner, Pending, NothingUnawaited, Live
    <3>2. status'[j] = "failed" /\ Todo(j)' = 0 /\ Sound(j)' /\ Live(j)' = Live(j)
      BY <1>4, <2>2, <3>1 DEF SpawnError, Todo, Sound, Live, procs
    <3> QED
      BY <3>1, <3>2 DEF Slot!Next, Slot!Finish, Slot!Running
  <2> QED
    BY <2>1, <2>2
<1>5. CASE Stamp(c)
  <2>1. CASE j = "download"
    BY <1>5, <2>1, Untouched DEF Stamp, procs
  <2>2. CASE j = "rebuild"
    <3>1. status[j] = "running" /\ task[j] = "none" /\ child[j] = "none"
      BY <1>5, <2>2 DEF Stamp, OneJob, OneOwner, Pending, Ordered
    <3>2. UNCHANGED <<status[j], Todo(j), Live(j), Sound(j)>>
      BY <1>5, <2>2, <3>1 DEF Stamp, Todo, CommandsOf, Pulling, Live, Sound, procs
    <3> QED
      BY <3>2 DEF Slot!vars
  <2> QED
    BY <2>1, <2>2
<1> QED
  BY <1>1, <1>2, <1>3, <1>4, <1>5 DEF Call, Handler

(* While a command is there a step of its, or of the task that waits for   *)
(* it, leaves status and remaining commands alone and repairs nothing.     *)
LEMMA WorkIsStep ==
    ASSUME JobInv, NEW i \in Kinds, Waited(i) \/ Watchdog(i) \/ Host(i), NEW j \in Kinds
    PROVE  [Slot(j)!Next]_(Slot(j)!vars)
<1> USE DEF JobInv, Typed, TypeOK, Kinds, TaskAt
<1>1. CASE j # i
  BY <1>1, Untouched DEF Waited, Watchdog, Host, Exit, Fork, KidsExit, EndRead, GiveUp, jobs
<1>2. CASE KidsExit(i)
  BY <1>2, Untouched DEF KidsExit, jobs
<1>3. CASE j = i /\ ~KidsExit(i)
  <2>1. Live(j)
    BY <1>3 DEF Waited, Watchdog, Expired, Host, Exit, Fork, EndRead, GiveUp, Live
  <2>2. status[j] = "running" /\ task[j] \in {"wait", "collect"}
    BY <2>1 DEF NothingUnawaited, Live
  <2>3. UNCHANGED <<status, step>> /\ task'[j] \in {"wait", "collect"}
    BY <1>3, <2>2 DEF Waited, Watchdog, Host, Exit, Fork, EndRead, GiveUp, jobs
  <2>4. Todo(j)' = Todo(j)
    BY <2>2, <2>3 DEF Todo, Pulling
  <2>5. Sound(j)' \in {Sound(j), FALSE} /\ Live(j)' \in BOOLEAN
    <3>1. Sound(j)' => Sound(j)
      BY <1>3, <2>2, <2>3 DEF Waited, Watchdog, Host, Exit, Fork, EndRead, GiveUp, Sound, jobs
    <3>2. Sound(j) \in BOOLEAN /\ Sound(j)' \in BOOLEAN /\ Live(j)' \in BOOLEAN
      BY DEF Sound, Live
    <3> QED
      BY <3>1, <3>2
  <2> QED
    BY <2>1, <2>2, <2>3, <2>4, <2>5 DEF Slot!Next, Slot!Work, Slot!Running
<1> QED
  BY <1>1, <1>2, <1>3

(* A command is over, or cannot be spawned; the next begins.               *)
LEMMA CommandIsStep ==
    ASSUME JobInv, (\E i \in Kinds : Collect(i)) \/ SpawnStep, NEW j \in Kinds
    PROVE  [Slot(j)!Next]_(Slot(j)!vars)
<1> USE DEF JobInv, Typed, TypeOK, Kinds, TaskAt
<1>1. ASSUME NEW i \in Kinds, Collect(i) PROVE [Slot(j)!Next]_(Slot(j)!vars)
  <2>1. CASE j # i
    BY <1>1, <2>1, Untouched DEF Collect, NextStep, procs
  <2>2. CASE j = i
    <3>1. status[j] = "running" /\ task[j] = "collect"
      BY <1>1, <2>2 DEF Collect, OneJob, OneOwner
    <3>2. UNCHANGED <<status[j], Todo(j), Live(j), Sound(j)>>
      BY <1>1, <2>2, <3>1 DEF Collect, NextStep, Todo, CommandsOf, Pulling, Live, Sound, procs
    <3> QED
      BY <3>2 DEF Slot!vars
  <2> QED
    BY <2>1, <2>2
<1>2. CASE SpawnStep
  <2>1. CASE j = "download"
    BY <1>2, <2>1, Untouched DEF SpawnStep, Launch, NextStep, procs
  <2>2. CASE j = "rebuild"
    <3>1. status[j] = "running" /\ task[j] = "spawn" /\ ~Live(j) /\ status'[j] = "running"
      BY <1>2, <2>2 DEF SpawnStep, OneJob, OneOwner, NothingUnawaited, Live
    <3>2. Todo(j) > 0 /\ Todo(j)' = Todo(j) - 1
      BY <1>2, <2>2, <3>1 DEF SpawnStep, Launch, NextStep, Todo, Pulling
    <3>3. CASE Launch("rebuild") /\ UNCHANGED <<step, good>>
      <4>1. Live(j)' = TRUE /\ Sound(j)' = Sound(j)
        BY <1>2, <2>2, <3>1, <3>3 DEF SpawnStep, Launch, Live, Sound
      <4> QED
        BY <3>1, <3>2, <4>1 DEF Slot!Next, Slot!Begin, Slot!Running
    <3>4. CASE NextStep("rebuild") /\ good' = [good EXCEPT !["rebuild"] = FALSE]
               /\ UNCHANGED procs
      <4>1. task'[j] # "none"
        BY <2>2, <3>4 DEF NextStep
      <4>2. Live(j)' = Live(j) /\ Sound(j)' = FALSE
        BY <2>2, <3>1, <3>4, <4>1 DEF Live, Sound, procs
      <4> QED
        BY <3>1, <3>2, <4>2 DEF Slot!Next, Slot!Skip, Slot!Running
    <3> QED
      BY <1>2, <3>3, <3>4 DEF SpawnStep
  <2> QED
    BY <2>1, <2>2
<1> QED
  BY <1>1, <1>2

(* The report: the job is over, and "ok" only if everything has passed.    *)
LEMMA ReportIsStep ==
    ASSUME JobInv, Report \/ Registration, NEW j \in Kinds
    PROVE  [Slot(j)!Next]_(Slot(j)!vars)
<1> USE DEF JobInv, Typed, TypeOK, Kinds, TaskAt, Show
<1>1. CASE AfterSha
  <2>1. task["rebuild"] = "sha" /\ UNCHANGED <<status, step, good, procs>>
        /\ task' = [task EXCEPT !["rebuild"] = "report"]
    BY <1>1 DEF AfterSha
  <2>2. UNCHANGED <<status[j], Todo(j), Live(j), Sound(j)>>
    BY <2>1 DEF Todo, Pulling, Live, Sound, procs
  <2> QED
    BY <2>2 DEF Slot!vars
<1>2. CASE ReportRebuild
  <2>1. CASE j = "download"
    BY <1>2, <2>1, Untouched DEF ReportRebuild, procs
  <2>2. CASE j = "rebuild"
    <3>1. /\ status[j] = "running" /\ task[j] = "report" /\ ~Live(j) /\ Live(j)' = Live(j)
          /\ child[j] = "none"
      BY <1>2, <2>2 DEF ReportRebuild, OneJob, OneOwner, NothingUnawaited, Live, procs
    <3>2. Todo(j) = 0 /\ Sound(j) = good[j]
      BY <2>2, <3>1 DEF Todo, Pulling, Sound
    <3>3. status'[j] = IF good[j] THEN "ok" ELSE "failed"
      BY <1>2, <2>2 DEF ReportRebuild
    <3>4. Todo(j)' = 0 /\ Sound(j)' = TRUE
      BY <3>3 DEF Todo, Sound
    <3> QED
      BY <3>1, <3>2, <3>3, <3>4 DEF Slot!Next, Slot!Finish, Slot!Running
  <2> QED
    BY <2>1, <2>2
<1>3. CASE Record \/ Save
  <2>1. UNCHANGED <<status, step, good, procs>> /\ task["rebuild"] \in {"record", "save"}
        /\ task' \in {[task EXCEPT !["rebuild"] = "save"], [task EXCEPT !["rebuild"] = "none"]}
    BY <1>3 DEF Record, Save
  <2>2. CASE j = "download"
    BY <2>1, <2>2, Untouched DEF procs
  <2>3. CASE j = "rebuild"
    <3>1. status[j] # "running" /\ UNCHANGED <<status[j], procs>>
      BY <2>1, <2>3 DEF Ordered
    <3>2. UNCHANGED <<Todo(j), Live(j), Sound(j)>>
      BY <3>1 DEF Todo, Live, Sound, procs
    <3> QED
      BY <3>1, <3>2 DEF Slot!vars
  <2> QED
    BY <2>2, <2>3
<1>4. CASE Registration
  <2>1. CASE j = "rebuild"
    BY <1>4, <2>1, Untouched DEF Registration, ReportDownload, Resolve, Register, procs
  <2>2. CASE j = "download"
    <3>1. /\ status[j] = "running" /\ task[j] \in {"report", "resolve", "register"}
          /\ ~Live(j) /\ Live(j)' = Live(j) /\ child[j] = "none"
      BY <1>4, <2>2 DEF Registration, ReportDownload, Resolve, Register,
                        OneJob, OneOwner, NothingUnawaited, Live, procs
    <3>2. Todo(j) = 0 /\ Sound(j) = good[j]
      BY <2>2, <3>1 DEF Todo, Sound
    <3>3. CASE status' = status
      <4>1. task'[j] \in {"resolve", "register"} /\ UNCHANGED <<good, procs>>
        BY <1>4, <2>2, <3>1, <3>3 DEF Registration, ReportDownload, Resolve, Register
      <4>2. Todo(j)' = 0 /\ Sound(j)' = good[j]
        BY <2>2, <3>1, <3>3, <4>1 DEF Todo, Sound, procs
      <4> QED
        BY <3>1, <3>2, <3>3, <4>2 DEF Slot!vars
    <3>4. CASE status' # status
      <4>1. status'[j] = "failed" \/ (status'[j] = "ok" /\ good[j])
        BY <1>4, <2>2, <3>1, <3>4 DEF Registration, ReportDownload, Resolve, Register, Ordered
      <4>2. Todo(j)' = 0 /\ Sound(j)' = TRUE
        BY <4>1 DEF Todo, Sound
      <4> QED
        BY <3>1, <3>2, <4>1, <4>2 DEF Slot!Next, Slot!Finish, Slot!Running
    <3> QED
      BY <3>3, <3>4
  <2> QED
    BY <2>1, <2>2
<1> QED
  BY <1>1, <1>2, <1>3, <1>4 DEF Report

LEMMA SlotStep ==
    ASSUME JobInv, [Next]_vars, NEW j \in Kinds
    PROVE  [Slot(j)!Next]_(Slot(j)!vars)
<1>1. CASE Restart
  <2>1. status'[j] = "idle" /\ Todo(j)' = 0 /\ Live(j)' = FALSE /\ Sound(j)' = TRUE
    BY <1>1 DEF Restart, Todo, Live, Sound, Kinds
  <2> QED
    BY <2>1 DEF Slot!Next, Slot!Lost
<1>2. CASE Mend \/ UNCHANGED vars
  BY <1>2, Untouched DEF Mend, vars, jobs, procs
<1> QED
  BY <1>1, <1>2, StartIsStep, WorkIsStep, CommandIsStep, ReportIsStep DEF Next, Command

(* download.rs, rebuild.rs: through the mapping each job is one of module  *)
(* JobSlot: its commands run one after the other and never beside another  *)
(* job's, and it is "ok" only if all were executed and none failed.        *)
THEOREM Refinement == Spec => ImplementsJob
<1>1. JobInv /\ [Next]_vars => [\A j \in Kinds : [Slot(j)!Next]_(Slot(j)!vars)]_vars
  BY SlotStep
<1> QED
  BY <1>1, SlotStart, JobInvariance, PTL DEF Spec, ImplementsJob
==============================================================================
