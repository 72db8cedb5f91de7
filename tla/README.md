# llm-ctl in TLA+

llm-ctl is a Rust daemon that owns the one `llama-server` of a GPU host: it
starts, watches, switches and stops it, proxies completions to it one at a time,
records every turn in Postgres, downloads models, rebuilds llama.cpp and reports
all of it to a web panel and to a pi extension. This directory holds TLA+ models
of its core, their TLC runs, and TLAPS proofs about them. Paths below are
relative to the repository; `supervisor.rs` stands for `src/supervisor.rs`.

Contents: [inventory](#inventory), [modules](#modules), [runs](#runs),
[fairness](#fairness), [proofs](#proofs), [what the code does not
keep](#what-the-code-does-not-keep), [abstractions](#abstractions),
[not modelled](#not-modelled), [plan](#plan), [how to run](#how-to-run).

## Inventory

| component | state it keeps | operations | hard behaviour | correct when |
|---|---|---|---|---|
| supervisor (`supervisor.rs`) | `WorkerState` behind one mutex: model_id, pid, status, stopping, restarts, last_restart, started_at; the `lifecycle` mutex; `shutting_down`; one detached wait-task per child | `start_model`, `stop`, `spawn`, `stop_inner`, wait-task, `poll`, `maybe_restart`, `poll_slots` | the state mutex is taken and dropped several times per operation; the poller decides on what it read before a network wait; handlers are cancelled when their client leaves; pids are reused; the worker outlives the daemon | one worker at most, none lost, none left at exit, status and model truthful, restart budget kept, every call returns |
| boot and shutdown (`main.rs`, `reap.rs`) | the main task | reap, autostart, bind, signal, drain, final stop | SIGTERM in the middle of a start, a stop or a restart; boot failures after the worker is up | as above |
| completion proxy (`proxy.rs`) | the `busy` flag and its `InFlight` guards; per request: the session, the upstream request, a 64-slot channel, a detached stream task with its SSE buffer and `Collector` | `handle_completion`, `stream_and_record`, `record_turn`, `forward` | the future is dropped at any await; the stream task outlives the connection; 10s, 30s, 300s and 1800s timers; the worker may be switched between check and use; chunks cut lines anywhere, giant lines are thrown away piece by piece | the gate opens and closes exactly; a turn is recorded in its own session and is what its lines give; streams end |
| session hint (`main.rs`, `pi-ext/llama-stats.ts`) | `active_session`, one for the daemon | `session_start`, `session_shutdown` of an agent | several agents, one hint | a request's own header wins |
| turn store (`store.rs`, `migrations/`) | Postgres: `sessions`, `turns`; a pool of five | `record_turn`, `resolve_session`, `list_sessions`, `record_fake_turn` | seven round trips of several writers under READ COMMITTED, locks, lookups that want the same row and the same pool, cancelled transactions, two pools | turns numbered without gaps, rollup equal to their sum, no deadlock |
| download job (`download.rs`, `collect.rs`) | one `Job` behind a mutex; the model registry it shares with the supervisor; `config.toml` | start, collectors, watchdog, report, resolve, register | claim before spawn, cancelled handlers, a watchdog that kills only the direct child, an append that may fail, or fail halfway | one job at a time, no command or collector left when it is over, an id names one file, every job ends |
| rebuild job (`rebuild.rs`, `collect.rs`) | one `Job`; the build history, in memory and in `builds.json` | start, two commands, watchdog, report, record | as above; a claim held over an await; a file written in place | as above; the newest record is the outcome shown |
| statistics (`stats.rs`) | the previous `/proc/stat` sample | `collect` | counters that decrease | no underflow |
| configuration (`config.rs`), probes (`pve.rs`, `db.rs`), panel (`web/`), infrastructure (`infra/`) | none while running | parse, query, display | – | – |

How they interact: the HTTP handlers and the poller call the supervisor; the
proxy reads `model_id` and the port from `WorkerState`, writes
`last_request_at` and `last_turn` into it, and connects to whatever listens on
the worker's port; the proxy's recorder and `/api/session-test` call the store,
each with its own pool; the pi extension posts the hint the proxy reads; main
ends the daemon after axum has drained its connections, which the detached stream
tasks are not.

Every hazard of weight found in the code, with the line where it bites and the properties
that would catch it, is in `PROJECT.json` under `hazards`.

## Modules

* **`WorkerSlot`** – what the supervisor promises: a slot that holds at most one
  model, is filled only when empty, only with the model that is reported, and is empty
  at an orderly end; the model reported is announced only while the slot is empty. Abstract;
  no locks, pids or tasks. `Supervisor` implements it and `Proxy` relies on it.
* **`Supervisor`** – the worker's life cycle. `pc[a]` says at which await point
  actor `a` (a client's handler, the poller, main) is; the labels of `spawn`
  (`spawn_*`) and `stop_inner` (`kill_*`) are shared by all who call them, and
  one action is one stretch of code between two points where the state mutex is
  taken, a sleep ends or the network answers. `proc`, `image`, `waiters` are the
  kernel's view: what each pid is, which model it was started with, which child
  has a wait-task. `Disconnect` drops a handler's future at the points in
  `DisconnectAt`; `Crash` and `Restart` end and begin a daemon while the worker
  lives on; `OtherProcess` reuses pids. `RestartOnCrash` is the setting
  `worker.restart_on_crash`. `Drained` is the step in which axum has closed its last connection.
* **`SupervisorInvariant`** – the inductive invariant `IInv`; `CoreInv`, what is left of it
  when a client may hang up at any await; and the one of the restart counter, `BudgetInv`.
  **`SupervisorProofs`** – the theorems.
  **`MCSupervisor`** – TLC's instances.
* **`Proxy`** – completions through the proxy. `pc[c]` is the handler of
  connection `c` (`"body"`: the response is being streamed), `task[c]` its stream
  task, `rec[c]` `record_turn` wherever it runs, `queued[c]` the channel,
  `up[c]` the model that has the upstream request. `busy` and `holds` are the
  flag and the connections whose handler owns a guard. The worker is environment, and its
  steps are those of an instance of `WorkerSlot` (`Worker!Announce`, `Launch`, `Vacate`,
  `Close`): `Proxy` may rely on what `Supervisor` is proved to offer, and on nothing else.
  **`ProxyProofs`** – the theorems. **`MCProxy`** – TLC's instances.
* **`Stream`** – the stream task of one connection, byte by byte. `answer` is what the
  llama-server will send (its length, where its newlines are, what each line holds for
  the collector), `got` how much has arrived, `from` how much has left `buf`, `fed` the
  lines the `Collector` was given. A chunk is any number of bytes, named by
  where it begins and ends in the answer, so that one can see whether the client gets them in order; lines are drained one by
  one, what exceeds `MAX_SSE_BUF` is cleared; then the chunk goes into the channel. The loop is
  left at the end of the answer, after an error, or at the deadline, and the turn is built.
  `P == INSTANCE Proxy WITH ...` maps it to the stream task of `Proxy`.
  **`StreamProofs`** – the theorems. **`MCStream`** – TLC's instance.
* **`TurnLog`** – what recording promises: a log per session that only grows, to which a call
  appends its turn once, in the step that ends the call, or never. Abstract; no statements,
  locks, indices or connections.
* **`Store`** – `record_turn` and `resolve_session` statement by statement. `pc[w]` is the
  statement about to be executed (`"touch"`: the upsert of a lookup), `idx[w]`, `rollup[w]`
  what the transaction has read and written, `advisory` and `row` the locks it holds until
  commit or rollback. Writers share the store's pool for recordings and lookups; testers
  (`/api/session-test`) have a pool of their own. `Log == INSTANCE TurnLog WITH ...` reads the
  log of a session off its rows, ordered by index, and what is pending off `pc`: a call that is
  being rolled back has lost its turn already. **`StoreProofs`** – the theorems;
  **`SumTheorems`** – sums over finite sets, for the rollup.
  **`MCStore`** – TLC's instances.
* **`JobSlot`** – what a job promises to whoever reads its status: claimed when none is running,
  its commands executed one after the other, over when none of them runs and the output of none
  is read any more, `ok` only if all were executed and none failed. Abstract; no handlers, tasks or mutexes.
* **`Jobs`** – downloads and rebuilds. `status[j]` is what the panel is shown of the job
  of kind `j`, `pc[c]` where a client's handler is, `task[j]` where the spawned task is
  (`step` says at which of a rebuild's two commands), `good[j]` whether anything has
  failed, `child[j]` the command, `kids[j]` whether a descendant of the last command holds its
  pipes, and `reads[j]` whether a collector still reads them. `history` and `disk` are the builds
  in memory and in `builds.json`, `torn` that
  the file was emptied and not yet filled; `models` and `config` the registry and
  `config.toml`, `spoilt` that half an entry ended up in it. A report that keeps the job's mutex over several steps is several
  actions, and `Unlocked` what makes a handler wait for it; the steps are apart because
  the daemon may die between them. `Slot(j) == INSTANCE JobSlot WITH ...` maps the job of
  kind `j` to a `JobSlot`: its commands not yet begun are read off `task[j]` and `step`, and it
  is busy while `child[j]` is there or `reads[j]` holds. **`JobsProofs`** – the theorems. **`MCJobs`**
  – TLC's instances.

The modules compose along three chains of refinement:
`Supervisor` ⟶ `WorkerSlot` ⟵ `Proxy` ⟵ `Stream`, `Store` ⟶ `TurnLog`, and `Jobs` ⟶ `JobSlot`. An arrow to an
abstract specification is proved and checked; `Proxy` takes the steps of `WorkerSlot` as
its environment's, and the task of `Stream` takes only steps of the task of `Proxy`.

Definitions whose value is a plausible mistake of the code (`AcquireUnlocked`,
`ClearFlag`, `FromOne` ...) stand in a block of their own in each module. No
specification uses them; each is what a property must detect, and `mutants` in
`PROJECT.json` says which.

## Runs

All finish within three minutes. "cfg" names the file; `PROJECT.json` repeats
the properties of each.

| run | cfg | question and bounds |
|---|---|---|
| `supervisor` | MCSupervisor | All safety of the life cycle, and that `Supervisor` implements `WorkerSlot`. Two clients, so that a start meets a start or a stop; the poller makes a third contender, main a fourth. Two pids: the least with which an old and a new worker can exist at once, pid reuse included. Two models, so that a switch is a switch. One restart, so that the budget is exhausted. Hang-ups at every await point but the one after `cmd.spawn()`; what holds with that one too is proved (`CoreInvariance`, `ReportedModelIsTrue`, `OnlyHangUpsLose`). |
| `live` | MCSupervisorLive | Calls return, a crash is dealt with (`restart_on_crash` is on), and once axum has closed its last connection after SIGTERM the daemon ends; one client, one model. |
| `proxy` | MCProxy | The gate. Two connections, each with a handler and a stream task: the least with which two requests compete. Two models. A channel of one slot in place of 64: full and empty are the cases. No sessions (they do not touch the gate). |
| `proxy_live` | MCProxyLive | The gate is released, streams end, a request's header wins. One connection: what delays a guard or a stream task is its own upstream, store and client, and another connection holds none of them. Two sessions and two models, the hint changing at any time. |
| `stream` | MCStream | What is recorded of a stream and what its client sees; that the task is the one of `Proxy`; that a drain ends. A buffer of two bytes, for which the answers have lines that fit, fill it exactly and exceed it by one, so that with every cut a giant line is thrown away in one piece or in two, between two that must survive; an answer whose end lacks its newline, one without any line; a channel of two. |
| `store` | MCStore | Numbering, rollup, that `Store` implements `TurnLog`, and no deadlock: two writers that record and look up behind a pool of one, so that one waits for a connection while others wait for locks; a session test with its own pool; two sessions that share a lock key (the hash may collide). A session takes a recording only while it has no turn, but all that are under way by then add theirs. |
| `jobs` | MCJobs | Safety and termination of both jobs, and that each implements `JobSlot`. Two clients, so that a call meets a call, and a call a hang-up; both kinds at once, for they share the restart. Three files, two of which derive the same id and one of which is configured. A history of one in place of 20: the first rebuild fills it, the second must push that record out; `RecordIsTrue` is proved for any cap. |

Where a run lists no `TypeOK`, the types are a part of the inductive invariant that it does
check (`IInv`, `StoreInv`, `StreamInv`).

Symmetry is used in two runs, neither of which states fairness: over pids, models and
clients (`supervisor`), connections and models (`proxy`), all of which the specifications
and the properties treat alike.
`CHECK_DEADLOCK FALSE` is given for `Proxy` and `Stream` alone: after `Exit` the daemon is gone,
after the end of the body the task is over, and nothing has to happen; `Supervisor` and `Jobs`
have restarts, `Store` goes on for ever.

The other runs each check one statement of a comment or document that the code
does not keep; see [below](#what-the-code-does-not-keep).

What the runs show, beyond passing:
* `SoleWorker` and `NoOrphan` hold because of three things together: the lifecycle
  mutex around kill and spawn, the wait-task's comparison of pids before it
  clears the state, and the reaper at boot. Each has a mutant that breaks them.
* Where `NoOrphan` fails (`hang_up`), it fails in one way only: no interleaving of starts, stops,
  restarts, crashes and pid reuse puts a running worker out of reach, except the hang-up
  itself. That is the theorem `OnlyHangUpsLose`; no run has the bounds to show more of it than
  `NoOrphan`.
* After SIGTERM the daemon ends once its connections are closed (`ShutdownCompletes`). That they
  will be is promised by nothing: axum waits for every connection (`main.rs:524-526`), and a client
  that keeps its stream open without reading (`proxy.rs:493`) holds the daemon until somebody kills it.
* `NoOrphanAtExit` holds although a restart may be carried out after SIGTERM: main
  stops the worker after it, and no restart still waiting can then pass its test.
* The gate never wedges and is never open to two handlers (`GateExact`), but it does
  not cover streams, so only whole answers exclude each other (`OneWholeAnswer`).
* Stream tasks end even if llama-server, Postgres and the client do nothing, unless
  the client stays connected with its channel full: `tx.send` has no
  timeout, and the 1800s deadline is tested only at the head of the loop. This is the
  `[]<>` hypothesis of `StreamEnds`.
* Wherever the chunks cut an answer and whatever giant lines it contains, every line that
  fits the buffer is fed whole, once and in order (`LinesFed`). A line without its newline at
  the end of the answer is never fed; `TurnWhole` is about the terminated ones.
* The client gets the bytes in order and without a gap, and a body that ends without an error
  has delivered the whole answer, except after the 1800s deadline, where the loop is left without an `Err` (`CleanEnd`, `proxy.rs:456-459`).
* The turns of a session stay dense and the rollup exact; of the two locks, the
  advisory one is redundant as long as the upsert comes before the MAX, for the
  upsert keeps the session's row locked. The order of the statements is what matters
  (mutant `IndexFirst`). A call ends in the step that commits its turn, so that no call can
  leave its turn twice (`ImplementsLog`; mutant `Retries`).
* A job is claimed once and over once: no two commands of a kind run together, and when
  the job is reported its command is gone and its output no longer read (`NothingUnawaited`). The
  price is that a descendant that never closes its pipes keeps the job for ever (`job_hangs`);
  besides it, only the `git rev-parse` after a build can (`rebuild.rs:148`, no watchdog):
  `TasksEnd` has the two as its hypotheses. A descendant whose output is no longer read, because
  it closed the pipes or because they carried no text (`collect.rs:44`), may outlive the job,
  and the next one may run beside it. A rebuild whose pull failed cannot end `ok`, although cmake runs
  all the same (`ImplementsJob`, mutant `ForgetsPull`).

## Fairness

* `Supervisor`: weak fairness of every actor's steps (the runtime polls runnable
  tasks; `/bin/kill` and sleeps end; the HTTP client has a timeout), strong fairness
  of taking the lifecycle mutex (tokio's mutex is granted in the order of the
  requests), weak fairness of the wait-tasks (a child that has exited is reaped) and
  of the 5s cool-down. Nothing makes a worker exit or a client call, nor connections close
  after SIGTERM: `Drained` has no fairness.
* `Proxy`: weak fairness of the handler's steps and of the timers: the 10s around the
  store, the 300s of an upstream request; strong fairness of `TaskError`, because a
  chunk in between does not put the total timeout off. llama-server, Postgres and
  clients have no fairness at all.
* `Stream`: weak fairness of splitting and of sending (the runtime polls runnable tasks),
  strong fairness of `Error`: the 300s total timeout is not put off by chunks. The server and
  a client that stays have none, and the deadline is not relied on.
* `Store`: strong fairness of every task's grants and statements (the pool's and Postgres's
  queues are in order; for a statement that waits for nothing this is no more than weak
  fairness), the rollback of what a dead daemon has left among them: Postgres notices in the end
  that a connection is gone. No timeout is relied on, since `/api/session-test` has none.
* `Jobs`: weak fairness of the handlers' steps, of the tasks', and of the watchdog, whose
  timer goes off; a collector ends once nobody holds its pipe. No command is obliged to exit and
  no descendant to close its pipes, nor `git rev-parse`, which has no watchdog, to answer.

## Proofs

`tlapm` on `SupervisorProofs.tla`, `ProxyProofs.tla`, `StreamProofs.tla`, `StoreProofs.tla`,
`SumTheorems.tla` and `JobsProofs.tla` checks every theorem below for all values of the constants.

**Supervisor.** Assumptions: actors are distinct, the null values are no pids or
models, the modulus is positive; and, where a worker could be lost, `ChildIsRecorded`:
no client hangs up between `cmd.spawn()` and the write of the pid. Without it
`NoOrphan` is false, which the run `hang_up` shows. Only the theorems marked * below carry
that hypothesis; the others hold wherever clients hang up. The safety properties are not
inductive. `IInv` adds: who may be at which labels (`OwnLabels`), that the section
which kills and spawns is entered under the lifecycle mutex or at boot (`Holding`),
that nobody else runs at boot or after the end (`Quiet`), what calls carry
(`Arguments`), how the recorded pid, the wait-tasks and the processes relate
(`Recorded`), what an actor in the section knows (`Knows`: for example, no worker is
alive from the end of `stop_inner` to `cmd.spawn()`), and what shutdown has
established (`Ending`). Without `ChildIsRecorded` all of these lose the fact that no other
worker is alive, but not who is in the section nor what it knows of the *recorded* pid:
`CoreInv`, with `Grips` in the place of `Knows`, is inductive by itself, and is enough for
`ReportedModelRuns` and for `LostOnlyByHangUp`. The latter has one lemma for a worker that is
recorded (`RecordStays`: its record is cleared only once it is dead, and is never overwritten)
and one for a worker about to be recorded (`ChildStays`: its spawner goes on to record it, or
hangs up). One lemma per action, or one step per action, and one per part it disturbs.

| theorem | states |
|---|---|
| `TypeCorrect` | `TypeOK` |
| `Invariance`* | `IInv` |
| `OneWorker`*, `NoWorkerLost`*, `CleanExit`*, `StoppedIsTrue`* | the safety properties `SoleWorker`, `NoOrphan`, `NoOrphanAtExit`, `StoppedMeansNoWorker` |
| `CoreInvariance`, `SectionExclusive` | `CoreInv`; no two actors kill and spawn at once |
| `ReportedModelIsTrue` | `ReportedModelRuns`: the recorded worker runs the reported model |
| `OnlyHangUpsLose` | `LostOnlyByHangUp`: what `NoWorkerLost` assumes is the only thing that can break it |
| `BudgetKept` | the restart counter stays within `max_restarts` |
| `CounterKept` | with `MaxRestarts < RestartModulus`, only `start_model` lowers it; the counter is a u8 and the cap a u32, and a cap of 256 or more makes the hypothesis false |
| `Refinement`* | `Supervisor` implements `WorkerSlot`: also that the model reported changes only in an empty slot and is the one launched |

**Proxy.** Assumptions: distinct null values, a positive channel capacity.
`GateExact` is inductive together with `Placement`: a stream task exists only when
its connection's handler has returned, an upstream request belongs to a handler that
waits for it or to a task, a recorder to exactly one of the two. `TypeCorrect`,
`Invariance` (`GateInv`), `Gate` (`GateExact`) and `OneAnswer` (`OneWholeAnswer`). `HeaderWins`
(`HeaderBinds`): a turn with a header is recorded in the header's session or a fresh one
(the lookup failed), whatever the hint does; its invariant `Bound` follows the session from `Resolve` to the
recorder.

**Stream.** Assumptions: an answer's newlines are in order and within it, the channel has room
for one. `StreamInv` is inductive: `CollectInv`, about what is collected, by itself, and `Delivery`,
about what the client gets, on top of it. The heart of the first is `Progress`: what `buf` begins with is the head of a
line, or the tail of one that did not fit; with `Rested`, which says that between chunks `buf` is
within its limit and holds no newline, it decides each line. `StreamInvariance` (`StreamInv`),
`EveryLineFed` (`LinesFed`), `WholeTurnRecorded` (`TurnWhole`: if every line fits, what is
recorded of an answer that has come to its end is what all its lines give), `BodyIsWhole`
(`CleanEnd`, from `Delivery`: what is in the channel goes on where the client's bytes end and ends
where the chunk in hand begins; an error is the last thing sent), `TaskRefinement`
(`ImplementsTask`).

**Store.** Assumptions: writers are no testers, the null values are nobody's, the pool is positive, token
counts are numbers. `DenseTurns` and `IndexCurrent` are inductive only with `OwnedRow`: from its
upsert to its end a transaction owns the session's row, so nobody else commits a turn of the
session between its MAX and its own commit; the advisory lock is not used. `Invariance`
(`StoreInv`), `TypeCorrect`, `TurnsDense` (`DenseTurns`), `NoCollision` (`IndexCurrent`),
`RollupOneByOne` (`RollupFollows`: each commit adds one turn and its share of the rollup).
`RollupIsSum` (`RollupMatches`) needs that a sum over a set grows by the value of a new element,
whatever order `CHOOSE` takes the elements in: `SumOneMore` in `SumTheorems`, by an induction that is
about subsets of a set, not about predicates (a least counterexample is the least element of a
set of numbers). `OneTurnPerIndex` adds that no index is given twice; with it the log of a
session is a function of its rows, and `Refinement` (`ImplementsLog`) maps a commit to
`TurnLog`'s `Keep`, a first call to `Ask`, an error, drop or refused connection to `Lose`, the
daemon's end to `LoseAll` and every other statement to a stutter.

**Jobs.** Assumptions: no file is the null value, ids derived are ids, the ids configured
at first are distinct, the cap is positive. Typing needs that the task which registers has
resolved a file (`Resolved`). `TypeCorrect`; `AtMostOneJob` (`OneJob`, inductive with the
types: `ClaimIsFree` says that whoever passes the test under the mutex finds no handler and
no task); `AllIsAwaited` (`NothingUnawaited`, inductive with `OneJob`); `OneFilePerId`
(`RegistrySound`, inductive by itself); `RecordIsTrue` (`HistoryTruthful`, with `Recording`,
which says that the task writes what it has shown, and the lemma `RecordedFirst` on the
capped history); `Refinement` (`ImplementsJob`, from the above and `Ordered`, which says at which
labels a task of each kind may be and that it waits exactly while it has a command).

**Only model-checked.** All liveness (`CallsReturn`, `CrashRecovered`, `ShutdownCompletes`,
`GateReleased`, `StreamEnds`, `RecordingEnds`, `DrainEnds`, `TasksEnd`): the prover does not reason
about fairness and ENABLED. Conversely `LostOnlyByHangUp` is only proved. Every safety and action property of a passing run, and every
refinement, is a theorem. The violations are TLC's traces.

## What the code does not keep

Each is a run with `expect: violation`; `findings` in `PROJECT.json` quotes the text.

| run | property | in short |
|---|---|---|
| `stop_crash` | `StopIsNotACrash` | a stop between poll's read and its write ends as Crashed, and is restarted |
| `hang_up` | `NoOrphan` | a hang-up between `cmd.spawn()` and the record of the pid loses the worker |
| `two_streams` | `SingleClient` | the InFlight guard is not captured by the stream task: the gate opens when the headers arrive |
| `cache_rate` | `CacheRate` | cached tokens counted twice in the denominator |
| `job_hangs` | `DownloadEnds` | the watchdog kills the command, not what inherited its pipes, and the job goes on for ever |

Other disagreements between a comment or document and the code, which the same
actions exhibit and no run is spent on:

* `supervisor.rs:143` wants no worker "stuck in `Starting` with no PID"; an error
  opening or cloning the log (`:124`, `:134`) leaves it so (`SpawnNoLog`).
* `supervisor.rs:236` leaves the dead pid to the wait-task; `poll` (`:252`) writes Ready
  for a worker that died during its health check (`PollVerdict`).
* `supervisor.rs:82-83` wants no restart in a shutdown; one that has passed the flag's
  test (`:275`) is carried out after SIGTERM (`RestartLock`; the worker is still
  stopped: `NoOrphanAtExit`).
* `supervisor.rs:392` guards the KILL against a reused pid; the TERM (`:213`) has no such
  guard (`KillTerm`).
* `supervisor.rs:296` re-checks under the lock because "state may have changed while
  waiting"; it checks the status only, and a restart that waited starts the model of before
  a switch that has crashed meanwhile (`RestartLock`).
* `supervisor.rs:33` shows the cache statistics of "the last recorded turn"; `proxy.rs:332`
  sets them before the store is tried (`Stash`, `Write`).
* `supervisor.rs:29` counts in a u8 up to a u32 cap (`RestartLock`; theorem `CounterKept`
  carries the hypothesis).
* `DESIGN.md:298-301` excludes cross-model routing; the model is checked up to 10s before
  the request is sent (`Check`, `Connect`).
* `supervisor.rs:31` marks accepted completions; `proxy.rs:175` marks rejected ones too
  (`Mark`).
* `proxy.rs:491-492` drains a stream whose client has left so that its turn is recorded;
  an orderly exit does not wait for that task (`Drained`, `Exit`).
* `DESIGN.md:289-290` separates the turns of agents; with two agents and one hint they
  land in the session reported last (`Resolve`).
* `rebuild.rs:103-104` claims the job before any work; a client that hangs up during the
  `git_sha` that follows (`:116`) leaves the claim to nobody, and no rebuild can be
  started until the daemon is (`Disconnect` at `"sha"`).
* `rebuild.rs:163-164` flushes the history "so it survives a daemon restart"; `fs::write`
  (`:77`) empties the file first, and a daemon that dies then comes back without any
  (`Record`, `Restart`).
* `download.rs:214` persists a model "so the model survives a daemon restart"; an append that
  fails halfway (`:306-308`) leaves half an entry in `config.toml`, and the daemon does not start
  again until somebody has taken it out (`Persist`, `Mend`, `Restart`).
* `DESIGN.md:354-355` registers a download "if `hf.autoregister`"; nothing reads that field
  (`config.rs:55`), every download is registered (`Register`).
* `DESIGN.md:351` streams a job's output live; it is copied into the job when the command is
  over (`download.rs:186`, `rebuild.rs:151`).

## Abstractions

* Time: a timeout is an action that may happen whenever its wait is on; cool-down and
  grace are flags that end at any time.
* A health check is one step that gives any answer of three; a worker may hang, exit or
  crash whenever it lives, and may ignore TERM.
* An aborted upstream request is over at once (llama-server notices when its client
  has closed). This favours `OneWholeAnswer`, and no violation rests on it.
* `resolve_session` reads the hint and asks Postgres in one step, whose outcome is the
  id, a fresh one, or nothing.
* `Proxy` counts the chunks in a channel; `Stream` has their sizes and where the lines
  end. What a line holds is a set of parts (content, usage, timings); its JSON is not spelled
  out. The rest of a line whose head was cleared is taken to be no `data: ` line, as it is not
  unless the cut falls right before such a text within the line. `client_gone` is left out: it only spares
  sends that would fail at once. In `Stream` the write of the turn and its 10s timeout are one
  step (`RecordEnds`), which `Proxy` and `Store` take apart. Usage and timings are in `Store` as
  the three shapes in which they reach `build_turn`.
* Connections other than those with a start or stop under way (`NoRequestInFlight`) are not in
  `Supervisor`; they hold `Drained` back for any length of time, which is why it is never obliged.
* Postgres: statements are atomic, READ COMMITTED; a cancelled transaction keeps its
  locks until its rollback is executed, and one whose daemon has died (`"gone"`) until Postgres
  notices; a statement that waits for a lock when its daemon dies is not granted it afterwards; a commit whose answer is lost may have
  happened (`Proxy`'s `MayBeStored`).
* A job's command is its exit and its pipes; its output is not looked at. `kids[j]` ends when the
  last descendant closes the pipes (`KidsExit`), `reads[j]` when the collectors come to the end of
  them (`EndRead`) or give up on output that is not text (`GiveUp`, `collect.rs:44`). `kids[j]` is
  about the pipes of the last command: descendants of an earlier one, which nobody reads any more,
  are forgotten when the next is launched, as are all processes of a daemon that has died
  (`Supervisor` keeps its own).
* `config.toml` is written by the daemon, and by hand only to take out half an entry (`Mend`).
* `builds.json` is whole, or empty and unreadable; a write that fails leaves it as it was, or
  empty.
* Bounds that stand for others: `MaxHistory` 1 for 20, `ChannelCap` 1 or 2 for 64, `MaxBuf`
  2 bytes for 64 KiB, `PoolSize` 1 or 2 for 5. `MaxTurns` bounds the turns that a session has when
  a writer begins.

## Not modelled

`forward` (stateless pass-through), `poll_slots` (display snapshot), configuration
parsing, the routes' read-only queries, `pve.rs` and `db.rs` (read-only network calls),
the panel, the pi extension's display, infrastructure scripts, `list_files`. The jobs' log
lines and the sink's cap (`collect.rs`): what a log holds is promised nowhere and shown only. The
counter difference of `stats.rs`: a computation of two samples, which a unit test reaches
as well as a model would. The processes that a dead daemon's jobs, or descendants that are no
longer read, leave behind: nothing reaps them, two downloads or builds may then run side by side,
and no document promises anything of them.

## Plan

Done, in order: the life cycle, the gate, the store, the jobs, the stream, the abstract
specifications of the worker, of the log of turns and of a job with their refinements, and a proof of
every safety property. What is left, in the order of its worth:

1. `Proxy`'s recorder as a client of `TurnLog`, to show that what `MayBeStored` allows is what a
   commit with a lost answer does.
2. The model registry of `Jobs` shared with `Supervisor`, whose switches look models up in it.
3. The commands of a dead daemon in `Jobs`, and descendants that nobody reads, beside those of the
   next job.

## How to run

    tlc -workers 2 -config MCSupervisor.cfg MCSupervisor
    tlc -workers 2 -config MCStream.cfg MCStream
    tlapm SupervisorProofs.tla
    tlapm StreamProofs.tla
