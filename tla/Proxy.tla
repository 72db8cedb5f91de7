-------------------------------- MODULE Proxy --------------------------------
(***************************************************************************)
(* Completions through the reverse proxy: src/proxy.rs (handle_completion, *)
(* stream_and_record, the InFlight gate, record_turn), the session hint of *)
(* src/main.rs and the graceful shutdown it takes part in.                 *)
(*                                                                         *)
(* The llama-server is the environment: `model_id` is what WorkerState     *)
(* reports, `served` what runs.  They take the steps of module WorkerSlot, *)
(* which module Supervisor implements, at any moment until the daemon has  *)
(* gone.                                                                   *)
(*                                                                         *)
(* A connection c carries one request at a time.  A handler's step runs    *)
(* from one await point to the next; a streamed answer is pumped by a task *)
(* of its own, which outlives the connection.  What is in a chunk does not *)
(* matter here, only that it is read, queued and fetched.                  *)
(***************************************************************************)
EXTENDS Naturals, FiniteSets

CONSTANTS
    Conns,           \* client connections
    Models, NoModel,
    Sessions,        \* the sessions of pi agents
    NoSession, Fresh, \* the empty id, and a generated one
    NoConn,
    Broken,          \* an upstream connection whose server is gone
    ChannelCap       \* capacity of the channel to the response body (64)

ASSUME NullAssumption ==
    /\ NoModel \notin Models \union {Broken} /\ Broken \notin Models
    /\ NoSession \notin Sessions \union {Fresh} /\ Fresh \notin Sessions
    /\ NoConn \notin Conns
ASSUME CapAssumption == ChannelCap \in Nat \ {0}

VARIABLES
    model_id, served,    \* the worker, as reported and as it is
    hint,                \* active_session
    busy,                \* the single-client flag
    holds,               \* connections whose handler owns an InFlight
    pc,                  \* where the handler of a connection is
    model, streaming, owner, header,   \* the request
    session,             \* session_id; NoSession: do not record
    up,                  \* the server model behind the upstream request
    task,                \* the stream task
    rec,                 \* record_turn, in the handler or the stream task
    queued,              \* chunks in the channel
    last_request_at, last_turn,        \* the request that wrote them last
    stored,              \* requests whose turn is in the store
    phase                \* of the daemon: serve, drain, stop, gone

worker  == <<model_id, served>>
gate    == <<busy, holds>>
request == <<model, streaming, owner, header, session>>
marks   == <<last_request_at, last_turn, stored>>
vars    == <<worker, hint, gate, pc, request, up, task, rec, queued, marks, phase>>

\* The labels at which a client's hanging up drops the handler's future.
HandlerLabels == {"check", "mark", "resolve", "connect", "await", "read", "record"}
GateLabels    == {"resolve", "connect", "await", "read", "record"}

TypeOK ==
    /\ model_id \in Models \union {NoModel} /\ served \in Models \union {NoModel}
    /\ hint \in Sessions \union {NoSession}
    /\ busy \in BOOLEAN /\ holds \in SUBSET Conns
    /\ pc \in [Conns -> HandlerLabels \union {"idle", "body"}]
    /\ model \in [Conns -> Models \union {NoModel}]
    /\ streaming \in [Conns -> BOOLEAN]
    /\ owner \in [Conns -> Sessions \union {NoSession}]
    /\ header \in [Conns -> BOOLEAN]
    /\ session \in [Conns -> Sessions \union {NoSession, Fresh}]
    /\ up \in [Conns -> Models \union {NoModel, Broken}]
    /\ task \in [Conns -> {"none", "read", "send", "fail", "record"}]
    /\ rec \in [Conns -> {"no", "stash", "write"}]
    /\ queued \in [Conns -> 0 .. ChannelCap]
    /\ last_request_at \in Conns \union {NoConn} /\ last_turn \in Conns \union {NoConn}
    /\ stored \in SUBSET Conns
    /\ phase \in {"serve", "drain", "stop", "gone"}

Init ==
    /\ model_id = NoModel /\ served = NoModel /\ hint = NoSession
    /\ busy = FALSE /\ holds = {}
    /\ pc = [c \in Conns |-> "idle"]
    /\ model = [c \in Conns |-> NoModel]
    /\ streaming = [c \in Conns |-> FALSE]
    /\ owner = [c \in Conns |-> NoSession]
    /\ header = [c \in Conns |-> FALSE]
    /\ session = [c \in Conns |-> NoSession]
    /\ up = [c \in Conns |-> NoModel]
    /\ task = [c \in Conns |-> "none"]
    /\ rec = [c \in Conns |-> "no"]
    /\ queued = [c \in Conns |-> 0]
    /\ last_request_at = NoConn /\ last_turn = NoConn /\ stored = {}
    /\ phase = "serve"

Goto(c, label) == pc' = [pc EXCEPT ![c] = label]

(* Faulty variants of operators below: the bugs the properties must catch. *)
AlwaysFree      == TRUE
ClearFlag(c)    == holds' = holds \ {c} /\ busy' = FALSE
NeverExpires(c) == FALSE
HintFirst(c)    == IF hint = NoSession /\ header[c] THEN owner[c] ELSE hint
SentOver(c)     == IF pc[c] = "body"
                     THEN queued[c] <= ChannelCap /\ queued' = [queued EXCEPT ![c] = queued[c] + 1]
                     ELSE UNCHANGED queued

-----------------------------------------------------------------------------
(* The gate                                                                *)

(* InFlight::drop: the flag is cleared by the guard that set it.           *)
Release(c) == holds' = holds \ {c} /\ busy' = (busy /\ c \notin holds)

(* compare_exchange(false, true)                                           *)
Free == ~busy

(* The end of a handler: its guard and its upstream request are dropped.   *)
HandlerDone(c) ==
    /\ Goto(c, "idle")
    /\ Release(c)
    /\ model' = [model EXCEPT ![c] = NoModel]
    /\ session' = [session EXCEPT ![c] = NoSession]
    /\ up' = [up EXCEPT ![c] = NoModel]
    /\ streaming' = [streaming EXCEPT ![c] = FALSE]
    /\ owner' = [owner EXCEPT ![c] = NoSession]
    /\ header' = [header EXCEPT ![c] = FALSE]

-----------------------------------------------------------------------------
(* handle_completion                                                       *)

(* The body has been read and parsed: which model it names (none: any), if *)
(* it streams, and which agent sent it, with its session in a header or not. *)
Request(c) ==
    /\ phase = "serve" /\ pc[c] = "idle" /\ task[c] = "none"
    /\ \E m \in Models \union {NoModel}, s \in BOOLEAN,
          o \in Sessions \union {NoSession}, h \in BOOLEAN :
         /\ h => o # NoSession
         /\ model' = [model EXCEPT ![c] = m]
         /\ streaming' = [streaming EXCEPT ![c] = s]
         /\ owner' = [owner EXCEPT ![c] = o]
         /\ header' = [header EXCEPT ![c] = h]
    /\ Goto(c, "check")
    /\ UNCHANGED <<worker, hint, gate, session, up, task, rec, queued, marks, phase>>

(* Model-must-be-active: 503 or 409 otherwise.                             *)
Check(c) ==
    /\ pc[c] = "check"
    /\ IF model_id # NoModel /\ model[c] \in {NoModel, model_id}
         THEN /\ model' = [model EXCEPT ![c] = model_id]
              /\ Goto(c, "mark")
              /\ UNCHANGED <<streaming, owner, header, session, gate, up>>
         ELSE HandlerDone(c)
    /\ UNCHANGED <<worker, hint, task, rec, queued, marks, phase>>

(* The activity marker, then the gate; nothing is awaited in between.      *)
Mark(c) ==
    /\ pc[c] = "mark"
    /\ last_request_at' = c
    /\ IF Free
         THEN /\ busy' = TRUE /\ holds' = holds \union {c}
              /\ Goto(c, "resolve")
              /\ UNCHANGED <<request, up>>
         ELSE HandlerDone(c)
    /\ UNCHANGED <<worker, hint, task, rec, queued, last_turn, stored, phase>>

(* The header wins over the hint.                                          *)
SessionId(c) == IF header[c] THEN owner[c] ELSE hint

(* An id the store refuses becomes a fresh one; without a store, on an     *)
(* error or after 10s nothing is recorded.                                 *)
Resolve(c) ==
    /\ pc[c] = "resolve"
    /\ \E s \in {SessionId(c), Fresh, NoSession} :
         session' = [session EXCEPT ![c] = s]
    /\ Goto(c, "connect")
    /\ UNCHANGED <<worker, hint, gate, model, streaming, owner, header, up, task, rec,
                   queued, marks, phase>>

(* The request goes to the worker's port, whoever serves there.            *)
Connect(c) ==
    /\ pc[c] = "connect"
    /\ IF served # NoModel
         THEN /\ up' = [up EXCEPT ![c] = served]
              /\ Goto(c, "await")
              /\ UNCHANGED <<gate, request>>
         ELSE HandlerDone(c)
    /\ UNCHANGED <<worker, hint, task, rec, queued, marks, phase>>

(* The headers arrived.  A streamed answer gets its task; `_busy` is a     *)
(* parameter of stream_and_record that its async block never names, so it  *)
(* is not moved into the task: it is dropped when the function returns.    *)
Respond(c) ==
    /\ pc[c] = "await" /\ up[c] \in Models
    /\ IF streaming[c]
         THEN /\ task' = [task EXCEPT ![c] = "read"]
              /\ Goto(c, "body")
              /\ Release(c)
         ELSE Goto(c, "read") /\ UNCHANGED <<task, gate>>
    /\ UNCHANGED <<worker, hint, request, up, rec, queued, marks, phase>>

(* The server is gone or the client's 300s total timeout is over.          *)
UpstreamFails(c) ==
    /\ pc[c] \in {"await", "read"}
    /\ HandlerDone(c)
    /\ UNCHANGED <<worker, hint, task, rec, queued, marks, phase>>

(* record_from_response: nothing without a session or a JSON body.         *)
ReadBody(c) ==
    /\ pc[c] = "read" /\ up[c] \in Models
    /\ \/ HandlerDone(c) /\ UNCHANGED rec
       \/ /\ session[c] # NoSession
          /\ Goto(c, "record")
          /\ rec' = [rec EXCEPT ![c] = "stash"]
          /\ up' = [up EXCEPT ![c] = NoModel]
          /\ UNCHANGED <<gate, request>>
    /\ UNCHANGED <<worker, hint, task, queued, marks, phase>>

-----------------------------------------------------------------------------
(* The stream task                                                         *)

(* The end of the task: the upstream response and the sender are dropped.  *)
TaskDone(c) ==
    /\ task' = [task EXCEPT ![c] = "none"]
    /\ model' = [model EXCEPT ![c] = NoModel]
    /\ session' = [session EXCEPT ![c] = NoSession]
    /\ up' = [up EXCEPT ![c] = NoModel]
    /\ streaming' = [streaming EXCEPT ![c] = FALSE]
    /\ owner' = [owner EXCEPT ![c] = NoSession]
    /\ header' = [header EXCEPT ![c] = FALSE]

(* After the loop; at EOF, and on an error, the upstream request is over,  *)
(* after a stall or the deadline it stays open until the task ends.        *)
TaskRecord(c) ==
    IF session[c] = NoSession
      THEN TaskDone(c) /\ UNCHANGED rec
      ELSE /\ task' = [task EXCEPT ![c] = "record"]
           /\ rec' = [rec EXCEPT ![c] = "stash"]
           /\ up' \in {up, [up EXCEPT ![c] = NoModel]}
           /\ UNCHANGED request

(* The receiver lives as long as the response body.                        *)
Listening(c) == pc[c] = "body"

TaskChunk(c) ==
    /\ task[c] = "read" /\ up[c] \in Models
    /\ Listening(c)
    /\ task' = [task EXCEPT ![c] = "send"]
    /\ UNCHANGED <<worker, hint, gate, pc, request, up, rec, queued, marks, phase>>

(* tx.send waits for room; without a receiver it fails at once.            *)
Sent(c) ==
    IF Listening(c)
      THEN queued[c] < ChannelCap /\ queued' = [queued EXCEPT ![c] = queued[c] + 1]
      ELSE UNCHANGED queued

TaskSend(c) ==
    /\ task[c] = "send"
    /\ Sent(c)
    /\ task' = [task EXCEPT ![c] = "read"]
    /\ UNCHANGED <<worker, hint, gate, pc, request, up, rec, marks, phase>>

(* Clean EOF, and the deadline tested at the head of the loop.             *)
TaskEnd(c) ==
    /\ task[c] = "read"
    /\ TaskRecord(c)
    /\ UNCHANGED <<worker, hint, gate, pc, queued, marks, phase>>

(* A stall of 30s, a broken connection, or the 300s total timeout.         *)
TaskError(c) ==
    /\ task[c] = "read"
    /\ IF Listening(c)
         THEN /\ task' = [task EXCEPT ![c] = "fail"]
              /\ UNCHANGED <<request, up, rec>>
         ELSE TaskRecord(c)
    /\ UNCHANGED <<worker, hint, gate, pc, queued, marks, phase>>

TaskFail(c) ==
    /\ task[c] = "fail"
    /\ Sent(c)
    /\ TaskRecord(c)
    /\ UNCHANGED <<worker, hint, gate, pc, marks, phase>>

-----------------------------------------------------------------------------
(* record_turn, called by the handler or by the stream task                *)

RecordDone(c) ==
    /\ rec' = [rec EXCEPT ![c] = "no"]
    /\ IF task[c] = "record"
         THEN TaskDone(c) /\ UNCHANGED <<pc, gate>>
         ELSE HandlerDone(c) /\ UNCHANGED task

Stash(c) ==
    /\ rec[c] = "stash"
    /\ last_turn' = c
    /\ stored' = stored \ {c}
    /\ rec' = [rec EXCEPT ![c] = "write"]
    /\ UNCHANGED <<worker, hint, gate, pc, request, up, task, queued, last_request_at, phase>>

(* Without an answer nobody knows whether the commit came through.         *)
MayBeStored(c) == stored' \in {stored, IF rec[c] = "write" THEN stored \union {c} ELSE stored}

Write(c) ==
    /\ rec[c] = "write"
    /\ MayBeStored(c)
    /\ RecordDone(c)
    /\ UNCHANGED <<worker, hint, queued, last_request_at, last_turn, phase>>

(* tokio::time::timeout(10s): Postgres need not answer.                    *)
Expires(c) == rec[c] # "no"

DbTimeout(c) ==
    /\ Expires(c)
    /\ MayBeStored(c)
    /\ RecordDone(c)
    /\ UNCHANGED <<worker, hint, queued, last_request_at, last_turn, phase>>

-----------------------------------------------------------------------------
(* Clients                                                                 *)

ClientReads(c) ==
    /\ pc[c] = "body" /\ queued[c] > 0
    /\ queued' = [queued EXCEPT ![c] = queued[c] - 1]
    /\ UNCHANGED <<worker, hint, gate, pc, request, up, task, rec, marks, phase>>

BodyEnds(c) ==
    /\ pc[c] = "body" /\ task[c] = "none" /\ queued[c] = 0
    /\ Goto(c, "idle")
    /\ UNCHANGED <<worker, hint, gate, request, up, task, rec, queued, marks, phase>>

(* A handler's future is dropped wherever it is; a body drops the receiver. *)
Disconnect(c) ==
    /\ \/ /\ pc[c] \in HandlerLabels
          /\ HandlerDone(c)
          /\ MayBeStored(c)
          /\ rec' = [rec EXCEPT ![c] = "no"]
          /\ UNCHANGED queued
       \/ /\ pc[c] = "body"
          /\ Goto(c, "idle")
          /\ queued' = [queued EXCEPT ![c] = 0]
          /\ UNCHANGED <<gate, request, up, rec, stored>>
    /\ UNCHANGED <<worker, hint, task, last_request_at, last_turn, phase>>

(* handle_session_active: session_start and session_shutdown of the agents. *)
SetHint ==
    /\ phase = "serve"
    /\ hint' \in Sessions \union {NoSession}
    /\ UNCHANGED <<worker, gate, pc, request, up, task, rec, queued, marks, phase>>

-----------------------------------------------------------------------------
(* The worker, and the daemon's end                                        *)

(* What the supervisor does, as module WorkerSlot states it.               *)
Worker == INSTANCE WorkerSlot WITH
            slot <- served, reported <- model_id,
            phase <- IF phase = "gone" THEN "closed" ELSE "open"

Announce(m) ==
    /\ UNCHANGED <<hint, gate, pc, request, up, task, rec, queued, marks, phase>>
    /\ Worker!Announce(m)

Launch(m) ==
    /\ UNCHANGED <<hint, gate, pc, request, up, task, rec, queued, marks, phase>>
    /\ Worker!Launch(m)

Vacate ==
    /\ UNCHANGED <<hint, gate, pc, request, task, rec, queued, marks, phase>>
    /\ Worker!Vacate
    /\ up' = [c \in Conns |-> IF up[c] = NoModel THEN NoModel ELSE Broken]

Terminate ==
    /\ phase = "serve" /\ phase' = "drain"
    /\ UNCHANGED <<worker, hint, gate, pc, request, up, task, rec, queued, marks>>

(* axum waits for the connections, not for the tasks they have spawned.    *)
Drained ==
    /\ phase = "drain" /\ \A c \in Conns : pc[c] = "idle"
    /\ phase' = "stop"
    /\ UNCHANGED <<worker, hint, gate, pc, request, up, task, rec, queued, marks>>

(* main has stopped the worker and returns; the runtime drops every task   *)
(* that is left.                                                           *)
Exit ==
    /\ phase = "stop" /\ phase' = "gone"
    /\ Worker!Close
    /\ task' = [c \in Conns |-> "none"]
    /\ rec' = [c \in Conns |-> "no"]
    /\ up' = [c \in Conns |-> NoModel]
    /\ UNCHANGED <<hint, gate, pc, request, queued, marks>>

-----------------------------------------------------------------------------
HandlerStep(c) == Check(c) \/ Mark(c) \/ Resolve(c) \/ Connect(c)
RecordStep(c)  == Stash(c) \/ Write(c) \/ DbTimeout(c)
TaskStep(c)    == TaskChunk(c) \/ TaskSend(c) \/ TaskEnd(c) \/ TaskError(c) \/ TaskFail(c)
ClientStep(c)  == Request(c) \/ ClientReads(c) \/ BodyEnds(c) \/ Disconnect(c)

Next ==
    \/ \E c \in Conns : \/ HandlerStep(c) \/ Respond(c) \/ UpstreamFails(c) \/ ReadBody(c)
                        \/ TaskStep(c) \/ RecordStep(c) \/ ClientStep(c)
    \/ \E m \in Models : Announce(m) \/ Launch(m)
    \/ SetHint \/ Vacate \/ Terminate \/ Drained \/ Exit

Spec == Init /\ [][Next]_vars

(***************************************************************************)
(* Fairness.  The runtime runs what is runnable and every timer fires:     *)
(* the 10s of resolve and record, the 300s of a whole upstream request     *)
(* (strong: chunks in between do not put that one off).  Neither the       *)
(* llama-server nor Postgres nor a client is obliged to do anything.       *)
(***************************************************************************)
Fairness ==
    \A c \in Conns :
        /\ WF_vars(HandlerStep(c)) /\ WF_vars(UpstreamFails(c))
        /\ WF_vars(DbTimeout(c))
        /\ WF_vars(TaskSend(c)) /\ WF_vars(TaskFail(c)) /\ SF_vars(TaskError(c))

FairSpec == Spec /\ Fairness

-----------------------------------------------------------------------------
(* Properties                                                              *)

(* proxy.rs:18-36: "the flag can't wedge on panic/cancel/early return": it *)
(* is set exactly while one handler, and never two, owns a guard, through  *)
(* every rejection, timeout, error and hang-up.                            *)
GateExact ==
    /\ busy <=> holds # {}
    /\ \A c, d \in holds : c = d
    /\ \A c \in Conns : c \in holds <=> pc[c] \in GateLabels

(* README.md:47: of the completions that are answered in one piece, at most *)
(* one is at the llama-server (proxy.rs:183-188).                          *)
OneWholeAnswer ==
    \A c, d \in Conns :
        /\ up[c] # NoModel /\ up[d] # NoModel
        /\ ~streaming[c] /\ ~streaming[d]
        => c = d

(* The inductive form of the two: besides the gate, what a connection's    *)
(* handler, its stream task, its recorder and its upstream request allow   *)
(* one another (proxy.rs:186-262, 449-530).                                *)
Placement(c) ==
    /\ task[c] # "none" => pc[c] \in {"idle", "body"} /\ streaming[c]
    /\ up[c] # NoModel => pc[c] \in {"await", "read"} \/ task[c] # "none"
    /\ rec[c] # "no" => pc[c] = "record" \/ task[c] = "record"

GateInv == GateExact /\ \A c \in Conns : Placement(c)

(* README.md:51-53: what a client sends with X-Session-Id is never recorded *)
(* under the session another agent has reported as the active one.         *)
HeaderBinds ==
    \A c \in Conns : rec[c] # "no" /\ header[c] => session[c] \in {owner[c], Fresh}

(* What HeaderBinds rests on: a request has no session before it resolves  *)
(* one, nor a connection between two requests.                             *)
Bound(c) ==
    /\ header[c] => session[c] \in {owner[c], Fresh, NoSession}
    /\ rec[c] # "no" => session[c] # NoSession
    /\ /\ pc[c] \in {"idle", "check", "mark", "resolve", "body"}
       /\ task[c] = "none" /\ phase # "gone"
       => session[c] = NoSession

HeaderInv == \A c \in Conns : Bound(c)

(* proxy.rs:250-255: "a slow Postgres can't hold the single-client slot",  *)
(* nor can a silent llama-server or client: the gate opens again.          *)
GateReleased == busy ~> ~busy

(* proxy.rs:447-530: a stream task ends, whatever server, store and client *)
(* do, unless the client stays connected and lets the channel fill up.     *)
StreamEnds ==
    \A c \in Conns :
        []<>(queued[c] < ChannelCap) => (task[c] # "none" ~> task[c] = "none")

-----------------------------------------------------------------------------
(* What documents and comments say, and the code does not keep             *)

(* README.md:47 "hard-reject (409) a second completion while one is in     *)
(* flight": at most one completion, streamed or not, is at the server.     *)
SingleClient == \A c, d \in Conns : up[c] # NoModel /\ up[d] # NoModel => c = d
=============================================================================
