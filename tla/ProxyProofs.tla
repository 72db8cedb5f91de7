----------------------------- MODULE ProxyProofs -----------------------------
(***************************************************************************)
(* The single-client gate, for every number of connections, models and     *)
(* sessions and every channel capacity.  Typing is inductive by itself;    *)
(* GateExact becomes so with Placement, which says where a connection's    *)
(* guard, task and upstream request can be; OneWholeAnswer follows.        *)
(***************************************************************************)
EXTENDS Proxy, TLAPS

(* Ending a handler keeps the types it touches.                            *)
LEMMA DoneType ==
  ASSUME TypeOK, NEW c \in Conns, HandlerDone(c)
  PROVE  /\ pc' \in [Conns -> HandlerLabels \union {"idle", "body"}]
         /\ busy' \in BOOLEAN /\ holds' \in SUBSET Conns
         /\ model' \in [Conns -> Models \union {NoModel}]
         /\ streaming' \in [Conns -> BOOLEAN]
         /\ owner' \in [Conns -> Sessions \union {NoSession}]
         /\ header' \in [Conns -> BOOLEAN]
         /\ session' \in [Conns -> Sessions \union {NoSession, Fresh}]
         /\ up' \in [Conns -> Models \union {NoModel, Broken}]
  BY DEF TypeOK, HandlerDone, Goto, Release

(* So does ending a task, or going on to record.                           *)
LEMMA TaskDoneType ==
  ASSUME TypeOK, NEW c \in Conns, TaskDone(c)
  PROVE  /\ task' \in [Conns -> {"none", "read", "send", "fail", "record"}]
         /\ model' \in [Conns -> Models \union {NoModel}]
         /\ streaming' \in [Conns -> BOOLEAN]
         /\ owner' \in [Conns -> Sessions \union {NoSession}]
         /\ header' \in [Conns -> BOOLEAN]
         /\ session' \in [Conns -> Sessions \union {NoSession, Fresh}]
         /\ up' \in [Conns -> Models \union {NoModel, Broken}]
  BY DEF TypeOK, TaskDone

LEMMA TaskRecordType ==
  ASSUME TypeOK, NEW c \in Conns, TaskRecord(c)
  PROVE  /\ task' \in [Conns -> {"none", "read", "send", "fail", "record"}]
         /\ rec' \in [Conns -> {"no", "stash", "write"}]
         /\ model' \in [Conns -> Models \union {NoModel}]
         /\ streaming' \in [Conns -> BOOLEAN]
         /\ owner' \in [Conns -> Sessions \union {NoSession}]
         /\ header' \in [Conns -> BOOLEAN]
         /\ session' \in [Conns -> Sessions \union {NoSession, Fresh}]
         /\ up' \in [Conns -> Models \union {NoModel, Broken}]
  <1>1. CASE session[c] = NoSession
    BY <1>1, TaskDoneType DEF TaskRecord, TypeOK
  <1>2. CASE session[c] # NoSession
    BY <1>2 DEF TaskRecord, TypeOK, request
  <1>3. QED BY <1>1, <1>2

(* The end of record_turn, in a stream task or in a handler.               *)
LEMMA RecordDoneType ==
  ASSUME TypeOK, NEW c \in Conns, RecordDone(c), MayBeStored(c),
         UNCHANGED <<worker, hint, queued, last_request_at, last_turn, phase>>
  PROVE  TypeOK'
  <1>1. stored' \in SUBSET Conns
    BY DEF TypeOK, MayBeStored
  <1>2. rec' \in [Conns -> {"no", "stash", "write"}]
    BY DEF TypeOK, RecordDone
  <1>3. CASE task[c] = "record"
    BY <1>1, <1>2, <1>3, TaskDoneType DEF RecordDone, TypeOK, worker, gate
  <1>4. CASE task[c] # "record"
    BY <1>1, <1>2, <1>4, DoneType DEF RecordDone, TypeOK, worker
  <1>5. QED BY <1>3, <1>4

(* A chunk is queued only where there is room.                             *)
LEMMA SentType ==
  ASSUME TypeOK, NEW c \in Conns, Sent(c)
  PROVE  queued' \in [Conns -> 0 .. ChannelCap]
  BY CapAssumption DEF TypeOK, Sent

LEMMA TypeNext == TypeOK /\ [Next]_vars => TypeOK'
  <1> SUFFICES ASSUME TypeOK, [Next]_vars PROVE TypeOK'
    OBVIOUS
  <1> USE DEF worker, gate, request, marks
  <1>1. ASSUME NEW c \in Conns, HandlerStep(c) PROVE TypeOK'
    <2>1. CASE Check(c)
      BY <2>1, DoneType DEF Check, TypeOK, Goto, HandlerLabels
    <2>2. CASE Mark(c)
      <3>1. CASE Free
        BY <2>2, <3>1 DEF Mark, TypeOK, Goto, HandlerLabels
      <3>2. CASE ~Free
        BY <2>2, <3>2, DoneType DEF Mark, TypeOK
      <3> QED
        BY <3>1, <3>2
    <2>3. CASE Resolve(c)
      BY <2>3 DEF Resolve, SessionId, TypeOK, Goto, HandlerLabels
    <2>4. CASE Connect(c)
      BY <2>4, DoneType DEF Connect, TypeOK, Goto, HandlerLabels
    <2>5. QED BY <1>1, <2>1, <2>2, <2>3, <2>4 DEF HandlerStep
  <1>2. ASSUME NEW c \in Conns, Respond(c) PROVE TypeOK'
    <2>1. CASE streaming[c]
      <3>1. busy' \in BOOLEAN /\ holds' \in SUBSET Conns
        BY <1>2, <2>1 DEF Respond, Release, TypeOK
      <3>2. pc' \in [Conns -> HandlerLabels \union {"idle", "body"}]
        BY <1>2, <2>1 DEF Respond, Goto, TypeOK
      <3>3. QED BY <1>2, <2>1, <3>1, <3>2 DEF Respond, TypeOK
    <2>2. CASE ~streaming[c]
      <3>1. pc' \in [Conns -> HandlerLabels \union {"idle", "body"}]
        BY <1>2, <2>2 DEF Respond, Goto, TypeOK, HandlerLabels
      <3>2. QED BY <1>2, <2>2, <3>1 DEF Respond, TypeOK
    <2>3. QED BY <2>1, <2>2
  <1>3. ASSUME NEW c \in Conns, UpstreamFails(c) PROVE TypeOK'
    BY <1>3, DoneType DEF UpstreamFails, TypeOK
  <1>4. ASSUME NEW c \in Conns, ReadBody(c) PROVE TypeOK'
    BY <1>4, DoneType DEF ReadBody, TypeOK, Goto, HandlerLabels
  <1>5. ASSUME NEW c \in Conns, TaskStep(c) PROVE TypeOK'
    <2>1. CASE TaskChunk(c)
      BY <2>1 DEF TaskChunk, TypeOK
    <2>2. CASE TaskSend(c)
      BY <2>2, SentType DEF TaskSend, TypeOK
    <2>3. CASE TaskEnd(c)
      BY <2>3, TaskRecordType DEF TaskEnd, TypeOK
    <2>4. CASE TaskError(c)
      BY <2>4, TaskRecordType DEF TaskError, TypeOK
    <2>5. CASE TaskFail(c)
      BY <2>5, SentType, TaskRecordType DEF TaskFail, TypeOK
    <2>6. QED BY <1>5, <2>1, <2>2, <2>3, <2>4, <2>5 DEF TaskStep
  <1>6. ASSUME NEW c \in Conns, RecordStep(c) PROVE TypeOK'
    <2>1. CASE Stash(c)
      BY <2>1 DEF Stash, TypeOK
    <2>2. CASE Write(c)
      BY <2>2, RecordDoneType DEF Write
    <2>3. CASE DbTimeout(c)
      BY <2>3, RecordDoneType DEF DbTimeout
    <2>4. QED BY <1>6, <2>1, <2>2, <2>3 DEF RecordStep
  <1>7. ASSUME NEW c \in Conns, ClientStep(c) PROVE TypeOK'
    <2>1. CASE Request(c)
      BY <2>1 DEF Request, TypeOK, Goto, HandlerLabels
    <2>2. CASE ClientReads(c)
      BY <2>2, CapAssumption DEF ClientReads, TypeOK
    <2>3. CASE BodyEnds(c)
      BY <2>3 DEF BodyEnds, TypeOK, Goto
    <2>4. CASE Disconnect(c)
      <3>1. CASE pc[c] \in HandlerLabels /\ HandlerDone(c)
        <4>1. MayBeStored(c) /\ rec' = [rec EXCEPT ![c] = "no"] /\ UNCHANGED queued
          BY <2>4, <3>1 DEF Disconnect, HandlerLabels
        <4>2. stored' \in SUBSET Conns
          BY <4>1 DEF TypeOK, MayBeStored
        <4>3. QED BY <2>4, <3>1, <4>1, <4>2, DoneType DEF Disconnect, TypeOK
      <3>2. CASE pc[c] = "body"
        BY <2>4, <3>2, CapAssumption DEF Disconnect, TypeOK, Goto, HandlerLabels
      <3>3. QED BY <2>4, <3>1, <3>2 DEF Disconnect
    <2>5. QED BY <1>7, <2>1, <2>2, <2>3, <2>4 DEF ClientStep
  <1>8. CASE SetHint \/ Terminate \/ Drained
    BY <1>8 DEF SetHint, Terminate, Drained, TypeOK
  <1>9. ASSUME NEW m \in Models, Announce(m) \/ Launch(m) PROVE TypeOK'
    BY <1>9 DEF Announce, Launch, Worker!Announce, Worker!Launch, TypeOK
  <1>10. CASE Vacate
    BY <1>10 DEF Vacate, Worker!Vacate, TypeOK
  <1>11. CASE Exit
    BY <1>11 DEF Exit, Worker!Close, TypeOK
  <1>12. CASE UNCHANGED vars
    BY <1>12 DEF vars, TypeOK
  <1>13. QED
    BY <1>1, <1>2, <1>3, <1>4, <1>5, <1>6, <1>7, <1>8, <1>9, <1>10, <1>11, <1>12 DEF Next

LEMMA TypeInit == Init => TypeOK
  <1> SUFFICES ASSUME Init PROVE TypeOK
    OBVIOUS
  <1>1. 0 \in 0 .. ChannelCap
    BY CapAssumption
  <1>2. queued \in [Conns -> 0 .. ChannelCap]
    BY <1>1 DEF Init
  <1>3. /\ pc \in [Conns -> HandlerLabels \union {"idle", "body"}]
        /\ streaming \in [Conns -> BOOLEAN] /\ header \in [Conns -> BOOLEAN]
    BY DEF Init
  <1>4. busy \in BOOLEAN /\ holds \in SUBSET Conns /\ stored \in SUBSET Conns
    BY DEF Init
  <1>5. QED BY <1>2, <1>3, <1>4 DEF Init, TypeOK

(* Every reachable state is well typed: in particular the channel never    *)
(* holds more than its capacity (proxy.rs:444, 493).                       *)
THEOREM TypeCorrect == Spec => []TypeOK
  BY TypeInit, TypeNext, PTL DEF Spec

-----------------------------------------------------------------------------
(* The gate.  A step of connection c leaves the others where they were, so *)
(* what has to be shown is that c's own guard follows its label.           *)

(* Ending a handler, at a label of its own or a recorder's end, releases   *)
(* the guard it owns and no other.                                         *)
LEMMA DoneGate ==
  ASSUME TypeOK, GateInv, NEW c \in Conns, HandlerDone(c), pc[c] \in HandlerLabels,
         UNCHANGED task, pc[c] = "record" => rec' = [rec EXCEPT ![c] = "no"],
         rec' \in {rec, [rec EXCEPT ![c] = "no"]}
  PROVE  GateInv'
  <1>1. task[c] = "none"
    BY DEF GateInv, Placement, HandlerLabels
  <1>2. GateExact'
    <2>1. pc'[c] \notin GateLabels /\ c \notin holds'
      BY DEF HandlerDone, Goto, Release, TypeOK, GateLabels
    <2>2. \A d \in Conns : d # c => (d \in holds' <=> pc'[d] \in GateLabels)
      BY DEF HandlerDone, Goto, Release, TypeOK, GateInv, GateExact
    <2>3. \A d, e \in holds' : d = e
      BY DEF HandlerDone, Release, TypeOK, GateInv, GateExact
    <2>4. CASE c \in holds
      <3>1. ~busy'
        BY <2>4 DEF HandlerDone, Release
      <3>2. holds' = {}
        BY <2>4 DEF HandlerDone, Release, GateInv, GateExact
      <3>3. QED BY <3>1, <3>2, <2>1, <2>2, <2>3 DEF GateExact
    <2>5. CASE c \notin holds
      <3>1. holds' = holds /\ busy' = busy
        BY <2>5 DEF HandlerDone, Release, TypeOK
      <3>2. busy' <=> holds' # {}
        BY <3>1 DEF GateExact, GateInv
      <3>3. QED BY <3>2, <2>1, <2>2, <2>3 DEF GateExact
    <2>6. QED BY <2>4, <2>5
  <1>3. ASSUME NEW d \in Conns PROVE Placement(d)'
    <2>1. CASE d = c
      <3>1. rec'[c] = "no" /\ up'[c] = NoModel /\ task'[c] = "none"
        BY <1>1 DEF HandlerDone, TypeOK, GateInv, Placement
      <3>2. QED BY <2>1, <3>1 DEF Placement
    <2>2. CASE d # c
      BY <2>2 DEF HandlerDone, Goto, TypeOK, GateInv, Placement
    <2>3. QED BY <2>1, <2>2
  <1>4. QED BY <1>2, <1>3 DEF GateInv

(* A step that touches no handler's label keeps GateExact.                 *)
LEMMA SameGate ==
  ASSUME GateInv, UNCHANGED <<gate, pc>>
  PROVE  GateExact'
  BY DEF GateInv, GateExact, gate

(* A step of c's stream task keeps the others' placement and c's, if it    *)
(* ends or goes on to record.                                              *)
LEMMA TaskGate ==
  ASSUME TypeOK, GateInv, NEW c \in Conns, task[c] # "none", UNCHANGED <<gate, pc>>,
         \/ TaskRecord(c) /\ task[c] # "record"
         \/ TaskDone(c) /\ rec' = [rec EXCEPT ![c] = "no"]
  PROVE  GateInv'
  <1>1. ASSUME NEW d \in Conns, d # c PROVE Placement(d)'
    <2>1. /\ task'[d] = task[d] /\ rec'[d] = rec[d] /\ streaming'[d] = streaming[d]
          /\ up'[d] = up[d] /\ pc'[d] = pc[d]
      BY <1>1 DEF TaskRecord, TaskDone, TypeOK, request
    <2>2. QED BY <2>1 DEF GateInv, Placement
  <1>2. Placement(c)'
    <2> pc'[c] = pc[c] /\ pc[c] # "record"
      BY DEF GateInv, Placement
    <2>1. CASE TaskRecord(c) /\ task[c] # "record" /\ session[c] # NoSession
      BY <2>1 DEF TaskRecord, TypeOK, GateInv, Placement, request
    <2>2. CASE TaskRecord(c) /\ task[c] # "record" /\ session[c] = NoSession
      BY <2>2 DEF TaskRecord, TaskDone, TypeOK, GateInv, Placement
    <2>3. CASE TaskDone(c) /\ rec' = [rec EXCEPT ![c] = "no"]
      BY <2>3 DEF TaskDone, TypeOK, GateInv, Placement
    <2>4. QED BY <2>1, <2>2, <2>3
  <1>3. QED BY <1>1, <1>2, SameGate DEF GateInv


(* The end of record_turn frees the guard if the handler ran it.           *)
LEMMA RecordGate ==
  ASSUME TypeOK, GateInv, NEW c \in Conns, RecordDone(c), rec[c] # "no"
  PROVE  GateInv'
  <1>1. CASE task[c] = "record"
    BY <1>1, TaskGate DEF RecordDone
  <1>2. CASE task[c] # "record"
    <2>1. pc[c] \in HandlerLabels
      BY <1>2 DEF GateInv, Placement, HandlerLabels
    <2>2. QED BY <1>2, <2>1, DoneGate DEF RecordDone
  <1>3. QED BY <1>1, <1>2

LEMMA GateInit == Init => GateInv
  BY DEF Init, GateInv, GateExact, Placement, GateLabels

LEMMA GateNext == TypeOK /\ GateInv /\ [Next]_vars => GateInv'
  <1> SUFFICES ASSUME TypeOK, GateInv, [Next]_vars PROVE GateInv'
    OBVIOUS
  <1> USE DEF gate, request
  <1>1. ASSUME NEW c \in Conns, HandlerStep(c) PROVE GateInv'
    <2>1. CASE Check(c)
      <3>1. CASE HandlerDone(c)
        BY <2>1, <3>1, DoneGate DEF Check, HandlerLabels
      <3>2. CASE Goto(c, "mark") /\ UNCHANGED <<streaming, gate, up>>
        BY <2>1, <3>2 DEF Check, Goto, TypeOK, GateInv, GateExact, Placement, GateLabels
      <3>3. QED BY <2>1, <3>1, <3>2 DEF Check
    <2>2. CASE Mark(c)
      <3>1. CASE HandlerDone(c)
        BY <2>2, <3>1, DoneGate DEF Mark, HandlerLabels
      <3>2. CASE Free /\ Goto(c, "resolve") /\ UNCHANGED <<request, up>>
        <4>1. holds = {} /\ holds' = holds \union {c} /\ busy' = TRUE
          <5>1. ~(holds # {})
            BY <3>2 DEF Free, GateInv, GateExact
          <5>2. QED BY <2>2, <3>2, <5>1 DEF Mark
        <4>2. pc'[c] \in GateLabels /\ \A d \in Conns : d # c => pc'[d] = pc[d]
          BY <3>2 DEF Goto, TypeOK, GateLabels
        <4>3. GateExact'
          BY <4>1, <4>2 DEF GateInv, GateExact
        <4>4. \A d \in Conns : Placement(d)'
          BY <2>2, <3>2, <4>2 DEF Mark, GateInv, Placement, Goto, TypeOK
        <4>5. QED BY <4>3, <4>4 DEF GateInv
      <3>3. QED BY <2>2, <3>1, <3>2 DEF Mark
    <2>3. CASE Resolve(c)
      BY <2>3 DEF Resolve, Goto, TypeOK, GateInv, GateExact, Placement, GateLabels
    <2>4. CASE Connect(c)
      <3>1. CASE HandlerDone(c)
        BY <2>4, <3>1, DoneGate DEF Connect, HandlerLabels
      <3>2. CASE up' = [up EXCEPT ![c] = served] /\ Goto(c, "await") /\ UNCHANGED <<gate, request>>
        BY <2>4, <3>2 DEF Connect, Goto, TypeOK, GateInv, GateExact, Placement, GateLabels
      <3>3. QED BY <2>4, <3>1, <3>2 DEF Connect
    <2>5. QED BY <1>1, <2>1, <2>2, <2>3, <2>4 DEF HandlerStep
  <1>2. ASSUME NEW c \in Conns, Respond(c) PROVE GateInv'
    <2>1. CASE streaming[c]
      <3>1. c \in holds
        BY <1>2 DEF Respond, GateInv, GateExact, GateLabels
      <3>2. holds' = {} /\ busy' = FALSE
        <4>1. holds' = holds \ {c} /\ busy' = (busy /\ c \notin holds)
          BY <1>2, <2>1 DEF Respond, Release
        <4>2. \A d \in holds : d = c
          BY <3>1 DEF GateInv, GateExact
        <4>3. QED BY <3>1, <4>1, <4>2
      <3>3. \A d \in Conns : pc'[d] \notin GateLabels
        BY <1>2, <2>1, <3>1 DEF Respond, Goto, TypeOK, GateInv, GateExact, GateLabels
      <3>4. \A d \in Conns : Placement(d)'
        BY <1>2, <2>1 DEF Respond, Goto, TypeOK, GateInv, Placement
      <3>5. QED BY <3>2, <3>3, <3>4 DEF GateInv, GateExact
    <2>2. CASE ~streaming[c]
      BY <1>2, <2>2 DEF Respond, Goto, TypeOK, GateInv, GateExact, Placement, GateLabels
    <2>3. QED BY <2>1, <2>2
  <1>3. ASSUME NEW c \in Conns, UpstreamFails(c) PROVE GateInv'
    BY <1>3, DoneGate DEF UpstreamFails, HandlerLabels
  <1>4. ASSUME NEW c \in Conns, ReadBody(c) PROVE GateInv'
    <2>1. CASE HandlerDone(c) /\ UNCHANGED rec
      BY <1>4, <2>1, DoneGate DEF ReadBody, HandlerLabels
    <2>2. CASE Goto(c, "record") /\ rec' = [rec EXCEPT ![c] = "stash"]
                 /\ up' = [up EXCEPT ![c] = NoModel] /\ UNCHANGED <<gate, request>>
      BY <1>4, <2>2 DEF ReadBody, Goto, TypeOK, GateInv, GateExact, Placement, GateLabels
    <2>3. QED BY <1>4, <2>1, <2>2 DEF ReadBody
  <1>5. ASSUME NEW c \in Conns, TaskStep(c) PROVE GateInv'
    <2>1. CASE TaskChunk(c)
      BY <2>1, SameGate DEF TaskChunk, TypeOK, GateInv, Placement
    <2>2. CASE TaskSend(c)
      BY <2>2, SameGate DEF TaskSend, TypeOK, GateInv, Placement
    <2>3. CASE TaskEnd(c)
      BY <2>3, TaskGate DEF TaskEnd
    <2>4. CASE TaskError(c)
      <3>1. CASE Listening(c)
        BY <2>4, <3>1, SameGate DEF TaskError, TypeOK, GateInv, Placement
      <3>2. CASE ~Listening(c)
        BY <2>4, <3>2, TaskGate DEF TaskError
      <3>3. QED BY <3>1, <3>2
    <2>5. CASE TaskFail(c)
      BY <2>5, TaskGate DEF TaskFail
    <2>6. QED BY <1>5, <2>1, <2>2, <2>3, <2>4, <2>5 DEF TaskStep
  <1>6. ASSUME NEW c \in Conns, RecordStep(c) PROVE GateInv'
    <2>1. CASE Stash(c)
      BY <2>1, SameGate DEF Stash, TypeOK, GateInv, Placement
    <2>2. CASE Write(c)
      BY <2>2, RecordGate DEF Write
    <2>3. CASE DbTimeout(c)
      BY <2>3, RecordGate DEF DbTimeout, Expires
    <2>4. QED BY <1>6, <2>1, <2>2, <2>3 DEF RecordStep
  <1>7. ASSUME NEW c \in Conns, ClientStep(c) PROVE GateInv'
    <2>1. CASE Request(c)
      BY <2>1 DEF Request, Goto, TypeOK, GateInv, GateExact, Placement, GateLabels
    <2>2. CASE ClientReads(c)
      BY <2>2, SameGate DEF ClientReads, GateInv, Placement
    <2>3. CASE BodyEnds(c)
      BY <2>3 DEF BodyEnds, Goto, TypeOK, GateInv, GateExact, Placement, GateLabels
    <2>4. CASE Disconnect(c)
      <3>1. CASE pc[c] \in HandlerLabels /\ HandlerDone(c) /\ rec' = [rec EXCEPT ![c] = "no"]
        BY <2>4, <3>1, DoneGate DEF Disconnect
      <3>2. CASE pc[c] = "body" /\ Goto(c, "idle") /\ UNCHANGED <<gate, request, up, rec>>
        BY <2>4, <3>2 DEF Disconnect, Goto, TypeOK, GateInv, GateExact, Placement, GateLabels
      <3>3. QED BY <2>4, <3>1, <3>2 DEF Disconnect
    <2>5. QED BY <1>7, <2>1, <2>2, <2>3, <2>4 DEF ClientStep
  <1>8. CASE SetHint \/ (\E m \in Models : Announce(m) \/ Launch(m)) \/ Terminate \/ Drained
               \/ UNCHANGED vars
    BY <1>8, SameGate
       DEF SetHint, Announce, Launch, Terminate, Drained, vars, GateInv, Placement
  <1>9. CASE Vacate
    BY <1>9, SameGate, NullAssumption DEF Vacate, GateInv, Placement
  <1>10. CASE Exit
    <2>1. GateExact' BY <1>10, SameGate DEF Exit
    <2>2. \A d \in Conns : Placement(d)'
      BY <1>10 DEF Exit, Placement
    <2>3. QED BY <2>1, <2>2 DEF GateInv
  <1>11. QED
    BY <1>1, <1>2, <1>3, <1>4, <1>5, <1>6, <1>7, <1>8, <1>9, <1>10 DEF Next

(* Where guards, tasks, recorders and upstream requests are, always.       *)
THEOREM Invariance == Spec => []GateInv
  BY TypeInit, TypeNext, GateInit, GateNext, PTL DEF Spec

(* proxy.rs:18-36: the busy flag is set exactly while one handler owns its *)
(* guard: no hang-up, rejection, timeout or error wedges the gate open or  *)
(* shut.                                                                   *)
THEOREM Gate == Spec => []GateExact
  <1>1. GateInv => GateExact
    BY DEF GateInv
  <1>2. QED BY <1>1, Invariance, PTL

(* README.md:47, as far as the code keeps it: of the answers that are not  *)
(* streamed, one at most is at the llama-server.                           *)
THEOREM OneAnswer == Spec => []OneWholeAnswer
  <1>1. GateInv => OneWholeAnswer
    BY DEF GateInv, GateExact, Placement, OneWholeAnswer, GateLabels
  <1>2. QED BY <1>1, Invariance, PTL

-----------------------------------------------------------------------------
(* Sessions.                                                               *)

(* A connection of which nothing changes that Bound speaks of.             *)
LEMMA SameBound ==
  ASSUME HeaderInv, NEW d \in Conns, pc'[d] = pc[d], phase' # "gone" => phase # "gone",
         task'[d] = task[d], rec'[d] = rec[d],
         header'[d] = header[d], owner'[d] = owner[d], session'[d] = session[d]
  PROVE  Bound(d)'
  BY DEF HeaderInv, Bound

(* A handler or a task ends, and its recorder with it.                     *)
LEMMA DoneBound ==
  ASSUME TypeOK, HeaderInv, NEW c \in Conns, UNCHANGED phase,
         (HandlerDone(c) /\ UNCHANGED task) \/ (TaskDone(c) /\ UNCHANGED pc),
         rec' \in {rec, [rec EXCEPT ![c] = "no"]}, rec'[c] = "no"
  PROVE  HeaderInv'
<1> SUFFICES ASSUME NEW d \in Conns PROVE Bound(d)'
  BY DEF HeaderInv
<1>1. CASE d = c
  BY <1>1 DEF TypeOK, HandlerDone, TaskDone, Bound
<1>2. CASE d # c
  <2>1. /\ pc'[d] = pc[d] /\ task'[d] = task[d] /\ rec'[d] = rec[d]
        /\ header'[d] = header[d] /\ owner'[d] = owner[d] /\ session'[d] = session[d]
    BY <1>2 DEF TypeOK, HandlerDone, TaskDone, Goto
  <2> QED
    BY <2>1, SameBound
<1> QED
  BY <1>1, <1>2

(* No request changes, and no label at which there is no session is taken  *)
(* but from one at which there is none.                                    *)
LEMMA StepBound ==
  ASSUME TypeOK, HeaderInv, UNCHANGED request, phase' # "gone" => phase # "gone",
         \A d \in Conns :
           /\ rec'[d] # "no" => session[d] # NoSession
           /\ \/ pc'[d] = pc[d] /\ task'[d] = task[d]
              \/ pc'[d] \in {"connect", "await", "read", "record"} \/ task'[d] # "none"
              \/ session[d] = NoSession
  PROVE  HeaderInv'
  BY DEF request, HeaderInv, Bound

LEMMA TaskRecordBound ==
  ASSUME TypeOK, GateInv, HeaderInv, NEW c \in Conns, TaskRecord(c), UNCHANGED <<pc, phase>>,
         task[c] \in {"read", "fail"}
  PROVE  HeaderInv'
<1>1. rec[c] = "no"
  BY DEF GateInv, Placement
<1>2. CASE session[c] = NoSession
  BY <1>1, <1>2, DoneBound DEF TaskRecord
<1>3. CASE session[c] # NoSession
  BY <1>3, StepBound DEF TaskRecord, TypeOK, HeaderInv, Bound
<1> QED
  BY <1>2, <1>3

LEMMA RecordDoneBound ==
  ASSUME TypeOK, HeaderInv, NEW c \in Conns, RecordDone(c), UNCHANGED phase
  PROVE  HeaderInv'
<1>1. rec' = [rec EXCEPT ![c] = "no"] /\ rec'[c] = "no"
  BY DEF RecordDone, TypeOK
<1> QED
  BY <1>1, DoneBound DEF RecordDone

LEMMA HeaderNext == TypeOK /\ GateInv /\ HeaderInv /\ [Next]_vars => HeaderInv'
<1> SUFFICES ASSUME TypeOK, GateInv, HeaderInv, [Next]_vars PROVE HeaderInv'
  OBVIOUS
<1>1. ASSUME NEW c \in Conns, HandlerDone(c), UNCHANGED <<task, rec, phase>>,
             pc[c] \in HandlerLabels \ {"record"}
      PROVE  HeaderInv'
  <2>1. rec[c] = "no"
    BY <1>1 DEF GateInv, Placement, HandlerLabels
  <2> QED
    BY <1>1, <2>1, DoneBound
<1>2. ASSUME NEW c \in Conns, HandlerStep(c) PROVE HeaderInv'
  <2>1. CASE HandlerDone(c)
    <3>1. UNCHANGED <<task, rec, phase>> /\ pc[c] \in HandlerLabels \ {"record"}
      BY <1>2, <2>1 DEF HandlerStep, Check, Mark, Resolve, Connect, HandlerLabels
    <3> QED
      BY <1>1, <2>1, <3>1
  <2>2. CASE Check(c) /\ Goto(c, "mark")
    <3> SUFFICES ASSUME NEW d \in Conns PROVE Bound(d)'
      BY DEF HeaderInv
    <3> QED
      BY <2>2 DEF Check, Goto, HandlerDone, TypeOK, HeaderInv, Bound
  <2>3. CASE Mark(c) /\ Goto(c, "resolve") /\ UNCHANGED request
    BY <2>3 DEF Mark, Goto, HandlerDone, TypeOK, HeaderInv, Bound, request
  <2>4. CASE Resolve(c)
    <3> SUFFICES ASSUME NEW d \in Conns PROVE Bound(d)'
      BY DEF HeaderInv
    <3>1. rec[c] = "no"
      BY <2>4 DEF Resolve, GateInv, Placement
    <3> QED
      BY <2>4, <3>1 DEF Resolve, SessionId, Goto, TypeOK, HeaderInv, Bound
  <2>5. CASE Connect(c) /\ Goto(c, "await") /\ UNCHANGED request
    BY <2>5, StepBound DEF Connect, Goto, TypeOK, HeaderInv, Bound
  <2> QED
    BY <1>2, <2>1, <2>2, <2>3, <2>4, <2>5 DEF HandlerStep, Check, Mark, Connect
<1>3. ASSUME NEW c \in Conns, Respond(c) PROVE HeaderInv'
  BY <1>3, StepBound DEF Respond, Goto, TypeOK, HeaderInv, Bound
<1>4. ASSUME NEW c \in Conns, UpstreamFails(c) PROVE HeaderInv'
  BY <1>1, <1>4 DEF UpstreamFails, HandlerLabels
<1>5. ASSUME NEW c \in Conns, ReadBody(c) PROVE HeaderInv'
  <2>1. CASE HandlerDone(c) /\ UNCHANGED rec
    BY <1>1, <1>5, <2>1 DEF ReadBody, HandlerLabels
  <2>2. CASE session[c] # NoSession /\ Goto(c, "record") /\ rec' = [rec EXCEPT ![c] = "stash"]
               /\ UNCHANGED request
    BY <1>5, <2>2, StepBound DEF ReadBody, Goto, TypeOK, HeaderInv, Bound
  <2> QED
    BY <1>5, <2>1, <2>2 DEF ReadBody
<1>6. ASSUME NEW c \in Conns, TaskStep(c) PROVE HeaderInv'
  <2>1. CASE TaskChunk(c) \/ TaskSend(c)
    BY <2>1, StepBound DEF TaskChunk, TaskSend, TypeOK, HeaderInv, Bound, request
  <2>2. CASE TaskEnd(c) \/ TaskFail(c)
    BY <2>2, TaskRecordBound DEF TaskEnd, TaskFail
  <2>3. CASE TaskError(c)
    BY <2>3, TaskRecordBound, StepBound DEF TaskError, TypeOK, HeaderInv, Bound, request
  <2> QED
    BY <1>6, <2>1, <2>2, <2>3 DEF TaskStep
<1>7. ASSUME NEW c \in Conns, RecordStep(c) PROVE HeaderInv'
  <2>1. CASE Stash(c)
    BY <2>1, StepBound DEF Stash, TypeOK, HeaderInv, Bound
  <2>2. CASE Write(c) \/ DbTimeout(c)
    BY <2>2, RecordDoneBound DEF Write, DbTimeout
  <2> QED
    BY <1>7, <2>1, <2>2 DEF RecordStep
<1>8. ASSUME NEW c \in Conns, ClientStep(c) PROVE HeaderInv'
  <2>1. CASE Request(c)
    <3> SUFFICES ASSUME NEW d \in Conns PROVE Bound(d)'
      BY DEF HeaderInv
    <3> QED
      BY <2>1 DEF Request, Goto, TypeOK, HeaderInv, Bound
  <2>2. CASE ClientReads(c)
    BY <2>2, StepBound DEF ClientReads, HeaderInv, Bound
  <2>3. CASE BodyEnds(c)
    BY <2>3 DEF BodyEnds, Goto, TypeOK, HeaderInv, Bound, request
  <2>4. CASE Disconnect(c) /\ pc[c] \in HandlerLabels
    <3>1. /\ HandlerDone(c) /\ UNCHANGED <<task, phase>>
          /\ rec' = [rec EXCEPT ![c] = "no"] /\ rec'[c] = "no"
      BY <2>4 DEF Disconnect, HandlerLabels, TypeOK
    <3> QED
      BY <3>1, DoneBound
  <2>5. CASE Disconnect(c) /\ pc[c] = "body"
    BY <2>5 DEF Disconnect, HandlerLabels, Goto, TypeOK, HeaderInv, Bound, request
  <2> QED
    BY <1>8, <2>1, <2>2, <2>3, <2>4, <2>5 DEF ClientStep, Disconnect
<1>9. CASE SetHint \/ (\E m \in Models : Announce(m) \/ Launch(m)) \/ Vacate \/ Terminate \/ Drained
             \/ UNCHANGED vars
  BY <1>9, StepBound
     DEF SetHint, Announce, Launch, Vacate, Terminate, Drained, vars, HeaderInv, Bound
<1>10. CASE Exit
  BY <1>10 DEF Exit, HeaderInv, Bound, request
<1> QED
  BY <1>2, <1>3, <1>4, <1>5, <1>6, <1>7, <1>8, <1>9, <1>10 DEF Next

(* README.md:51-53: what a client sends with X-Session-Id is recorded      *)
(* under that session or a fresh one, however the hint, its own hanging up *)
(* and the other clients interleave with it.                               *)
THEOREM HeaderWins == Spec => []HeaderBinds
<1>1. Init => HeaderInv
  BY DEF Init, HeaderInv, Bound
<1>2. HeaderInv => HeaderBinds
  BY DEF HeaderInv, Bound, HeaderBinds
<1> QED
  BY <1>1, <1>2, TypeInit, TypeNext, GateInit, GateNext, HeaderNext, PTL DEF Spec
==============================================================================
