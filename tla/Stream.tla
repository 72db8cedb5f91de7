-------------------------------- MODULE Stream --------------------------------
(***************************************************************************)
(* One streamed answer, byte by byte: the task of stream_and_record and    *)
(* its Collector in src/proxy.rs.  Module Proxy has the same task without  *)
(* its data; ImplementsTask relates the two.                               *)
(*                                                                         *)
(* An answer is `total` bytes long and its i-th newline is byte ends[i];   *)
(* gives[i] is what line i holds for the collector.  The last line may     *)
(* lack its newline.  Chunks cut the bytes anywhere.  The buffer holds the *)
(* bytes from+1 .. got; the rest of a line whose head was thrown away is   *)
(* taken to be no "data: " line, which feed ignores.                       *)
(***************************************************************************)
EXTENDS Integers, Sequences

CONSTANTS
    Answers,
    MaxBuf,          \* MAX_SSE_BUF (64 KiB)
    ChannelCap,      \* capacity of the channel to the response body (64)
    NoTurn

Parts == {"content", "usage", "timings"}

ASSUME BoundsAssumption == MaxBuf \in Nat /\ ChannelCap \in Nat \ {0}
ASSUME AnswersAssumption ==
    \A a \in Answers :
        /\ a.total \in Nat /\ a.ends \in Seq(1 .. a.total)
        /\ \A i, j \in DOMAIN a.ends : i < j => a.ends[i] < a.ends[j]
        /\ a.gives \in [DOMAIN a.ends -> SUBSET Parts]

VARIABLES
    answer,          \* what the llama-server sends
    recording,       \* session_id is not empty
    got,             \* bytes that have arrived
    from,            \* how many of them have left buf
    fed,             \* the lines the collector has been fed, in order
    chunk,           \* the chunk in hand
    task,            \* where the task is
    how,             \* why the loop was left
    turn,            \* what build_turn made
    last_turn, stored,
    client,          \* of the response body
    queue,           \* the channel to it
    seen, intact,    \* the end of what the client got; whether it came in order
    failed           \* the client got an error

source  == <<answer, recording>>
buffer  == <<got, from, fed>>
outcome == <<how, turn>>
marks   == <<last_turn, stored>>
given   == <<seen, intact, failed>>
body    == <<client, queue, given>>
vars    == <<source, buffer, chunk, task, outcome, marks, body>>

(* What the channel carries: the bytes after+1 .. upto, or an error (which  *)
(* has none) in the place it comes.                                        *)
Items    == [after : Nat, upto : Nat]
Bytes(n) == [after |-> got, upto |-> got + n]
Err      == Bytes(0)
IsErr(item) == item.upto = item.after

Lines   == DOMAIN answer.ends
End(i)  == answer.ends[i]
Start(i) == IF i = 1 THEN 0 ELSE End(i - 1)
Short(i) == End(i) - Start(i) - 1 <= MaxBuf     \* fits the buffer without its newline

(* Collector::feed: content is appended (0: nothing), of the rest the last *)
(* one counts.                                                             *)
LastGiving(part, lines) ==
    LET giving == {k \in DOMAIN lines : part \in answer.gives[lines[k]]}
    IN  IF giving = {} THEN 0 ELSE lines[CHOOSE k \in giving : \A l \in giving : l <= k]

Collected(lines) ==
    [content |-> [k \in DOMAIN lines |-> IF "content" \in answer.gives[lines[k]] THEN lines[k] ELSE 0],
     usage   |-> LastGiving("usage", lines),
     timings |-> LastGiving("timings", lines)]

BufferType ==
    /\ answer \in Answers /\ recording \in BOOLEAN
    /\ got \in 0 .. answer.total /\ from \in 0 .. got
    /\ fed \in Seq(Lines)

BodyType ==
    /\ client \in {"open", "ended", "left"}
    /\ queue \in Seq(Items) /\ Len(queue) <= ChannelCap
    /\ seen \in Nat /\ intact \in BOOLEAN /\ failed \in BOOLEAN

TypeOK ==
    /\ BufferType /\ BodyType
    /\ chunk \in Items
    /\ task \in {"read", "split", "send", "fail", "stash", "write", "none"}
    /\ how \in {"running", "eof", "error", "deadline"}
    /\ last_turn \in BOOLEAN /\ stored \in BOOLEAN

(* The task has been spawned, the headers are on their way.                *)
Init ==
    /\ answer \in Answers /\ recording \in BOOLEAN
    /\ got = 0 /\ from = 0 /\ fed = <<>> /\ chunk = Bytes(0)
    /\ task = "read" /\ how = "running" /\ turn = NoTurn
    /\ last_turn = FALSE /\ stored = FALSE
    /\ client = "open" /\ queue = <<>> /\ seen = 0 /\ intact = TRUE /\ failed = FALSE

(* Faulty variants of operators below: the bugs the properties must catch. *)
LimitOffByOne == IF got - from >= MaxBuf THEN got ELSE from
ClearsAlways  == got
NeverClears   == from
SentOver(item) == IF client = "open" THEN queue' = Append(queue, item) ELSE UNCHANGED queue
WaitsForBody(item) == client = "open" /\ queue' = Append(queue, item)

-----------------------------------------------------------------------------
(* The loop                                                                *)

(* tx.send succeeds or waits while the body is there, and fails at once    *)
(* when it is not: client_gone only spares attempts that would fail.       *)
Forward == task' = IF client = "open" THEN "send" ELSE "read"

Read(n) ==
    /\ task = "read" /\ n \in 1 .. answer.total - got
    /\ got' = got + n
    /\ chunk' = Bytes(n)
    /\ IF recording THEN task' = "split" ELSE Forward
    /\ UNCHANGED <<source, from, fed, outcome, marks, body>>

(* buf holds the newline of line i.                                        *)
Newline(i) == i \in Lines /\ from < End(i) /\ End(i) <= got

(* The line is drained and fed; it makes sense if its head is there.       *)
Drain(i) == from' = End(i) /\ fed' = IF Start(i) = from THEN Append(fed, i) ELSE fed

Feed(i) ==
    /\ task = "split" /\ Newline(i) /\ \A j \in Lines : Newline(j) => i <= j
    /\ Drain(i)
    /\ UNCHANGED <<source, got, chunk, task, outcome, marks, body>>

(* What is left of buf: "drop a giant partial line".                       *)
Cleared == IF got - from > MaxBuf THEN got ELSE from

Rest ==
    /\ task = "split" /\ \A i \in Lines : ~Newline(i)
    /\ from' = Cleared
    /\ Forward
    /\ UNCHANGED <<source, got, fed, chunk, outcome, marks, body>>

(* A chunk, or Err, is put into the channel.                               *)
Sent(item) ==
    IF client = "open"
      THEN Len(queue) < ChannelCap /\ queue' = Append(queue, item)
      ELSE UNCHANGED queue

Send ==
    /\ task = "send" /\ Sent(chunk)
    /\ task' = "read"
    /\ UNCHANGED <<source, buffer, chunk, outcome, marks, client, given>>

(* After the loop; without a session nothing is recorded.                  *)
Leave(why) ==
    /\ how' = why
    /\ IF recording THEN task' = "stash" /\ turn' = Collected(fed)
                    ELSE task' = "none" /\ UNCHANGED turn
    /\ UNCHANGED <<source, buffer, chunk, marks, client, given>>

SilentError == task = "read" /\ Leave("error") /\ UNCHANGED queue   \* faulty: no Err

(* An answer that breaks off is an error of the chunked encoding, no EOF.  *)
Eof == task = "read" /\ got = answer.total /\ Leave("eof") /\ UNCHANGED queue

(* 1800s, tested at the head of the loop: the client is told nothing.      *)
Deadline == task = "read" /\ Leave("deadline") /\ UNCHANGED queue

(* A stall of 30s, a broken connection, or the 300s total timeout.         *)
Error ==
    /\ task = "read"
    /\ IF client = "open"
         THEN task' = "fail"
              /\ UNCHANGED <<source, buffer, chunk, outcome, marks, client, given>>
         ELSE Leave("error")
    /\ UNCHANGED queue

SendErr == task = "fail" /\ Sent(Err) /\ Leave("error")

-----------------------------------------------------------------------------
(* record_turn, under its 10s timeout                                      *)

Stash ==
    /\ task = "stash" /\ task' = "write"
    /\ last_turn' = TRUE
    /\ UNCHANGED <<source, buffer, chunk, outcome, stored, body>>

RecordEnds ==
    /\ task \in {"stash", "write"} /\ task' = "none"
    /\ UNCHANGED stored \/ (task = "write" /\ stored' = TRUE)
    /\ UNCHANGED <<source, buffer, chunk, outcome, last_turn, body>>

-----------------------------------------------------------------------------
(* The client                                                              *)

Fetch ==
    /\ client = "open" /\ queue # <<>>
    /\ queue' = Tail(queue)
    /\ seen' = Head(queue).upto
    /\ intact' = (intact /\ ~failed /\ Head(queue).after = seen)
    /\ failed' = (failed \/ IsErr(Head(queue)))
    /\ UNCHANGED <<source, buffer, chunk, task, outcome, marks, client>>

BodyEnds ==
    /\ client = "open" /\ queue = <<>> /\ task = "none"
    /\ client' = "ended"
    /\ UNCHANGED <<source, buffer, chunk, task, outcome, marks, queue, given>>

Disconnect ==
    /\ client = "open" /\ client' = "left"
    /\ queue' = <<>>
    /\ UNCHANGED <<source, buffer, chunk, task, outcome, marks, given>>

-----------------------------------------------------------------------------
Loop == \/ \E n \in 1 .. answer.total : Read(n)
        \/ \E i \in Lines : Feed(i)
        \/ Rest \/ Send \/ Eof \/ Deadline \/ Error \/ SendErr

Next == Loop \/ Stash \/ RecordEnds \/ Fetch \/ BodyEnds \/ Disconnect

Spec == Init /\ [][Next]_vars

(* The runtime runs what is runnable and the 300s timer fires; neither the *)
(* server nor a client that listens is obliged to do anything.             *)
Fairness ==
    /\ WF_vars(\E i \in Lines : Feed(i)) /\ WF_vars(Rest)
    /\ WF_vars(Send) /\ WF_vars(SendErr) /\ SF_vars(Error)

FairSpec == Spec /\ Fairness

-----------------------------------------------------------------------------
(* Properties                                                              *)

(* proxy.rs:477-489: wherever the chunks are cut, and whatever giant lines *)
(* have been dropped before, each line that fits the buffer is fed whole,  *)
(* once and in its turn, before the next chunk is awaited.                 *)
InOrder == \A k, l \in DOMAIN fed : k < l => fed[k] < fed[l]

LinesFed ==
    recording /\ task # "split" =>
        /\ InOrder
        /\ \A i \in Lines : Short(i) /\ End(i) <= got => \E k \in DOMAIN fed : fed[k] = i

(* proxy.rs:491-516 "keep draining so the completed turn is still recorded": *)
(* once the answer has come to its end, what is recorded is what its lines *)
(* give, whether the client stayed or left.                                *)
TurnWhole ==
    turn # NoTurn /\ how = "eof" /\ (\A i \in Lines : Short(i))
        => turn = Collected([i \in 1 .. Len(answer.ends) |-> i])

(* proxy.rs:453-508: the client gets the answer's bytes in their order,    *)
(* none twice and none left out, and nothing after an error; a body that   *)
(* ends without an error has delivered the whole answer, unless the loop   *)
(* ran into its deadline.                                                  *)
CleanEnd ==
    /\ intact
    /\ client = "ended" /\ ~failed => seen = answer.total \/ how = "deadline"

(* proxy.rs:491-516: the drain for a client that has left comes to an end  *)
(* and to a turn, even if the server never ends its answer.                *)
DrainEnds == recording /\ client = "left" ~> turn # NoTurn

(* What LinesFed and TurnWhole rest on.  Between chunks no newline is left *)
(* in buf, and no more than MAX_SSE_BUF bytes; a line that buf holds only  *)
(* the tail of did not fit.                                                *)
Rested == task # "split" =>
    got - from <= MaxBuf /\ \A i \in Lines : End(i) <= got => End(i) <= from

Progress ==
    /\ InOrder
    /\ \A k \in DOMAIN fed : End(fed[k]) <= from
    /\ \A i \in Lines : Start(i) < from /\ from < End(i) => ~Short(i)
    /\ \A i \in Lines : Short(i) /\ End(i) <= from => \E k \in DOMAIN fed : fed[k] = i

Sofar == IF fed = <<>> THEN 0 ELSE End(Len(fed))

WhenAllShort ==
    (\A i \in Lines : Short(i)) =>
        /\ fed = [i \in 1 .. Len(fed) |-> i] /\ Len(fed) <= Len(answer.ends)
        /\ Len(fed) < Len(answer.ends) => from = Sofar

(* What CleanEnd rests on.  What is in the channel goes on where the       *)
(* client's bytes end, and ends where the chunk in hand, or the next one,  *)
(* begins; an error is the last thing sent.                                *)
Reached(k) == IF k = 0 THEN seen ELSE queue[k].upto
Sending    == IF task \in {"split", "send"} THEN chunk.after ELSE got
Over       == task \in {"stash", "write", "none"}
ErrQueued  == \E k \in DOMAIN queue : IsErr(queue[k])

Delivery ==
    /\ intact /\ (how = "running" <=> ~Over)
    /\ task \in {"split", "send"} => chunk.upto = got /\ ~IsErr(chunk)
    /\ client = "ended" => queue = <<>> /\ task = "none"
    /\ client # "left" =>
          /\ \A k \in DOMAIN queue : queue[k].after = Reached(k - 1)
          /\ Reached(Len(queue)) = Sending
          /\ \A k \in DOMAIN queue : IsErr(queue[k]) => k = Len(queue)
          /\ (failed \/ ErrQueued) <=> how = "error"
          /\ failed => queue = <<>>

CollectInv ==
    /\ TypeOK
    /\ recording => Rested /\ Progress /\ WhenAllShort
    /\ turn # NoTurn => turn = Collected(fed) /\ recording /\ task \in {"stash", "write", "none"}
    /\ how = "eof" => got = answer.total
    /\ (task \in {"stash", "write"} => recording) /\ (stored => task = "none")

StreamInv == CollectInv /\ Delivery

-----------------------------------------------------------------------------
(* The stream task of module Proxy, for one connection                     *)

P == INSTANCE Proxy WITH
       Conns <- {"c"}, Models <- {"m"}, NoModel <- "no model", Sessions <- {},
       NoSession <- "no session", Fresh <- "fresh", NoConn <- "no connection",
       Broken <- "broken",
       model_id <- "m", served <- "m", hint <- "no session", busy <- FALSE, holds <- {},
       pc        <- [c \in {"c"} |-> IF client = "open" THEN "body" ELSE "idle"],
       model     <- [c \in {"c"} |-> IF task = "none" THEN "no model" ELSE "m"],
       up        <- [c \in {"c"} |-> IF task = "none" THEN "no model" ELSE "m"],
       streaming <- [c \in {"c"} |-> task # "none"],
       owner     <- [c \in {"c"} |-> "no session"],
       header    <- [c \in {"c"} |-> FALSE],
       session   <- [c \in {"c"} |-> IF recording /\ task # "none" THEN "fresh" ELSE "no session"],
       task      <- [c \in {"c"} |-> CASE task = "split" -> "read"
                                       [] task \in {"stash", "write"} -> "record"
                                       [] OTHER -> task],
       rec       <- [c \in {"c"} |-> IF task \in {"stash", "write"} THEN task ELSE "no"],
       queued    <- [c \in {"c"} |-> Len(queue)],
       last_request_at <- "no connection",
       last_turn <- IF last_turn THEN "c" ELSE "no connection",
       stored    <- IF stored THEN {"c"} ELSE {},
       phase     <- "serve"

TaskOfProxy ==
    \/ P!TaskStep("c") \/ P!RecordStep("c")
    \/ P!ClientReads("c") \/ P!BodyEnds("c") \/ P!Disconnect("c")

(* Whatever the task does is what module Proxy lets a stream task do.      *)
ImplementsTask == [][TaskOfProxy]_(P!vars)
===============================================================================
