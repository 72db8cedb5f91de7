-------------------------------- MODULE Store --------------------------------
(***************************************************************************)
(* Turns in Postgres: Store::record_turn of src/store.rs, one transaction  *)
(* of seven round trips, run at the same time by stream tasks, handlers    *)
(* and /api/session-test; resolve_session, one statement, which a handler  *)
(* executes before; build_turn of src/proxy.rs and the rollup that         *)
(* list_sessions shows.                                                    *)
(*                                                                         *)
(* Postgres runs at READ COMMITTED: a statement sees what is committed     *)
(* when it starts, and its own transaction.  An upsert holds its row until *)
(* the transaction ends, as does pg_advisory_xact_lock its key.            *)
(*                                                                         *)
(* A turn is dropped when its writer's future is: after 10s, or when the   *)
(* client hangs up.  sqlx then sends a ROLLBACK, and the locks are held    *)
(* until Postgres has seen it ("aborting").  A daemon that dies sends      *)
(* nothing: its locks stay until Postgres misses the connection ("gone").  *)
(***************************************************************************)
EXTENDS Naturals, FiniteSets, FiniteSetsExt

CONSTANTS
    Writers,          \* tasks that record turns through the daemon's pool
    Testers,          \* /api/session-test: each connects with its own pool
    Nobody,
    Sessions, NoSession,
    Key(_),           \* session_lock_key: distinct sessions may share one
    PoolSize,         \* max_connections (5)
    Timings,          \* what an answer reports: records of cache_n, prompt_n, usage
    Fake,             \* the turn of record_fake_turn
    MaxTurns          \* bound on the turns of a session, for TLC

Tasks  == Writers \union Testers
Keys   == {Key(s) : s \in Sessions}

ASSUME TasksAssumption ==
    Writers \intersect Testers = {} /\ Nobody \notin Tasks /\ NoSession \notin Sessions
ASSUME SizeAssumption  == PoolSize \in Nat \ {0} /\ MaxTurns \in Nat
ASSUME TurnAssumption  ==
    \A t \in Timings \union {Fake} :
        t.cache_n \in Nat /\ t.prompt_n \in Nat /\ t.usage \in {"full", "none", "zero"}

VARIABLES
    turns,            \* committed rows of a session: sets of [index, turn]
    total_requests, total_prompt_tokens, total_cache_tokens,   \* its rollup
    pc,               \* the statement a task is about to have executed
    sess, turn,       \* what it records
    idx,              \* COALESCE(MAX(turn_index), -1) + 1
    rollup,           \* the row its UPDATE has written: requests, prompt, cache
    advisory, row     \* holders of the locks on a key, on a sessions row

rollups == <<total_requests, total_prompt_tokens, total_cache_tokens>>
locals  == <<sess, turn, idx, rollup>>
locks   == <<advisory, row>>
vars    == <<turns, rollups, pc, locals, locks>>

Statements == {"touch", "lock", "upsert", "index", "insert", "rollup", "commit"}
InTx       == Statements \union {"aborting"}   \* holding a connection
Blank      == [requests |-> 0, prompt |-> 0, cache |-> 0]

TypeOK ==
    /\ turns \in [Sessions -> SUBSET [index : Nat, turn : Timings \union {Fake}]]
    /\ total_requests \in [Sessions -> Nat]
    /\ total_prompt_tokens \in [Sessions -> Nat]
    /\ total_cache_tokens \in [Sessions -> Nat]
    /\ pc \in [Tasks -> InTx \union {"idle", "pool", "lookup", "gone"}]
    /\ sess \in [Tasks -> Sessions \union {NoSession}]
    /\ turn \in [Tasks -> Timings \union {Fake}]
    /\ idx \in [Tasks -> Nat]
    /\ rollup \in [Tasks -> [requests : Nat, prompt : Nat, cache : Nat]]
    /\ advisory \in [Keys -> Tasks \union {Nobody}]
    /\ row \in [Sessions -> Tasks \union {Nobody}]

Init ==
    /\ turns = [s \in Sessions |-> {}]
    /\ total_requests = [s \in Sessions |-> 0]
    /\ total_prompt_tokens = [s \in Sessions |-> 0]
    /\ total_cache_tokens = [s \in Sessions |-> 0]
    /\ pc = [w \in Tasks |-> "idle"]
    /\ sess = [w \in Tasks |-> NoSession]
    /\ turn = [w \in Tasks |-> Fake]
    /\ idx = [w \in Tasks |-> 0]
    /\ rollup = [w \in Tasks |-> Blank]
    /\ advisory = [k \in Keys |-> Nobody]
    /\ row = [s \in Sessions |-> Nobody]

Goto(w, label) == pc' = [pc EXCEPT ![w] = label]
Indices(s)     == {r.index : r \in turns[s]}

(* Faulty variants of operators below: the bugs the properties must catch. *)
IndexFirst(label) ==
    CASE label = "pool" -> "index" [] label = "index" -> "lock" [] label = "lock" -> "upsert"
      [] label = "upsert" -> "insert" [] label = "insert" -> "rollup" [] OTHER -> "commit"
KeepsAdvisory(w) == /\ row' = [s \in Sessions |-> IF row[s] = w THEN Nobody ELSE row[s]]
                    /\ UNCHANGED advisory
FromOne(s)       == Cardinality(turns[s]) + 1
Retries(w)       == Goto(w, "pool") /\ UNCHANGED locals
OutsideTx(w) ==
    /\ pc[w] = "insert"
    /\ turns' = [turns EXCEPT ![sess[w]] =
                    turns[sess[w]] \union {[index |-> idx[w], turn |-> turn[w]]}]
    /\ Goto(w, "rollup")
    /\ UNCHANGED <<rollups, locals, locks>>

-----------------------------------------------------------------------------
(* build_turn: usage, or the timings of a stream that has none             *)

PromptTokens(t) == CASE t.usage = "full" -> t.prompt_n + t.cache_n
                     [] t.usage = "none" -> t.prompt_n + t.cache_n
                     [] OTHER            -> 0

CachedTokens(t) == IF t.usage = "zero" THEN 0 ELSE t.cache_n

-----------------------------------------------------------------------------
(* resolve_session, record_turn                                            *)

NextStatement(label) ==
    CASE label = "pool" -> "lock" [] label = "lock" -> "upsert" [] label = "upsert" -> "index"
      [] label = "index" -> "insert" [] label = "insert" -> "rollup" [] OTHER -> "commit"

Record(w) ==
    /\ pc[w] = "idle"
    /\ \E s \in Sessions, t \in IF w \in Testers THEN {Fake} ELSE Timings :
         /\ Cardinality(turns[s]) < MaxTurns
         /\ sess' = [sess EXCEPT ![w] = s]
         /\ turn' = [turn EXCEPT ![w] = t]
    /\ Goto(w, "pool")
    /\ UNCHANGED <<turns, rollups, idx, rollup, locks>>

(* The transaction is over: its locks are released, its locals are gone.   *)
Release(w) ==
    /\ row' = [s \in Sessions |-> IF row[s] = w THEN Nobody ELSE row[s]]
    /\ advisory' = [k \in Keys |-> IF advisory[k] = w THEN Nobody ELSE advisory[k]]

Forget(w) ==
    /\ Goto(w, "idle")
    /\ sess' = [sess EXCEPT ![w] = NoSession]
    /\ turn' = [turn EXCEPT ![w] = Fake]
    /\ idx' = [idx EXCEPT ![w] = 0]
    /\ rollup' = [rollup EXCEPT ![w] = Blank]

(* A handler looks its session up before it asks the llama-server.         *)
ResolveSession(w) ==
    /\ w \in Writers /\ pc[w] = "idle"
    /\ \E s \in Sessions : sess' = [sess EXCEPT ![w] = s]
    /\ Goto(w, "lookup")
    /\ UNCHANGED <<turns, rollups, turn, idx, rollup, locks>>

(* A connection of the pool is free; a transaction executes its BEGIN.     *)
Begin(w) ==
    /\ pc[w] \in {"pool", "lookup"}
    /\ w \in Writers => Cardinality({v \in Writers : pc[v] \in InTx}) < PoolSize
    /\ Goto(w, IF pc[w] = "lookup" THEN "touch" ELSE NextStatement("pool"))
    /\ UNCHANGED <<turns, rollups, locals, locks>>

(* The upsert of resolve_session: a transaction of its own, which waits    *)
(* for the session's row and takes no advisory lock.                       *)
Touch(w) ==
    /\ pc[w] = "touch" /\ row[sess[w]] = Nobody
    /\ Forget(w)
    /\ UNCHANGED <<turns, rollups, locks>>

AdvisoryLock(w) ==
    /\ pc[w] = "lock" /\ advisory[Key(sess[w])] = Nobody
    /\ advisory' = [advisory EXCEPT ![Key(sess[w])] = w]
    /\ Goto(w, NextStatement("lock"))
    /\ UNCHANGED <<turns, rollups, locals, row>>

Upsert(w) ==
    /\ pc[w] = "upsert" /\ row[sess[w]] = Nobody
    /\ row' = [row EXCEPT ![sess[w]] = w]
    /\ Goto(w, NextStatement("upsert"))
    /\ UNCHANGED <<turns, rollups, locals, advisory>>

(* COALESCE(MAX(turn_index), -1) + 1                                       *)
TopIndex(s) == IF turns[s] = {} THEN 0 ELSE Max(Indices(s)) + 1

Index(w) ==
    /\ pc[w] = "index"
    /\ idx' = [idx EXCEPT ![w] = TopIndex(sess[w])]
    /\ Goto(w, NextStatement("index"))
    /\ UNCHANGED <<turns, rollups, sess, turn, rollup, locks>>

(* The unique index refuses an index that is taken; the foreign key needs  *)
(* the row of the session, which the upsert has made.                      *)
Insert(w) ==
    /\ pc[w] = "insert"
    /\ Goto(w, IF idx[w] \in Indices(sess[w]) THEN "aborting" ELSE NextStatement("insert"))
    /\ UNCHANGED <<turns, rollups, locals, locks>>

Rollup(w) ==
    /\ pc[w] = "rollup"
    /\ LET s == sess[w] IN
         rollup' = [rollup EXCEPT ![w] =
                      [requests |-> total_requests[s] + 1,
                       prompt   |-> total_prompt_tokens[s] + PromptTokens(turn[w]),
                       cache    |-> total_cache_tokens[s] + CachedTokens(turn[w])]]
    /\ Goto(w, NextStatement("rollup"))
    /\ UNCHANGED <<turns, rollups, sess, turn, idx, locks>>

Persist(w) ==
    LET s == sess[w] IN
    /\ turns' = [turns EXCEPT ![s] = turns[s] \union {[index |-> idx[w], turn |-> turn[w]]}]
    /\ total_requests' = [total_requests EXCEPT ![s] = rollup[w].requests]
    /\ total_prompt_tokens' = [total_prompt_tokens EXCEPT ![s] = rollup[w].prompt]
    /\ total_cache_tokens' = [total_cache_tokens EXCEPT ![s] = rollup[w].cache]

Commit(w) ==
    /\ pc[w] = "commit"
    /\ Persist(w)
    /\ Release(w)
    /\ Forget(w)

(* An error of a statement, or the writer's future is dropped.             *)
GiveUp(w) ==
    /\ pc[w] \in Statements
    /\ Goto(w, "aborting")
    /\ UNCHANGED <<turns, rollups, locals, locks>>

(* Nothing has begun: acquire_timeout (5s), or dropped.                    *)
NoConnection(w) ==
    /\ pc[w] \in {"pool", "lookup"}
    /\ Forget(w)
    /\ UNCHANGED <<turns, rollups, locks>>

Rollback(w) ==
    /\ pc[w] \in {"aborting", "gone"}
    /\ Release(w)
    /\ Forget(w)
    /\ UNCHANGED <<turns, rollups>>

(* The daemon dies, and all it knows with it: Postgres will roll back what *)
(* it has not committed.  What it still executes for the dead daemon it    *)
(* has executed before here.  The next daemon has a pool of its own.       *)
DaemonDies ==
    /\ pc' = [w \in Tasks |-> IF pc[w] \in InTx \union {"gone"} THEN "gone" ELSE "idle"]
    /\ sess' = [w \in Tasks |-> NoSession]
    /\ turn' = [w \in Tasks |-> Fake]
    /\ idx' = [w \in Tasks |-> 0]
    /\ rollup' = [w \in Tasks |-> Blank]
    /\ UNCHANGED <<turns, rollups, locks>>

-----------------------------------------------------------------------------
Call(w)      == Record(w) \/ ResolveSession(w)
Granted(w)   == Begin(w) \/ AdvisoryLock(w) \/ Upsert(w) \/ Touch(w)
Statement(w) == Index(w) \/ Insert(w) \/ Rollup(w) \/ Commit(w) \/ Rollback(w)

Next ==
    \/ \E w \in Tasks : Call(w) \/ Granted(w) \/ Statement(w) \/ GiveUp(w) \/ NoConnection(w)
    \/ DaemonDies

Spec == Init /\ [][Next]_vars

(***************************************************************************)
(* Fairness.  Postgres executes what is not blocked, and grants its locks, *)
(* as the pool its connections, in turn: hence strong fairness, which for  *)
(* a statement that waits for nothing is no more than weak fairness.  It   *)
(* misses a dead connection in the end.  No timeout is relied upon.        *)
(***************************************************************************)
Fairness == \A w \in Tasks : SF_vars(Granted(w) \/ Statement(w))

FairSpec == Spec /\ Fairness

-----------------------------------------------------------------------------
(* Properties                                                              *)

(* store.rs:82-89: the turns of a session are numbered 0, 1, 2 ... without *)
(* a gap, whatever writers overlap, fail, time out or die.                 *)
DenseTurns == \A s \in Sessions : Indices(s) = {i - 1 : i \in 1 .. Cardinality(turns[s])}

(* store.rs:86-88 "so turn_index can't collide": the index a transaction   *)
(* has read is still the next one when it inserts and commits.             *)
IndexCurrent ==
    \A w \in Tasks : pc[w] \in {"insert", "rollup", "commit"} => idx[w] = TopIndex(sess[w])

(* What the two rest on (store.rs:84-163): from the upsert to the end of   *)
(* its transaction a task owns the session's row, so that what it has read *)
(* of the session stays so until it commits.                               *)
Owning == {"index", "insert", "rollup", "commit"}

Owns(w) ==
    /\ pc[w] \notin {"idle", "gone"} => sess[w] \in Sessions
    /\ pc[w] \in Owning => row[sess[w]] = w
    /\ pc[w] = "commit" =>
         rollup[w] = [requests |-> total_requests[sess[w]] + 1,
                      prompt   |-> total_prompt_tokens[sess[w]] + PromptTokens(turn[w]),
                      cache    |-> total_cache_tokens[sess[w]] + CachedTokens(turn[w])]

OwnedRow == \A w \in Tasks : Owns(w)

FiniteTurns == \A s \in Sessions : IsFiniteSet(turns[s])

StoreInv == TypeOK /\ FiniteTurns /\ DenseTurns /\ IndexCurrent /\ OwnedRow

(* store.rs:82-83 "session row, turn insert, and rollup - all in one       *)
(* transaction": the rollup is the sum of the turns, at every moment.      *)
RollupMatches ==
    \A s \in Sessions :
        /\ total_requests[s] = Cardinality(turns[s])
        /\ total_prompt_tokens[s] = SumFunction([r \in turns[s] |-> PromptTokens(r.turn)])
        /\ total_cache_tokens[s] = SumFunction([r \in turns[s] |-> CachedTokens(r.turn)])

(* The same, of a single step: a turn and its share of the rollup appear   *)
(* together, one at a time, and neither is ever taken back.                *)
Counted(s) ==
    \/ UNCHANGED <<turns[s], total_requests[s], total_prompt_tokens[s], total_cache_tokens[s]>>
    \/ \E r \in turns'[s] \ turns[s] :
         /\ turns'[s] = turns[s] \union {r}
         /\ total_requests'[s] = total_requests[s] + 1
         /\ total_prompt_tokens'[s] = total_prompt_tokens[s] + PromptTokens(r.turn)
         /\ total_cache_tokens'[s] = total_cache_tokens[s] + CachedTokens(r.turn)

RollupFollows == [][\A s \in Sessions : Counted(s)]_vars

(* The store implements the log of TurnLog (store.rs:84-163): the turns of *)
(* a session by index are a sequence to which each call of record_turn     *)
(* appends its turn in the step that ends it, or never.  A call that is    *)
(* being rolled back has already lost its turn.                            *)
Recording(w) == pc[w] \in {"pool", "lock", "upsert", "index", "insert", "rollup", "commit"}
RowAt(rows, i) == CHOOSE r \in rows : r.index = i
LogOf(rows)  == [i \in 1 .. Cardinality(rows) |-> RowAt(rows, i - 1).turn]
Pending(w)   == IF Recording(w) THEN {<<sess[w], turn[w]>>} ELSE {}

Log == INSTANCE TurnLog WITH Turns <- Timings \union {Fake},
                             log <- [s \in Sessions |-> LogOf(turns[s])],
                             pending <- [w \in Tasks |-> Pending(w)]

ImplementsLog == Log!Spec

(* store.rs:59-164: transactions do not wait for each other in a circle    *)
(* nor for a lock that nobody will release: every call returns, also       *)
(* /api/session-test's, which has no timeout around it, and a lookup that  *)
(* competes with a recording for the connections and the session's row.    *)
RecordingEnds == \A w \in Tasks : pc[w] # "idle" ~> pc[w] = "idle"

(* What a document says, and the code does not keep.                       *)

(* DESIGN.md:292-293 "Cache hit rate = cache_n / (cache_n + prompt_n)":    *)
(* cache_hit_pct divides total_cache by total_cache + total_prompt.        *)
CacheRate ==
    \A s \in Sessions :
        LET cache_n  == MapThenSumSet(LAMBDA r : r.turn.cache_n, turns[s])
            prompt_n == MapThenSumSet(LAMBDA r : r.turn.prompt_n, turns[s])
        IN  total_cache_tokens[s] * (cache_n + prompt_n)
              = cache_n * (total_cache_tokens[s] + total_prompt_tokens[s])
==============================================================================
