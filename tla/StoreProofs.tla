----------------------------- MODULE StoreProofs -----------------------------
(***************************************************************************)
(* Numbering and rollup of turns, for any number of writers, testers and   *)
(* sessions and any pool.  The argument is OwnedRow: from its upsert to    *)
(* its end a transaction owns the session's row, so nobody else commits a  *)
(* turn of that session between its MAX and its own commit.                *)
(***************************************************************************)
EXTENDS Store, Sequences, SumTheorems

USE TasksAssumption, SizeAssumption

(* What a turn adds to the rollup is a number of tokens.                   *)
LEMMA TokensType ==
  ASSUME NEW t \in Timings \union {Fake}
  PROVE  PromptTokens(t) \in Nat /\ CachedTokens(t) \in Nat
  BY TurnAssumption DEF PromptTokens, CachedTokens

(* With dense turns, COALESCE(MAX(turn_index), -1) + 1 is their number.    *)
LEMMA TopIndexCounts ==
  ASSUME StoreInv, NEW s \in Sessions
  PROVE  /\ Cardinality(turns[s]) \in Nat
         /\ TopIndex(s) = Cardinality(turns[s])
         /\ TopIndex(s) \notin Indices(s)
<1> DEFINE n == Cardinality(turns[s])
<1>1. IsFiniteSet(turns[s]) /\ Indices(s) = {i - 1 : i \in 1 .. n}
  BY DEF StoreInv, FiniteTurns, DenseTurns
<1>2. n \in Nat /\ (n = 0 <=> turns[s] = {})
  BY <1>1, FS_CardinalityType, FS_EmptySet
<1>3. CASE n = 0
  <2>1. TopIndex(s) = 0 /\ Indices(s) = {}
    BY <1>2, <1>3 DEF TopIndex, Indices
  <2> QED
    BY <1>2, <1>3, <2>1
<1>4. CASE n # 0
  <2>1. n - 1 \in Indices(s) /\ \A y \in Indices(s) : y \in Int /\ n - 1 >= y
    BY <1>1, <1>2, <1>4
  <2>2. Max(Indices(s)) = n - 1
    BY <1>2, <2>1 DEF Max
  <2>3. TopIndex(s) = n
    BY <1>2, <1>4, <2>2 DEF TopIndex
  <2> QED
    BY <1>2, <2>1, <2>3
<1> QED
  BY <1>3, <1>4

(* A step that leaves the committed turns alone.                           *)
LEMMA SameTurns ==
  ASSUME StoreInv, UNCHANGED turns
  PROVE  /\ FiniteTurns' /\ DenseTurns'
         /\ \A s \in Sessions : TopIndex(s)' = TopIndex(s) /\ Indices(s)' = Indices(s)
  BY DEF StoreInv, FiniteTurns, DenseTurns, TopIndex, Indices

(* A step of w by which it has read no index, and the others nothing new.  *)
LEMMA SameIndices ==
  ASSUME StoreInv, UNCHANGED turns, NEW w \in Tasks,
         \A v \in Tasks \ {w} : pc'[v] = pc[v] /\ sess'[v] = sess[v] /\ idx'[v] = idx[v],
         pc'[w] \notin {"insert", "rollup", "commit"}
  PROVE  IndexCurrent'
<1> SUFFICES ASSUME NEW v \in Tasks, pc'[v] \in {"insert", "rollup", "commit"}
             PROVE  idx'[v] = TopIndex(sess[v])'
  BY DEF IndexCurrent
<1>1. v # w
  OBVIOUS
<1>2. pc[v] \in {"insert", "rollup", "commit"} /\ sess'[v] = sess[v] /\ idx'[v] = idx[v]
  BY <1>1
<1>3. idx[v] = TopIndex(sess[v])
  BY <1>2 DEF StoreInv, IndexCurrent
<1>4. sess[v] \in Sessions
  BY <1>2 DEF StoreInv, OwnedRow, Owns
<1>5. TopIndex(sess[v])' = TopIndex(sess[v])
  <2>1. \A s \in Sessions : TopIndex(s)' = TopIndex(s)
    BY SameTurns
  <2> QED
    BY <1>2, <1>4, <2>1 DEF TopIndex, Indices
<1> QED
  BY <1>2, <1>3, <1>5

LEMMA InitInv == Init => StoreInv
<1> SUFFICES ASSUME Init PROVE StoreInv
  OBVIOUS
<1>1. TypeOK
  BY DEF Init, TypeOK, InTx, Statements, Blank
<1>2. FiniteTurns /\ DenseTurns
  BY FS_EmptySet DEF Init, FiniteTurns, DenseTurns, Indices
<1>3. IndexCurrent /\ OwnedRow
  BY DEF Init, IndexCurrent, OwnedRow, Owns, Owning
<1> QED
  BY <1>1, <1>2, <1>3 DEF StoreInv

(* The end of a transaction, committed or not, keeps the types.            *)
LEMMA EndType ==
  ASSUME TypeOK, NEW w \in Tasks, Forget(w)
  PROVE  /\ pc' \in [Tasks -> InTx \union {"idle", "pool", "lookup", "gone"}]
         /\ sess' \in [Tasks -> Sessions \union {NoSession}]
         /\ turn' \in [Tasks -> Timings \union {Fake}]
         /\ idx' \in [Tasks -> Nat]
         /\ rollup' \in [Tasks -> [requests : Nat, prompt : Nat, cache : Nat]]
  BY DEF TypeOK, Forget, Goto, Blank

LEMMA ReleaseType ==
  ASSUME TypeOK, NEW w \in Tasks, Release(w)
  PROVE  advisory' \in [Keys -> Tasks \union {Nobody}] /\ row' \in [Sessions -> Tasks \union {Nobody}]
  BY DEF TypeOK, Release

-----------------------------------------------------------------------------
(* Steps that commit nothing.                                              *)

LEMMA CallInv ==
  ASSUME StoreInv, NEW w \in Tasks, Call(w)
  PROVE  StoreInv'
<1>1. UNCHANGED <<turns, rollups, locks, idx, rollup>>
  BY DEF Call, Record, ResolveSession
<1>2. pc[w] = "idle" /\ pc'[w] \in {"pool", "lookup"} /\ sess'[w] \in Sessions
  BY DEF Call, Record, ResolveSession, Goto, StoreInv, TypeOK
<1>3. \A v \in Tasks \ {w} : pc'[v] = pc[v] /\ sess'[v] = sess[v] /\ turn'[v] = turn[v]
  BY DEF Call, Record, ResolveSession, Goto, StoreInv, TypeOK
<1>4. TypeOK'
  <2>1. /\ pc' \in [Tasks -> InTx \union {"idle", "pool", "lookup", "gone"}]
        /\ sess' \in [Tasks -> Sessions \union {NoSession}]
    <3>1. /\ pc \in [Tasks -> InTx \union {"idle", "pool", "lookup", "gone"}]
          /\ sess \in [Tasks -> Sessions \union {NoSession}]
      BY DEF StoreInv, TypeOK
    <3>2. /\ \E l \in {"pool", "lookup"} : pc' = [pc EXCEPT ![w] = l]
          /\ \E s \in Sessions : sess' = [sess EXCEPT ![w] = s]
      BY DEF Call, Record, ResolveSession, Goto
    <3> QED
      BY <3>1, <3>2
  <2>2. turn' \in [Tasks -> Timings \union {Fake}]
    <3>1. turn \in [Tasks -> Timings \union {Fake}]
      BY DEF StoreInv, TypeOK
    <3>2. turn' = turn \/ \E t \in Timings \union {Fake} : turn' = [turn EXCEPT ![w] = t]
      BY DEF Call, Record, ResolveSession
    <3> QED
      BY <3>1, <3>2
  <2> QED
    BY <1>1, <2>1, <2>2 DEF StoreInv, TypeOK, rollups, locks
<1>5. IndexCurrent'
  BY <1>1, <1>2, <1>3, SameIndices
<1>6. OwnedRow'
  BY <1>1, <1>2, <1>3 DEF StoreInv, OwnedRow, Owns, Owning, rollups, locks
<1> QED
  BY <1>1, <1>4, <1>5, <1>6, SameTurns DEF StoreInv

(* Locks are taken only when they are free: no other task's row changes.   *)
LEMMA GrantedInv ==
  ASSUME StoreInv, NEW w \in Tasks, Granted(w)
  PROVE  StoreInv'
<1>1. UNCHANGED <<turns, rollups>>
  BY DEF Granted, Begin, AdvisoryLock, Upsert, Touch, rollups
<1>2. \A v \in Tasks \ {w} : /\ pc'[v] = pc[v] /\ sess'[v] = sess[v] /\ turn'[v] = turn[v]
                            /\ idx'[v] = idx[v] /\ rollup'[v] = rollup[v]
  BY DEF Granted, Begin, AdvisoryLock, Upsert, Touch, Forget, Goto, StoreInv, TypeOK, locals
<1>3. \A s \in Sessions : row[s] # Nobody => row'[s] = row[s]
  BY DEF Granted, Begin, AdvisoryLock, Upsert, Touch, StoreInv, TypeOK, locks
<1>4. TypeOK'
  <2>1. CASE Begin(w)
    BY <2>1 DEF Begin, Goto, NextStatement, StoreInv, TypeOK, InTx, Statements, rollups,
                locals, locks
  <2>2. CASE AdvisoryLock(w)
    <3>1. sess[w] \in Sessions
      BY <2>2 DEF AdvisoryLock, StoreInv, OwnedRow, Owns
    <3>2. advisory' \in [Keys -> Tasks \union {Nobody}]
      BY <2>2, <3>1 DEF AdvisoryLock, StoreInv, TypeOK, Keys
    <3> QED
      BY <2>2, <3>2 DEF AdvisoryLock, Goto, NextStatement, StoreInv, TypeOK, InTx, Statements,
                        rollups, locals
  <2>3. CASE Upsert(w)
    BY <2>3 DEF Upsert, Goto, NextStatement, StoreInv, TypeOK, InTx, Statements, rollups,
                locals
  <2>4. CASE Touch(w)
    BY <2>4, EndType DEF Touch, StoreInv, TypeOK, rollups, locks
  <2> QED
    BY <2>1, <2>2, <2>3, <2>4 DEF Granted
<1>5. pc'[w] \in {"touch", "lock", "upsert", "index", "idle"}
  BY DEF Granted, Begin, AdvisoryLock, Upsert, Touch, Forget, Goto, NextStatement, StoreInv,
         TypeOK
<1>6. pc'[w] \notin {"idle", "gone"} => pc[w] \notin {"idle", "gone"} /\ sess'[w] = sess[w]
  BY DEF Granted, Begin, AdvisoryLock, Upsert, Touch, Forget, Goto, StoreInv, TypeOK, locals
<1>7. pc'[w] = "index" => row'[sess[w]] = w
  BY DEF Granted, Begin, AdvisoryLock, Upsert, Touch, Forget, Goto, NextStatement, StoreInv,
         TypeOK, OwnedRow, Owns, Owning
<1>8. IndexCurrent'
  BY <1>1, <1>2, <1>5, SameIndices
<1>9. OwnedRow'
  <2>1. Owns(w)'
    BY <1>5, <1>6, <1>7 DEF StoreInv, OwnedRow, Owns, Owning
  <2>2. ASSUME NEW v \in Tasks \ {w} PROVE Owns(v)'
    BY <1>1, <1>2, <1>3, TasksAssumption DEF StoreInv, OwnedRow, Owns, Owning, rollups
  <2> QED
    BY <2>1, <2>2 DEF OwnedRow
<1> QED
  BY <1>1, <1>4, <1>8, <1>9, SameTurns DEF StoreInv

(* The MAX is read under the row's lock.                                   *)
LEMMA IndexInv ==
  ASSUME StoreInv, NEW w \in Tasks, Index(w)
  PROVE  StoreInv'
<1>1. sess[w] \in Sessions /\ TopIndex(sess[w]) \in Nat
  <2>1. sess[w] \in Sessions
    BY DEF Index, StoreInv, OwnedRow, Owns
  <2> QED
    BY <2>1, TopIndexCounts
<1>2. TypeOK'
  BY <1>1 DEF Index, Goto, NextStatement, StoreInv, TypeOK, InTx, Statements, rollups, locks
<1>3. IndexCurrent'
  BY <1>1, SameTurns DEF Index, Goto, NextStatement, StoreInv, TypeOK, IndexCurrent, OwnedRow, Owns
<1>4. OwnedRow'
  BY DEF Index, Goto, NextStatement, StoreInv, TypeOK, OwnedRow, Owns, Owning, rollups, locks
<1> QED
  BY <1>2, <1>3, <1>4, SameTurns DEF Index, StoreInv

LEMMA InsertInv ==
  ASSUME StoreInv, NEW w \in Tasks, Insert(w)
  PROVE  StoreInv'
<1>1. TypeOK'
  BY DEF Insert, Goto, NextStatement, StoreInv, TypeOK, InTx, Statements, rollups, locals, locks
<1>2. IndexCurrent'
  BY SameTurns DEF Insert, Goto, NextStatement, StoreInv, TypeOK, IndexCurrent, OwnedRow, Owns, locals
<1>3. OwnedRow'
  BY DEF Insert, Goto, NextStatement, StoreInv, TypeOK, OwnedRow, Owns, Owning, rollups, locals, locks
<1> QED
  BY <1>1, <1>2, <1>3, SameTurns DEF Insert, StoreInv

LEMMA RollupInv ==
  ASSUME StoreInv, NEW w \in Tasks, Rollup(w)
  PROVE  StoreInv'
<1>1. sess[w] \in Sessions /\ turn[w] \in Timings \union {Fake}
  BY DEF Rollup, StoreInv, OwnedRow, Owns, TypeOK
<1>2. PromptTokens(turn[w]) \in Nat /\ CachedTokens(turn[w]) \in Nat
  BY <1>1, TokensType
<1>3. TypeOK'
  BY <1>1, <1>2 DEF Rollup, Goto, NextStatement, StoreInv, TypeOK, InTx, Statements, rollups,
                    locks
<1>4. IndexCurrent'
  BY SameTurns DEF Rollup, Goto, NextStatement, StoreInv, TypeOK, IndexCurrent, OwnedRow, Owns
<1>5. OwnedRow'
  BY DEF Rollup, Goto, NextStatement, StoreInv, TypeOK, OwnedRow, Owns, Owning, rollups, locks
<1> QED
  BY <1>3, <1>4, <1>5, SameTurns DEF Rollup, StoreInv

LEMMA GiveUpInv ==
  ASSUME StoreInv, NEW w \in Tasks, GiveUp(w)
  PROVE  StoreInv'
<1>1. TypeOK'
  BY DEF GiveUp, Goto, StoreInv, TypeOK, InTx, rollups, locals, locks
<1>2. IndexCurrent'
  BY SameTurns DEF GiveUp, Goto, StoreInv, TypeOK, IndexCurrent, OwnedRow, Owns, locals
<1>3. OwnedRow'
  BY DEF GiveUp, Goto, StoreInv, TypeOK, OwnedRow, Owns, Owning, Statements, rollups, locals, locks
<1> QED
  BY <1>1, <1>2, <1>3, SameTurns DEF GiveUp, StoreInv

(* A task that ends without a commit: its own locks, and no others', go.   *)
LEMMA EndInv ==
  ASSUME StoreInv, NEW w \in Tasks, NoConnection(w) \/ Rollback(w)
  PROVE  StoreInv'
<1>1. UNCHANGED <<turns, rollups>> /\ Forget(w)
  BY DEF NoConnection, Rollback
<1>2. \A v \in Tasks \ {w} : /\ pc'[v] = pc[v] /\ sess'[v] = sess[v] /\ turn'[v] = turn[v]
                            /\ idx'[v] = idx[v] /\ rollup'[v] = rollup[v]
  BY <1>1 DEF Forget, Goto, StoreInv, TypeOK
<1>3. pc'[w] = "idle"
  BY <1>1 DEF Forget, Goto, StoreInv, TypeOK
<1>4. \A s \in Sessions : row[s] # w => row'[s] = row[s]
  BY DEF NoConnection, Rollback, Release, StoreInv, TypeOK, locks
<1>5. TypeOK'
  BY <1>1, EndType, ReleaseType DEF NoConnection, Rollback, StoreInv, TypeOK, rollups, locks
<1>6. IndexCurrent'
  BY <1>1, <1>2, <1>3, SameIndices
<1>7. OwnedRow'
  BY <1>1, <1>2, <1>3, <1>4 DEF StoreInv, OwnedRow, Owns, Owning, rollups
<1> QED
  BY <1>1, <1>5, <1>6, <1>7, SameTurns DEF StoreInv

LEMMA DaemonDiesInv ==
  ASSUME StoreInv, DaemonDies
  PROVE  StoreInv'
<1>1. TypeOK'
  <2>1. pc' \in [Tasks -> InTx \union {"idle", "pool", "lookup", "gone"}]
    BY DEF DaemonDies
  <2> QED
    BY <2>1 DEF DaemonDies, StoreInv, TypeOK, Blank, rollups, locks
<1>2. IndexCurrent' /\ OwnedRow'
  BY DEF DaemonDies, IndexCurrent, OwnedRow, Owns, Owning
<1> QED
  BY <1>1, <1>2, SameTurns DEF DaemonDies, StoreInv

-----------------------------------------------------------------------------
(* The commit.                                                             *)

(* What it adds to its session is one turn that was not there.             *)
LEMMA CommitAdds ==
  ASSUME StoreInv, NEW w \in Tasks, Commit(w)
  PROVE  LET s == sess[w]
             r == [index |-> Cardinality(turns[s]), turn |-> turn[w]]
         IN  /\ s \in Sessions /\ row[s] = w
             /\ r \notin turns[s]
             /\ turns' = [turns EXCEPT ![s] = turns[s] \union {r}]
             /\ total_requests' = [total_requests EXCEPT ![s] = total_requests[s] + 1]
             /\ total_prompt_tokens' = [total_prompt_tokens EXCEPT ![s] =
                                          total_prompt_tokens[s] + PromptTokens(turn[w])]
             /\ total_cache_tokens' = [total_cache_tokens EXCEPT ![s] =
                                          total_cache_tokens[s] + CachedTokens(turn[w])]
<1>1. sess[w] \in Sessions /\ row[sess[w]] = w
  BY DEF Commit, StoreInv, OwnedRow, Owns, Owning
<1>2. idx[w] = Cardinality(turns[sess[w]]) /\ idx[w] \notin Indices(sess[w])
  BY <1>1, TopIndexCounts DEF Commit, StoreInv, IndexCurrent
<1>3. [index |-> idx[w], turn |-> turn[w]] \notin turns[sess[w]]
  BY <1>2 DEF Indices
<1>4. /\ rollup[w].requests = total_requests[sess[w]] + 1
      /\ rollup[w].prompt = total_prompt_tokens[sess[w]] + PromptTokens(turn[w])
      /\ rollup[w].cache = total_cache_tokens[sess[w]] + CachedTokens(turn[w])
  <2>1. rollup[w] = [requests |-> total_requests[sess[w]] + 1,
                     prompt   |-> total_prompt_tokens[sess[w]] + PromptTokens(turn[w]),
                     cache    |-> total_cache_tokens[sess[w]] + CachedTokens(turn[w])]
    BY DEF Commit, StoreInv, OwnedRow, Owns
  <2> QED
    BY <2>1
<1>5. turns' = [turns EXCEPT ![sess[w]] =
                   turns[sess[w]] \union {[index |-> idx[w], turn |-> turn[w]]}]
  BY DEF Commit, Persist
<1>6. /\ total_requests' = [total_requests EXCEPT ![sess[w]] = total_requests[sess[w]] + 1]
      /\ total_prompt_tokens' = [total_prompt_tokens EXCEPT ![sess[w]] =
                                   total_prompt_tokens[sess[w]] + PromptTokens(turn[w])]
      /\ total_cache_tokens' = [total_cache_tokens EXCEPT ![sess[w]] =
                                   total_cache_tokens[sess[w]] + CachedTokens(turn[w])]
  BY <1>4 DEF Commit, Persist
<1> QED
  BY <1>1, <1>2, <1>3, <1>5, <1>6

LEMMA CommitInv ==
  ASSUME StoreInv, NEW w \in Tasks, Commit(w)
  PROVE  StoreInv'
<1> PICK s \in Sessions : s = sess[w]
  BY CommitAdds
<1> DEFINE n == Cardinality(turns[s])
           r == [index |-> n, turn |-> turn[w]]
<1>1. /\ row[s] = w /\ r \notin turns[s]
      /\ turns' = [turns EXCEPT ![s] = turns[s] \union {r}]
  BY CommitAdds
<1>2. /\ IsFiniteSet(turns[s]) /\ Indices(s) = {i - 1 : i \in 1 .. n}
      /\ n \in Nat /\ turn[w] \in Timings \union {Fake}
      /\ turns \in [Sessions -> SUBSET [index : Nat, turn : Timings \union {Fake}]]
  BY <1>1, TopIndexCounts DEF StoreInv, FiniteTurns, DenseTurns, TypeOK
<1>3. /\ turns'[s] = turns[s] \union {r}
      /\ \A q \in Sessions \ {s} : turns'[q] = turns[q]
  BY <1>1, <1>2
<1>4. IsFiniteSet(turns'[s]) /\ Cardinality(turns'[s]) = n + 1
  BY <1>1, <1>2, <1>3, FS_AddElement
<1>5. FiniteTurns'
  BY <1>3, <1>4 DEF StoreInv, FiniteTurns
<1>6. DenseTurns'
  <2>1. Indices(s)' = Indices(s) \union {n}
    <3>1. Indices(s)' = {q.index : q \in turns[s] \union {r}}
      BY <1>3 DEF Indices
    <3>2. r.index = n
      OBVIOUS
    <3> HIDE DEF r, n
    <3> QED
      BY <3>1, <3>2 DEF Indices
  <2>2. Indices(s)' = {i - 1 : i \in 1 .. n + 1}
    <3>1. \A i \in 1 .. n + 1 : i \in 1 .. n \/ i = n + 1
      BY <1>2
    <3> QED
      BY <1>2, <2>1, <3>1
  <2>3. ASSUME NEW q \in Sessions, q # s
        PROVE  Indices(q)' = {i - 1 : i \in 1 .. Cardinality(turns'[q])}
    BY <1>3, <2>3 DEF Indices, StoreInv, DenseTurns
  <2>4. ASSUME NEW q \in Sessions, q = s
        PROVE  Indices(q)' = {i - 1 : i \in 1 .. Cardinality(turns'[q])}
    BY <1>4, <2>2, <2>4 DEF Indices
  <2> QED
    BY <2>3, <2>4 DEF DenseTurns
<1>7. TypeOK'
  <2>1. rollup[w] \in [requests : Nat, prompt : Nat, cache : Nat]
    BY DEF StoreInv, TypeOK
  <2>2. /\ total_requests' \in [Sessions -> Nat]
        /\ total_prompt_tokens' \in [Sessions -> Nat]
        /\ total_cache_tokens' \in [Sessions -> Nat]
    BY <1>1, <2>1 DEF Commit, Persist, StoreInv, TypeOK
  <2>3. turns' \in [Sessions -> SUBSET [index : Nat, turn : Timings \union {Fake}]]
    BY <1>1, <1>2
  <2> QED
    BY <2>2, <2>3, EndType, ReleaseType DEF Commit, StoreInv, TypeOK
<1>8. \A v \in Tasks \ {w} : /\ pc'[v] = pc[v] /\ sess'[v] = sess[v] /\ turn'[v] = turn[v]
                            /\ idx'[v] = idx[v] /\ rollup'[v] = rollup[v]
  BY DEF Commit, Forget, Goto, StoreInv, TypeOK
<1>9. pc'[w] = "idle"
  BY DEF Commit, Forget, Goto, StoreInv, TypeOK
<1>10. \A v \in Tasks \ {w} : pc[v] \in Owning => sess[v] \in Sessions \ {s}
  BY <1>1 DEF StoreInv, OwnedRow, Owns, Owning
<1>11. IndexCurrent'
  <2>1. \A q \in Sessions \ {s} : TopIndex(q)' = TopIndex(q)
    BY <1>3 DEF TopIndex, Indices
  <2> QED
    BY <1>8, <1>9, <1>10, <2>1 DEF StoreInv, IndexCurrent, Owning
<1>12. OwnedRow'
  <2>1. /\ \A q \in Sessions : row[q] # w => row'[q] = row[q]
        /\ \A q \in Sessions \ {s} : /\ total_requests'[q] = total_requests[q]
                                     /\ total_prompt_tokens'[q] = total_prompt_tokens[q]
                                     /\ total_cache_tokens'[q] = total_cache_tokens[q]
    BY DEF Commit, Release, Persist, StoreInv, TypeOK
  <2>2. Owns(w)'
    BY <1>9 DEF Owns, Owning
  <2>3. ASSUME NEW v \in Tasks \ {w} PROVE Owns(v)'
    <3>1. pc'[v] = pc[v] /\ sess'[v] = sess[v] /\ turn'[v] = turn[v] /\ rollup'[v] = rollup[v]
      BY <1>8
    <3>2. Owns(v)
      BY DEF StoreInv, OwnedRow
    <3>3. CASE pc[v] \in Owning
      <4>1. sess[v] \in Sessions \ {s} /\ row[sess[v]] = v
        BY <1>10, <3>2, <3>3 DEF Owns
      <4>2. /\ row'[sess[v]] = v
            /\ total_requests'[sess[v]] = total_requests[sess[v]]
            /\ total_prompt_tokens'[sess[v]] = total_prompt_tokens[sess[v]]
            /\ total_cache_tokens'[sess[v]] = total_cache_tokens[sess[v]]
        BY <2>1, <4>1
      <4> QED
        BY <3>1, <3>2, <4>1, <4>2 DEF Owns
    <3>4. CASE pc[v] \notin Owning
      BY <3>1, <3>2, <3>4 DEF Owns, Owning
    <3> QED
      BY <3>3, <3>4
  <2> QED
    BY <2>2, <2>3 DEF OwnedRow
<1> QED
  BY <1>5, <1>6, <1>7, <1>11, <1>12 DEF StoreInv

-----------------------------------------------------------------------------
LEMMA NextInv == StoreInv /\ [Next]_vars => StoreInv'
<1> SUFFICES ASSUME StoreInv, [Next]_vars PROVE StoreInv'
  OBVIOUS
<1>1. ASSUME NEW w \in Tasks, Statement(w) PROVE StoreInv'
  BY <1>1, IndexInv, InsertInv, RollupInv, CommitInv, EndInv DEF Statement
<1>2. CASE UNCHANGED vars
  BY <1>2 DEF vars, rollups, locals, locks, StoreInv, TypeOK, FiniteTurns, DenseTurns,
              IndexCurrent, OwnedRow, Owns, TopIndex, Indices
<1> QED
  BY <1>1, <1>2, CallInv, GrantedInv, GiveUpInv, EndInv, DaemonDiesInv DEF Next

(* For every number of writers and sessions, the store's inductive         *)
(* invariant.                                                              *)
THEOREM Invariance == Spec => []StoreInv
  BY InitInv, NextInv, PTL DEF Spec

(* Every reachable state of the store is well typed.                       *)
THEOREM TypeCorrect == Spec => []TypeOK
<1>1. StoreInv => TypeOK
  BY DEF StoreInv
<1> QED
  BY <1>1, Invariance, PTL

(* store.rs:82-89: the turns of a session are numbered without a gap.      *)
THEOREM TurnsDense == Spec => []DenseTurns
<1>1. StoreInv => DenseTurns
  BY DEF StoreInv
<1> QED
  BY <1>1, Invariance, PTL

(* store.rs:86-88: the index a transaction has read does not collide.      *)
THEOREM NoCollision == Spec => []IndexCurrent
<1>1. StoreInv => IndexCurrent
  BY DEF StoreInv
<1> QED
  BY <1>1, Invariance, PTL

(* Only a commit changes a session's turns or its rollup.                  *)
LEMMA OthersCount ==
  ASSUME NEW s \in Sessions, UNCHANGED <<turns, rollups>>
  PROVE  Counted(s)
  BY DEF Counted, rollups

LEMMA OnlyCommits ==
  ASSUME StoreInv, [Next]_vars, ~UNCHANGED <<turns, rollups>>
  PROVE  \E w \in Tasks : Commit(w)
<1>1. ASSUME NEW w \in Tasks, ~Commit(w),
             Call(w) \/ Granted(w) \/ Statement(w) \/ GiveUp(w) \/ NoConnection(w)
      PROVE  UNCHANGED <<turns, rollups>>
  BY <1>1 DEF Call, Record, ResolveSession, Granted, Begin, AdvisoryLock, Upsert, Touch,
              Statement, Index, Insert, Rollup, Rollback, GiveUp, NoConnection, rollups
<1>2. DaemonDies \/ UNCHANGED vars => UNCHANGED <<turns, rollups>>
  BY DEF DaemonDies, vars
<1> QED
  BY <1>1, <1>2 DEF Next

LEMMA NextCounts == StoreInv /\ [Next]_vars => \A s \in Sessions : Counted(s)
<1> SUFFICES ASSUME StoreInv, [Next]_vars, NEW s \in Sessions PROVE Counted(s)
  OBVIOUS
<1>1. ASSUME NEW w \in Tasks, Commit(w) PROVE Counted(s)
  <2> DEFINE r == [index |-> Cardinality(turns[sess[w]]), turn |-> turn[w]]
  <2>1. /\ r \notin turns[sess[w]] /\ r.turn = turn[w]
        /\ turns' = [turns EXCEPT ![sess[w]] = turns[sess[w]] \union {r}]
        /\ total_requests' = [total_requests EXCEPT ![sess[w]] = total_requests[sess[w]] + 1]
        /\ total_prompt_tokens' = [total_prompt_tokens EXCEPT ![sess[w]] =
                                     total_prompt_tokens[sess[w]] + PromptTokens(turn[w])]
        /\ total_cache_tokens' = [total_cache_tokens EXCEPT ![sess[w]] =
                                    total_cache_tokens[sess[w]] + CachedTokens(turn[w])]
    BY <1>1, CommitAdds
  <2>2. /\ s \in DOMAIN turns /\ s \in DOMAIN total_requests
        /\ s \in DOMAIN total_prompt_tokens /\ s \in DOMAIN total_cache_tokens
    BY DEF StoreInv, TypeOK
  <2> HIDE DEF r
  <2>3. CASE s = sess[w]
    <3>1. /\ turns'[s] = turns[s] \union {r} /\ r \in turns'[s] \ turns[s]
          /\ total_requests'[s] = total_requests[s] + 1
          /\ total_prompt_tokens'[s] = total_prompt_tokens[s] + PromptTokens(r.turn)
          /\ total_cache_tokens'[s] = total_cache_tokens[s] + CachedTokens(r.turn)
      BY <2>1, <2>2, <2>3
    <3> QED
      BY <3>1 DEF Counted
  <2>4. CASE s # sess[w]
    BY <2>1, <2>2, <2>4 DEF Counted
  <2> QED
    BY <2>3, <2>4
<1>2. CASE UNCHANGED <<turns, rollups>>
  BY <1>2, OthersCount
<1> QED
  BY <1>1, <1>2, OnlyCommits

(* store.rs:82-83: a turn and its share of the rollup become visible in    *)
(* one step, one turn at a time, and nothing is taken back; RollupMatches  *)
(* is this from the empty store on.                                        *)
THEOREM RollupOneByOne == Spec => RollupFollows
  BY Invariance, NextCounts, PTL DEF Spec, RollupFollows

(* What a step counts keeps the sums.                                      *)
LEMMA SumsFollow ==
  ASSUME StoreInv, StoreInv', RollupMatches, NEW s \in Sessions, Counted(s)
  PROVE  /\ total_requests'[s] = Cardinality(turns'[s])
         /\ total_prompt_tokens'[s] = SumFunction([r \in turns'[s] |-> PromptTokens(r.turn)])
         /\ total_cache_tokens'[s] = SumFunction([r \in turns'[s] |-> CachedTokens(r.turn)])
<1>1. CASE UNCHANGED <<turns[s], total_requests[s], total_prompt_tokens[s], total_cache_tokens[s]>>
  BY <1>1 DEF RollupMatches
<1>2. CASE ~UNCHANGED <<turns[s], total_requests[s], total_prompt_tokens[s], total_cache_tokens[s]>>
  <2> DEFINE prompt == [q \in turns[s] |-> PromptTokens(q.turn)]
             cached == [q \in turns[s] |-> CachedTokens(q.turn)]
             prompt1 == [q \in turns'[s] |-> PromptTokens(q.turn)]
             cached1 == [q \in turns'[s] |-> CachedTokens(q.turn)]
  <2>1. PICK r \in turns'[s] \ turns[s] :
          /\ turns'[s] = turns[s] \union {r}
          /\ total_requests'[s] = total_requests[s] + 1
          /\ total_prompt_tokens'[s] = total_prompt_tokens[s] + PromptTokens(r.turn)
          /\ total_cache_tokens'[s] = total_cache_tokens[s] + CachedTokens(r.turn)
    BY <1>2 DEF Counted
  <2>2. IsFiniteSet(turns[s]) /\ \A q \in turns'[s] : q.turn \in Timings \union {Fake}
    BY DEF StoreInv, FiniteTurns, TypeOK
  <2>3. /\ prompt \in [turns[s] -> Nat] /\ prompt1 \in [turns[s] \union {r} -> Nat]
        /\ cached \in [turns[s] -> Nat] /\ cached1 \in [turns[s] \union {r} -> Nat]
    BY <2>1, <2>2, TokensType
  <2>4. /\ \A q \in turns[s] : prompt1[q] = prompt[q] /\ cached1[q] = cached[q]
        /\ prompt1[r] = PromptTokens(r.turn) /\ cached1[r] = CachedTokens(r.turn)
    BY <2>1
  <2>5. /\ total_requests[s] = Cardinality(turns[s])
        /\ total_prompt_tokens[s] = SumFunction(prompt)
        /\ total_cache_tokens[s] = SumFunction(cached)
    BY DEF RollupMatches
  <2> HIDE DEF prompt, prompt1, cached, cached1
  <2>6. SumFunction(prompt1) = SumFunction(prompt) + prompt1[r]
    <3>1. IsFiniteSet(turns[s]) /\ r \notin turns[s]
      BY <2>1, <2>2
    <3>2. prompt \in [turns[s] -> Nat] /\ prompt1 \in [turns[s] \union {r} -> Nat]
      BY <2>3
    <3>3. \A q \in turns[s] : prompt1[q] = prompt[q]
      BY <2>4
    <3> QED
      BY <3>1, <3>2, <3>3, SumOneMore
  <2>7. SumFunction(cached1) = SumFunction(cached) + cached1[r]
    <3>1. IsFiniteSet(turns[s]) /\ r \notin turns[s]
      BY <2>1, <2>2
    <3>2. cached \in [turns[s] -> Nat] /\ cached1 \in [turns[s] \union {r} -> Nat]
      BY <2>3
    <3>3. \A q \in turns[s] : cached1[q] = cached[q]
      BY <2>4
    <3> QED
      BY <3>1, <3>2, <3>3, SumOneMore
  <2>8. Cardinality(turns'[s]) = Cardinality(turns[s]) + 1
    <3>1. r \notin turns[s] /\ turns'[s] = turns[s] \union {r}
      BY <2>1
    <3>2. Cardinality(turns[s] \union {r}) = Cardinality(turns[s]) + 1
      BY <2>2, <3>1, FS_AddElement
    <3> QED
      BY <3>1, <3>2
  <2> QED
    BY <2>1, <2>4, <2>5, <2>6, <2>7, <2>8 DEF prompt1, cached1
<1> QED
  BY <1>1, <1>2

(* store.rs:82-83: at every moment the rollup of a session is the sum of   *)
(* its turns.                                                              *)
THEOREM RollupIsSum == Spec => []RollupMatches
<1>1. Init => RollupMatches
  BY SumNothing, FS_EmptySet DEF Init, RollupMatches
<1>2. StoreInv /\ StoreInv' /\ RollupMatches /\ [Next]_vars => RollupMatches'
  BY NextCounts, SumsFollow DEF RollupMatches
<1> QED
  BY <1>1, <1>2, Invariance, PTL DEF Spec

-----------------------------------------------------------------------------
(* The refinement of TurnLog: rows of a session and their place in its log *)

(* store.rs:106-110 and the unique index it relies on: no two turns of a   *)
(* session share an index.                                                 *)
UniqueIndex == \A s \in Sessions : \A q, r \in turns[s] : q.index = r.index => q = r

LEMMA UniqueNext == StoreInv /\ UniqueIndex /\ [Next]_vars => UniqueIndex'
<1> SUFFICES ASSUME StoreInv, UniqueIndex, [Next]_vars, NEW s \in Sessions,
                    NEW p \in turns'[s], NEW q \in turns'[s], p.index = q.index
             PROVE  p = q
  BY DEF UniqueIndex
<1>1. CASE turns'[s] = turns[s]
  BY <1>1 DEF UniqueIndex
<1>2. CASE turns'[s] # turns[s]
  <2>1. PICK w \in Tasks : Commit(w)
    BY <1>2, OnlyCommits
  <2> DEFINE r == [index |-> Cardinality(turns[s]), turn |-> turn[w]]
  <2>2. turns'[s] = turns[s] \union {r}
    <3> DEFINE r0 == [index |-> Cardinality(turns[sess[w]]), turn |-> turn[w]]
    <3>1. turns' = [turns EXCEPT ![sess[w]] = turns[sess[w]] \union {r0}]
      BY <2>1, CommitAdds
    <3>2. s \in DOMAIN turns
      BY DEF StoreInv, TypeOK
    <3> HIDE DEF r0
    <3>3. s = sess[w]
      BY <1>2, <3>1, <3>2
    <3>4. turns'[s] = turns[s] \union {r0}
      BY <3>1, <3>2, <3>3
    <3> QED
      BY <3>3, <3>4 DEF r0
  <2>3. \A x \in turns[s] : x.index # r.index
    BY TopIndexCounts DEF Indices
  <2> HIDE DEF r
  <2> QED
    BY <2>2, <2>3 DEF UniqueIndex
<1> QED
  BY <1>1, <1>2

(* No two turns of a session ever share an index.                          *)
THEOREM OneTurnPerIndex == Spec => []UniqueIndex
<1>1. Init => UniqueIndex
  BY DEF Init, UniqueIndex
<1> QED
  BY <1>1, UniqueNext, Invariance, PTL DEF Spec

(* The row with an index of the session is there, and the only one.        *)
LEMMA RowOfIndex ==
  ASSUME StoreInv, UniqueIndex, NEW s \in Sessions, NEW i \in 1 .. Cardinality(turns[s])
  PROVE  /\ RowAt(turns[s], i - 1) \in turns[s] /\ RowAt(turns[s], i - 1).index = i - 1
         /\ \A r \in turns[s] : r.index = i - 1 => RowAt(turns[s], i - 1) = r
<1>1. i - 1 \in Indices(s)
  BY DEF StoreInv, DenseTurns
<1>2. PICK r \in turns[s] : r.index = i - 1
  BY <1>1 DEF Indices
<1>3. RowAt(turns[s], i - 1) \in turns[s] /\ RowAt(turns[s], i - 1).index = i - 1
  BY <1>2 DEF RowAt
<1> QED
  BY <1>3 DEF UniqueIndex

LEMMA RowOfIndexNext ==
  ASSUME StoreInv', UniqueIndex', NEW s \in Sessions, NEW i \in 1 .. Cardinality(turns'[s])
  PROVE  \A r \in turns'[s] : r.index = i - 1 => RowAt(turns'[s], i - 1) = r
<1> SUFFICES ASSUME NEW r \in turns'[s], r.index = i - 1 PROVE RowAt(turns'[s], i - 1) = r
  OBVIOUS
<1>1. RowAt(turns'[s], i - 1) \in turns'[s] /\ RowAt(turns'[s], i - 1).index = i - 1
  BY DEF RowAt
<1> QED
  BY <1>1 DEF UniqueIndex

(* The mapped log is a sequence of as many turns as the session has rows.  *)
LEMMA LogType ==
  ASSUME StoreInv, UniqueIndex, NEW s \in Sessions
  PROVE  /\ LogOf(turns[s]) \in Seq(Timings \union {Fake})
         /\ Len(LogOf(turns[s])) = Cardinality(turns[s])
         /\ DOMAIN LogOf(turns[s]) = 1 .. Cardinality(turns[s])
<1>1. Cardinality(turns[s]) \in Nat
  BY TopIndexCounts
<1>2. \A i \in 1 .. Cardinality(turns[s]) : RowAt(turns[s], i - 1).turn \in Timings \union {Fake}
  BY RowOfIndex DEF StoreInv, TypeOK
<1>3. LogOf(turns[s]) \in [1 .. Cardinality(turns[s]) -> Timings \union {Fake}]
  BY <1>2 DEF LogOf
<1> QED
  BY <1>1, <1>3

LEMMA PendingType ==
  ASSUME StoreInv, NEW w \in Tasks
  PROVE  /\ Recording(w) => /\ sess[w] \in Sessions /\ turn[w] \in Timings \union {Fake}
                            /\ Pending(w) = {<<sess[w], turn[w]>>}
         /\ ~Recording(w) => Pending(w) = {}
  BY DEF StoreInv, TypeOK, OwnedRow, Owns, Recording, Pending

LEMMA LogInit == Init => Log!Init
<1> SUFFICES ASSUME Init PROVE Log!Init
  OBVIOUS
<1>1. ASSUME NEW s \in Sessions PROVE LogOf(turns[s]) = << >>
  <2>1. Cardinality(turns[s]) = 0
    BY FS_EmptySet DEF Init
  <2> QED
    BY <2>1 DEF LogOf
<1>2. ASSUME NEW w \in Tasks PROVE Pending(w) = {}
  BY DEF Init, Pending, Recording
<1> QED
  BY <1>1, <1>2 DEF Log!Init

(* A commit appends the turn of its call to the log of its session ...     *)
LEMMA CommitAppends ==
  ASSUME StoreInv, UniqueIndex, StoreInv', UniqueIndex', NEW w \in Tasks, Commit(w),
         NEW s \in Sessions, s = sess[w]
  PROVE  LogOf(turns'[s]) = Append(LogOf(turns[s]), turn[w])
<1> PICK n \in Nat : n = Cardinality(turns[s])
  BY TopIndexCounts
<1> PICK r : r = [index |-> n, turn |-> turn[w]]
  OBVIOUS
<1>1. r \notin turns[s] /\ turns' = [turns EXCEPT ![s] = turns[s] \union {r}]
  BY CommitAdds
<1>2. n \in Nat /\ IsFiniteSet(turns[s]) /\ s \in DOMAIN turns /\ turn[w] \in Timings \union {Fake}
  BY TopIndexCounts DEF StoreInv, FiniteTurns, TypeOK
<1>3. turns'[s] = turns[s] \union {r}
  BY <1>1, <1>2
<1>4. Cardinality(turns'[s]) = n + 1
  BY <1>1, <1>2, <1>3, FS_AddElement
<1>5. LogOf(turns'[s]) = [i \in 1 .. n + 1 |-> RowAt(turns'[s], i - 1).turn]
  BY <1>4 DEF LogOf
<1>6. \A i \in 1 .. n : RowAt(turns'[s], i - 1) = RowAt(turns[s], i - 1)
  <2> SUFFICES ASSUME NEW i \in 1 .. n PROVE RowAt(turns'[s], i - 1) = RowAt(turns[s], i - 1)
    OBVIOUS
  <2>1. RowAt(turns[s], i - 1) \in turns'[s] /\ RowAt(turns[s], i - 1).index = i - 1
    BY <1>3, RowOfIndex
  <2>2. i \in 1 .. Cardinality(turns'[s])
    BY <1>2, <1>4
  <2>3. \A q \in turns'[s] : q.index = i - 1 => RowAt(turns'[s], i - 1) = q
    BY <2>2, RowOfIndexNext
  <2> QED
    BY <2>1, <2>3
<1>7. RowAt(turns'[s], n) = r
  <2>1. r \in turns'[s] /\ r.index = n
    BY <1>3
  <2>2. n + 1 \in 1 .. Cardinality(turns'[s]) /\ (n + 1) - 1 = n
    BY <1>2, <1>4
  <2>3. \A q \in turns'[s] : q.index = (n + 1) - 1 => RowAt(turns'[s], (n + 1) - 1) = q
    BY <2>2, RowOfIndexNext
  <2> QED
    BY <2>1, <2>2, <2>3
<1>8. /\ LogOf(turns[s]) \in Seq(Timings \union {Fake}) /\ Len(LogOf(turns[s])) = n
      /\ \A i \in 1 .. n : LogOf(turns[s])[i] = RowAt(turns[s], i - 1).turn
  BY LogType DEF LogOf
<1>9. \A i \in 1 .. n + 1 : RowAt(turns'[s], i - 1).turn = Append(LogOf(turns[s]), turn[w])[i]
  <2> SUFFICES ASSUME NEW i \in 1 .. n + 1
               PROVE  RowAt(turns'[s], i - 1).turn = Append(LogOf(turns[s]), turn[w])[i]
    OBVIOUS
  <2>1. CASE i \in 1 .. n
    BY <1>6, <1>8, <2>1
  <2>2. CASE i = n + 1
    <3>1. (n + 1) - 1 = n /\ r.turn = turn[w]
      OBVIOUS
    <3>2. Append(LogOf(turns[s]), turn[w])[n + 1] = turn[w]
      BY <1>8
    <3> QED
      BY <1>7, <2>2, <3>1, <3>2
  <2>3. i \in 1 .. n \/ i = n + 1
    OBVIOUS
  <2> QED
    BY <2>1, <2>2, <2>3
<1>10. Append(LogOf(turns[s]), turn[w]) = [i \in 1 .. n + 1 |-> Append(LogOf(turns[s]), turn[w])[i]]
  <2>1. Append(LogOf(turns[s]), turn[w]) \in Seq(Timings \union {Fake})
    BY <1>2, <1>8
  <2>2. Len(Append(LogOf(turns[s]), turn[w])) = n + 1
    BY <1>8
  <2> QED
    BY <2>1, <2>2
<1> QED
  BY <1>5, <1>9, <1>10

(* ... and leaves the other logs, and the calls of the others, alone.      *)
LEMMA CommitMaps ==
  ASSUME StoreInv, UniqueIndex, StoreInv', UniqueIndex', NEW w \in Tasks, Commit(w)
  PROVE  Log!Next
<1> PICK s \in Sessions : s = sess[w]
  BY CommitAdds
<1> PICK t \in Timings \union {Fake} : t = turn[w]
  BY DEF StoreInv, TypeOK
<1>1. LogOf(turns'[s]) = Append(LogOf(turns[s]), t)
  BY CommitAppends
<1>2. \A q \in Sessions \ {s} : LogOf(turns'[q]) = LogOf(turns[q])
  <2>1. \A q \in Sessions \ {s} : turns'[q] = turns[q]
    <3> PICK r : r = [index |-> Cardinality(turns[s]), turn |-> t]
      OBVIOUS
    <3>1. turns' = [turns EXCEPT ![s] = turns[s] \union {r}]
      BY CommitAdds
    <3> QED
      BY <3>1 DEF StoreInv, TypeOK
  <2> QED
    BY <2>1
<1>3. Pending(w) = {<<s, t>>} /\ Pending(w)' = {}
  BY PendingType DEF Commit, Forget, Goto, Pending, Recording, StoreInv, TypeOK
<1>4. \A v \in Tasks \ {w} : Pending(v)' = Pending(v)
  <2>1. \A v \in Tasks \ {w} : pc'[v] = pc[v] /\ sess'[v] = sess[v] /\ turn'[v] = turn[v]
    BY DEF Commit, Forget, Goto, StoreInv, TypeOK
  <2> QED
    BY <2>1 DEF Pending, Recording
<1>5. [q \in Sessions |-> LogOf(turns'[q])] = [[q \in Sessions |-> LogOf(turns[q])] EXCEPT ![s] = Append(LogOf(turns[s]), t)]
  BY <1>1, <1>2
<1>6. [v \in Tasks |-> Pending(v)]' = [[v \in Tasks |-> Pending(v)] EXCEPT ![w] = {}]
  BY <1>3, <1>4
<1>7. Log!Keep(w, s, t)
  BY <1>3, <1>5, <1>6 DEF Log!Keep
<1> QED
  BY <1>7 DEF Log!Next

(* A step without a commit leaves the logs alone, and the calls too but    *)
(* for the one that begins or is lost.                                     *)
LEMMA QuietMaps ==
  ASSUME StoreInv, StoreInv', UNCHANGED turns, NEW w \in Tasks,
         \A v \in Tasks \ {w} : pc'[v] = pc[v] /\ sess'[v] = sess[v] /\ turn'[v] = turn[v],
         Pending(w)' \in {Pending(w), {}} \/ Pending(w) = {}
  PROVE  [Log!Next]_(Log!vars)
<1>1. \A q \in Sessions : LogOf(turns'[q]) = LogOf(turns[q])
  BY DEF LogOf, RowAt
<1>2. \A v \in Tasks \ {w} : Pending(v)' = Pending(v)
  BY DEF Pending, Recording
<1>3. [q \in Sessions |-> LogOf(turns'[q])] = [q \in Sessions |-> LogOf(turns[q])]
  BY <1>1
<1>4. [v \in Tasks |-> Pending(v)]'
        = [[v \in Tasks |-> Pending(v)] EXCEPT ![w] = Pending(w)']
  BY <1>2
<1>5. CASE Pending(w)' = {}
  <2>1. Log!Lose(w)
    BY <1>3, <1>4, <1>5 DEF Log!Lose
  <2> QED
    BY <2>1 DEF Log!Next
<1>6. CASE Pending(w)' = Pending(w)
  <2>1. [v \in Tasks |-> Pending(v)]' = [v \in Tasks |-> Pending(v)]
    BY <1>2, <1>6
  <2> QED
    BY <1>3, <2>1 DEF Log!vars
<1>7. CASE Pending(w) = {} /\ Pending(w)' # {}
  <2>1. \E s \in Sessions, t \in Timings \union {Fake} : Pending(w)' = {<<s, t>>}
    <3>1. Recording(w)'
      BY <1>7 DEF Pending
    <3>2. sess'[w] \in Sessions /\ turn'[w] \in Timings \union {Fake}
      BY <3>1 DEF StoreInv, TypeOK, OwnedRow, Owns, Recording
    <3>3. Pending(w)' = {<<sess'[w], turn'[w]>>}
      BY <3>1 DEF Pending
    <3> QED
      BY <3>2, <3>3
  <2>2. PICK s \in Sessions, t \in Timings \union {Fake} : Pending(w)' = {<<s, t>>}
    BY <2>1
  <2>3. [v \in Tasks |-> Pending(v)]' = [[v \in Tasks |-> Pending(v)] EXCEPT ![w] = {<<s, t>>}]
    BY <1>4, <2>2
  <2>4. [v \in Tasks |-> Pending(v)][w] = {}
    BY <1>7
  <2>5. Log!Ask(w)
    BY <1>3, <2>3, <2>4 DEF Log!Ask
  <2> QED
    BY <2>5 DEF Log!Next
<1> QED
  BY <1>5, <1>6, <1>7

LEMMA CallMaps ==
  ASSUME StoreInv, StoreInv', NEW w \in Tasks,
         Call(w) \/ Granted(w) \/ GiveUp(w) \/ NoConnection(w)
           \/ Index(w) \/ Insert(w) \/ Rollup(w) \/ Rollback(w)
  PROVE  [Log!Next]_(Log!vars)
<1>1. /\ UNCHANGED turns
      /\ \A v \in Tasks \ {w} : pc'[v] = pc[v] /\ sess'[v] = sess[v] /\ turn'[v] = turn[v]
  <2> USE DEF StoreInv, TypeOK, Goto, Forget, locals, rollups
  <2>1. CASE Call(w)
    BY <2>1 DEF Call, Record, ResolveSession
  <2>2. CASE Granted(w)
    BY <2>2 DEF Granted, Begin, AdvisoryLock, Upsert, Touch
  <2>3. CASE GiveUp(w) \/ NoConnection(w) \/ Rollback(w)
    BY <2>3 DEF GiveUp, NoConnection, Rollback
  <2>4. CASE Index(w) \/ Insert(w) \/ Rollup(w)
    BY <2>4 DEF Index, Insert, Rollup
  <2> QED
    BY <2>1, <2>2, <2>3, <2>4
<1>2. Pending(w)' \in {Pending(w), {}} \/ Pending(w) = {}
  <2>1. CASE ~Recording(w) \/ ~Recording(w)'
    BY <2>1 DEF Pending
  <2>2. CASE Recording(w) /\ Recording(w)'
    <3>1. pc[w] \notin {"idle", "lookup", "touch", "aborting", "gone"}
      BY <2>2 DEF Recording
    <3>2. UNCHANGED <<sess, turn>>
      <4>1. ~Call(w) /\ ~Touch(w) /\ ~Rollback(w)
        BY <3>1 DEF Call, Record, ResolveSession, Touch, Rollback
      <4>2. ~NoConnection(w)
        BY <2>2 DEF NoConnection, Forget, Goto, Recording, StoreInv, TypeOK
      <4> QED
        BY <4>1, <4>2
        DEF Granted, Begin, AdvisoryLock, Upsert, GiveUp, Index, Insert, Rollup, locals
    <3> QED
      BY <2>2, <3>2 DEF Pending
  <2> QED
    BY <2>1, <2>2
<1> QED
  BY <1>1, <1>2, QuietMaps

LEMMA LogNext ==
  ASSUME StoreInv, UniqueIndex, StoreInv', UniqueIndex', [Next]_vars
  PROVE  [Log!Next]_(Log!vars)
<1>1. ASSUME NEW w \in Tasks, Commit(w) PROVE [Log!Next]_(Log!vars)
  BY <1>1, CommitMaps
<1>2. ASSUME NEW w \in Tasks, ~Commit(w),
             Call(w) \/ Granted(w) \/ Statement(w) \/ GiveUp(w) \/ NoConnection(w)
      PROVE  [Log!Next]_(Log!vars)
  BY <1>2, CallMaps DEF Statement
<1>3. CASE DaemonDies
  <2>1. \A w \in Tasks : Pending(w)' = {}
    BY <1>3 DEF DaemonDies, Pending, Recording
  <2>2. [w \in Tasks |-> Pending(w)]' = [w \in Tasks |-> {}]
    BY <2>1
  <2>3. UNCHANGED turns
    BY <1>3 DEF DaemonDies
  <2>4. Log!LoseAll
    BY <2>2, <2>3 DEF Log!LoseAll
  <2> QED
    BY <2>4 DEF Log!Next
<1>4. CASE UNCHANGED vars
  BY <1>4 DEF vars, locals, Log!vars, Pending, Recording
<1> QED
  BY <1>1, <1>2, <1>3, <1>4 DEF Next

(* store.rs:82-164: whatever writers overlap, fail, time out or die, what  *)
(* is in the database is a log per session, to which every recording adds  *)
(* its turn as its last step, once, or never.                              *)
THEOREM Refinement == Spec => ImplementsLog
<1>1. Init => StoreInv /\ UniqueIndex /\ Log!Init
  BY InitInv, LogInit DEF Init, UniqueIndex
<1>2. StoreInv /\ UniqueIndex /\ [Next]_vars => StoreInv' /\ UniqueIndex'
  BY NextInv, UniqueNext
<1>3. StoreInv /\ UniqueIndex /\ StoreInv' /\ UniqueIndex' /\ [Next]_vars
        => [Log!Next]_(Log!vars)
  BY LogNext
<1> QED
  BY <1>1, <1>2, <1>3, PTL DEF Spec, ImplementsLog, Log!Spec
==============================================================================
