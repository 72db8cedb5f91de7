------------------------------ MODULE TurnLog --------------------------------
(***************************************************************************)
(* What recording turns promises, with no word on statements, locks,       *)
(* indices and connections: every session has a log that only grows, one   *)
(* turn at a time; a call appends its own turn to its own session, in one  *)
(* step that is also its last, or it is lost and has appended nothing.     *)
(*   store.rs:82-83 "session row, turn insert, and rollup - all in one     *)
(*   transaction"; store.rs:86-88 one order for the turns of a session     *)
(***************************************************************************)
EXTENDS Naturals, Sequences

CONSTANTS Tasks, Sessions, Turns

VARIABLES
    log,         \* the turns of each session, in the order of their index
    pending      \* what each task is recording: at most one <<session, turn>>

vars == <<log, pending>>

Init ==
    /\ log = [s \in Sessions |-> << >>]
    /\ pending = [w \in Tasks |-> {}]

Ask(w) ==
    /\ pending[w] = {}
    /\ \E s \in Sessions, t \in Turns : pending' = [pending EXCEPT ![w] = {<<s, t>>}]
    /\ UNCHANGED log

Keep(w, s, t) ==
    /\ pending[w] = {<<s, t>>}
    /\ log' = [log EXCEPT ![s] = Append(log[s], t)]
    /\ pending' = [pending EXCEPT ![w] = {}]

Lose(w) ==
    /\ pending' = [pending EXCEPT ![w] = {}]
    /\ UNCHANGED log

(* The daemon dies, and all calls with it.                                 *)
LoseAll ==
    /\ pending' = [w \in Tasks |-> {}]
    /\ UNCHANGED log

Next ==
    \/ \E w \in Tasks : Ask(w) \/ Lose(w)
    \/ \E w \in Tasks, s \in Sessions, t \in Turns : Keep(w, s, t)
    \/ LoseAll

Spec == Init /\ [][Next]_vars
==============================================================================
