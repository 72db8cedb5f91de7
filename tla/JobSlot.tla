------------------------------ MODULE JobSlot --------------------------------
(***************************************************************************)
(* What a background job promises to whoever asks for its status, with no  *)
(* word on handlers, tasks, mutexes and pipes: it is claimed when none is  *)
(* running, executes its commands one after the other, and is over when    *)
(* none runs and the output of none is read any more; it is "ok" only if   *)
(* all of them were executed and none failed.  The daemon's end loses it.  *)
(*   DESIGN.md:344, 362 "one at a time", DESIGN.md:347-353, 363-366        *)
(***************************************************************************)
EXTENDS Naturals

CONSTANT Commands      \* how many commands the job executes

VARIABLES
    shown,             \* the status
    todo,              \* commands that have not begun
    busy,              \* a command runs, or its output is still read
    sound              \* no command has failed

vars == <<shown, todo, busy, sound>>

Init == shown = "idle" /\ todo = 0 /\ busy = FALSE /\ sound = TRUE

Running == shown = "running"

(* The first command may begin at once.                                    *)
Claim ==
    /\ ~Running /\ ~busy
    /\ shown' = "running" /\ sound' = TRUE
    /\ \/ todo' = Commands /\ busy' = FALSE
       \/ todo' = Commands - 1 /\ busy' = TRUE

Begin ==
    /\ Running /\ todo > 0 /\ ~busy
    /\ busy' = TRUE /\ todo' = todo - 1
    /\ UNCHANGED <<shown, sound>>

(* A command that cannot be spawned.                                       *)
Skip ==
    /\ Running /\ todo > 0 /\ ~busy
    /\ sound' = FALSE /\ todo' = todo - 1
    /\ UNCHANGED <<shown, busy>>

(* A command runs, fails, ends.                                            *)
Work ==
    /\ Running /\ busy
    /\ busy' \in BOOLEAN /\ sound' \in {sound, FALSE}
    /\ UNCHANGED <<shown, todo>>

Finish ==
    /\ Running /\ ~busy
    /\ shown' = "failed" \/ (shown' = "ok" /\ todo = 0 /\ sound)
    /\ todo' = 0 /\ sound' = TRUE
    /\ UNCHANGED busy

Lost == shown' = "idle" /\ todo' = 0 /\ busy' = FALSE /\ sound' = TRUE

Next == Claim \/ Begin \/ Skip \/ Work \/ Finish \/ Lost

Spec == Init /\ [][Next]_vars
==============================================================================
