----------------------------- MODULE WorkerSlot -----------------------------
(***************************************************************************)
(* What the supervisor promises, with no word on how: while the daemon     *)
(* runs, the host has one slot for a llama-server.  A model enters only an *)
(* empty slot, so a switch passes through an empty one, and the daemon     *)
(* shuts down in an orderly way only when the slot is empty.  A daemon     *)
(* that dies abandons the slot; the next one reclaims it before it opens.  *)
(* What the daemon reports as its model is announced while the slot is     *)
(* empty, and only the model that is reported is launched.  Module Proxy   *)
(* lives off the steps stated here.                                        *)
(*   README.md:49 "Sole ownership", config.example.toml:52 "Exactly ONE    *)
(*   model is active at a time", DESIGN.md:538-540 "no orphan"             *)
(***************************************************************************)
CONSTANTS Models, NoModel

VARIABLES slot, reported, phase

TypeOK ==
    /\ slot \in Models \union {NoModel} /\ reported \in Models \union {NoModel}
    /\ phase \in {"open", "closed", "abandoned"}

Init == slot = NoModel /\ reported = NoModel /\ phase = "abandoned"

Announce(m) ==
    /\ phase = "open" /\ slot = NoModel /\ reported' = m
    /\ UNCHANGED <<slot, phase>>

Launch(m) ==
    /\ phase = "open" /\ slot = NoModel /\ reported = m /\ slot' = m
    /\ UNCHANGED <<reported, phase>>

Vacate ==
    /\ phase = "open" /\ slot # NoModel /\ slot' = NoModel
    /\ UNCHANGED <<reported, phase>>

Close ==
    /\ phase = "open" /\ slot = NoModel
    /\ phase' = "closed" /\ reported' = NoModel
    /\ UNCHANGED slot

Abandon == phase' = "abandoned" /\ slot' = NoModel /\ reported' = NoModel

Open == phase = "abandoned" /\ phase' = "open" /\ slot' = NoModel /\ UNCHANGED reported

Next == Vacate \/ Close \/ Abandon \/ Open \/ \E m \in Models : Announce(m) \/ Launch(m)

Spec == Init /\ [][Next]_<<slot, reported, phase>>
=============================================================================
