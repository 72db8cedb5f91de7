---------------------------- MODULE MCSupervisor ----------------------------
(* Finite instances of Supervisor for TLC.                                 *)
EXTENDS SupervisorInvariant, TLC

HostSymmetry == Permutations(Pids) \union Permutations(Models) \union Permutations(Clients)

(* A client may hang up anywhere but between fork and the record of the pid. *)
EarlyAwaits == AwaitPoints \ {"spawn_pid"}
SpawnPidAwait == {"spawn_pid"}
NoAwaits == {}
=============================================================================
