------------------------------- MODULE MCStore -------------------------------
(* Finite instances of Store for TLC.                                      *)
EXTENDS Store

OneKey(s) == "key"
OwnKey(s) == s

(* A whole answer reports usage, a streamed one only timings; both come to *)
(* the same sums.  /session-test sets cache_n and prompt_n and leaves the  *)
(* usage columns at 0.                                                     *)
Whole     == [cache_n |-> 2, prompt_n |-> 1, usage |-> "full"]
Streamed  == [cache_n |-> 0, prompt_n |-> 3, usage |-> "none"]
MCFake    == [cache_n |-> 7, prompt_n |-> 3, usage |-> "zero"]
MCTimings == {Whole, Streamed}
OneTiming == {Whole}
==============================================================================
