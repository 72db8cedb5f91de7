------------------------------- MODULE MCJobs --------------------------------
(* Finite instances of Jobs for TLC.                                       *)
EXTENDS Jobs, TLC

(* Two of the files are named alike; the third is configured.              *)
MCFiles == {"a/x", "b/x", "c/y"}
MCIds   == {"x", "y"}
MCId(f) == IF f = "c/y" THEN "y" ELSE "x"
MCConfigured == {[id |-> "y", file |-> "c/y"]}
==============================================================================
