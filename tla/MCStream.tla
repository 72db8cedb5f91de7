------------------------------- MODULE MCStream -------------------------------
(* Finite instances of Stream for TLC: short lines; a line that does not   *)
(* fit the buffer between two that do, with an end that lacks its newline; *)
(* and no line at all.                                                     *)
EXTENDS Stream

Given == <<{"content", "timings"}, {"content", "usage"}, {"usage", "timings"}>>

MCAnswers ==
    {[total |-> 7, ends |-> <<2, 5, 7>>, gives |-> Given],
     [total |-> 9, ends |-> <<3, 7, 8>>, gives |-> Given],
     [total |-> 3, ends |-> <<>>,        gives |-> <<>>]}
===============================================================================
