------------------------------- MODULE MCProxy -------------------------------
(* Finite instances of Proxy for TLC.                                      *)
EXTENDS Proxy, TLC

ProxySymmetry == Permutations(Conns) \union Permutations(Models)
==============================================================================
