----------------------------- MODULE MCFailover -----------------------------
(* Two conductors for model checking Failover; no fairness sets them apart, *)
(* so the safety run takes them as symmetric.                               *)
EXTENDS Failover, TLC
CONSTANTS c1, c2
Peers == Permutations(Conductors)
=============================================================================
