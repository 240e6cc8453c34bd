----------------------------- MODULE MCNetwork -----------------------------
(* Network for TLC: the connections are interchangeable.                   *)
EXTENDS Network, TLC

Symmetry == Permutations(Conns)
=============================================================================
