----------------------------- MODULE MCMonitor -----------------------------
(* Model checking instance of Monitor.                                     *)
EXTENDS Monitor, TLC

CONSTANTS c1, c2

(* Collectors are interchangeable: no definition orders them.              *)
Symmetry == Permutations(Collectors)
=============================================================================
