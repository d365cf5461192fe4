---------------------------- MODULE MCBoltzSwaps ----------------------------
(* Model checking BoltzSwaps on small instances. *)
EXTENDS BoltzSwaps, TLC

ServerSymmetry == Permutations(Servers)
=============================================================================
