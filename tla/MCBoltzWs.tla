------------------------------ MODULE MCBoltzWs ------------------------------
(* Model checking BoltzWs on small budgets of faults. *)
EXTENDS BoltzWs
=============================================================================
