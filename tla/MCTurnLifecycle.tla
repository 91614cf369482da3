-------------------------- MODULE MCTurnLifecycle --------------------------
(* The turn lifecycle on a small instance.                                 *)
EXTENDS TurnLifecycle

CONSTANTS m1, m2
=============================================================================
