-------------------------- MODULE MCDeliveryLedger --------------------------
(* Model-checking instances of DeliveryLedger.                             *)
EXTENDS DeliveryRefinement, TLC

CONSTANTS o1, o2, f1, f2

Symmetry == Permutations(Finals)
=============================================================================
