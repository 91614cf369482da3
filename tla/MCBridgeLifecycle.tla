-------------------------- MODULE MCBridgeLifecycle --------------------------
(***************************************************************************)
(* BridgeLifecycle with three process slots, begun with and without a      *)
(* pairing.                                                                *)
(***************************************************************************)
EXTENDS BridgeLifecycle

PairedOrNot == {{}, {0, 1}}
=============================================================================
