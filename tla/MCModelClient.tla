--------------------------- MODULE MCModelClient ---------------------------
(***************************************************************************)
(* ModelClient with two turns and one other process.                       *)
(***************************************************************************)
EXTENDS ModelClient

CONSTANTS c1, c2, o1
=============================================================================
