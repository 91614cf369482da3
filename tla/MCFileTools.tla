---------------------------- MODULE MCFileTools ----------------------------
(***************************************************************************)
(* FileTools with two conversations and two paths, the first of which may  *)
(* exist at the beginning.                                                 *)
(***************************************************************************)
EXTENDS FileTools

CONSTANTS c1, c2

(* A rewrite, an edit, and patches whose operations meet on a path.        *)
SomeCalls ==
    { <<Op("put", 1, 1)>>,
      <<Op("edit", 1, 1)>>,
      <<Op("update", 1, 1), Op("move", 1, 2)>>,
      <<Op("move", 2, 1), Op("update", 1, 1)>>,
      <<Op("add", 2, 2), Op("delete", 1, 1)>> }
=============================================================================
