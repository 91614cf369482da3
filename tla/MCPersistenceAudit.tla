------------------------ MODULE MCPersistenceAudit ------------------------
(***************************************************************************)
(* PersistenceAudit with two conversations on two channels, one memory     *)
(* file and two skill files.                                               *)
(***************************************************************************)
EXTENDS PersistenceAudit, TLC

CONSTANTS c1, c2, whatsapp, telegram, memory, s1, s2, a, b

Channel == (c1 :> whatsapp) @@ (c2 :> telegram)

Memory(ops, batch) == [files |-> {memory}, ops |-> ops, batch |-> batch]
Skill(files, text) == [files |-> files, ops |-> <<>>, batch |-> FALSE, text |-> text]
Add(x) == [kind |-> "add", new |-> x]
Replace(x, y) == [kind |-> "replace", old |-> x, new |-> y]
Delete(x) == [kind |-> "remove", old |-> x]

(* Additions, a removal, a batch and a patch of two skill files.           *)
SomeCalls ==
    { Memory(<<Add(a)>>, FALSE),
      Memory(<<Add(b)>>, FALSE),
      Memory(<<Delete(a)>>, FALSE),
      Memory(<<Replace(a, b), Add(a)>>, TRUE),
      Skill({s1, s2}, {a}) }

(* No memory yet, and one of the skill files.                              *)
OneSkill == {(memory :> {}) @@ (s1 :> {b}) @@ (s2 :> {})}
=============================================================================
