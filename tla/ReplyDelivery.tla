---------------------------- MODULE ReplyDelivery ----------------------------
(***************************************************************************)
(* What a chat may observe of its final replies, without ledger, owners,   *)
(* sweeps or processes.  The parts of a reply arrive in order and at most  *)
(* once; a call whose answer is lost ends the reply for good; a reply is   *)
(* declared delivered only when all its parts arrived and no call is open. *)
(* The promise lapses when the record of the reply is erased.              *)
(***************************************************************************)
EXTENDS Naturals

CONSTANTS Replies, NParts

Parts == 1..NParts

VARIABLES
  got,       \* how often the chat has received each part
  call,      \* "idle", "calling", "arrived" (unanswered), "lost"
  declared,  \* the reply is recorded as delivered
  lapsed     \* its record has been erased

vars == <<got, call, declared, lapsed>>

Upto(r, p) == \A q \in Parts : got[r][q] = IF q < p THEN 1 ELSE 0

Init ==
  /\ got = [r \in Replies |-> [p \in Parts |-> 0]]
  /\ call = [r \in Replies |-> "idle"]
  /\ declared = [r \in Replies |-> FALSE]
  /\ lapsed = [r \in Replies |-> FALSE]

-----------------------------------------------------------------------------
(* The steps of one reply.  Replies are independent of each other: one step *)
(* of the system may move several of them, as the end of a process does.    *)

Stays(r) == got'[r] = got[r] /\ call'[r] = call[r] /\ declared'[r] = declared[r]

\* a part is handed to the platform; nothing else of the reply is under way
Call(r) ==
  /\ call[r] = "idle" /\ ~declared[r]
  /\ call'[r] = "calling"
  /\ got'[r] = got[r] /\ declared'[r] = declared[r]

\* the chat receives the next part
Arrive(r) ==
  /\ call[r] = "calling"
  /\ \E p \in Parts : Upto(r, p) /\ got'[r] = [got[r] EXCEPT ![p] = 1]
  /\ call'[r] = "arrived"
  /\ declared'[r] = declared[r]

\* the answer is recorded: accepted, or proven unsent
Answer(r) ==
  /\ call[r] \in {"calling", "arrived"}
  /\ call'[r] = "idle"
  /\ got'[r] = got[r] /\ declared'[r] = declared[r]

\* the answer never becomes durable; no part of the reply is sent again
Lose(r) ==
  /\ call[r] \in {"calling", "arrived"}
  /\ call'[r] = "lost"
  /\ got'[r] = got[r] /\ declared'[r] = declared[r]

Declare(r) ==
  /\ call[r] = "idle" /\ ~declared[r]
  /\ \A p \in Parts : got[r][p] = 1
  /\ declared'[r]
  /\ got'[r] = got[r] /\ call'[r] = call[r]

Step(r) == Stays(r) \/ Call(r) \/ Arrive(r) \/ Answer(r) \/ Lose(r) \/ Declare(r)

\* Retention may erase the record of a reply; from then on nothing is promised.
Next ==
  \A r \in Replies :
    /\ lapsed[r] => lapsed'[r]
    /\ lapsed'[r] \/ Step(r)

Spec == Init /\ [][Next]_vars
=============================================================================
