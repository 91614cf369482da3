------------------------- MODULE DeliveryRefinement -------------------------
(* The delivery ledger implements the promise of ReplyDelivery.            *)
EXTENDS DeliveryLedger

\* the platform call of an obligation as its ledger and its senders show it
CallOf(o) ==
  LET busy   == {u \in Units : unit[o][u] = "attempting"}
      open   == {u \in busy : \A s \in Senders : ~InFlight(s, o, u)}
      unsafe == {u \in Units : unit[o][u] = "unsafe"}
  IN  IF open \union unsafe # {} THEN "lost"
      ELSE IF \E u \in busy : accepted[o][u] > 0 THEN "arrived"
      ELSE IF busy # {} THEN "calling" ELSE "idle"

Promise == INSTANCE ReplyDelivery WITH
  Replies  <- Obligations,
  NParts   <- NUnits,
  got      <- accepted,
  call     <- [o \in Obligations |-> CallOf(o)],
  declared <- [o \in Obligations |-> row[o].state = "delivered"],
  lapsed   <- forgotten

\* Every behaviour of the ledger is one the chat was promised: units in order
\* and at most once, none after a lost answer, delivered only when complete.
ImplementsPromise == Promise!Spec
=============================================================================
