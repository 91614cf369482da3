---------------------------- MODULE MCInboundClaims ----------------------------
(***************************************************************************)
(* InboundClaims with two messages of one conversation and two faults, and *)
(* with three messages and one fault.                                      *)
(***************************************************************************)
EXTENDS InboundClaims

Two == { <<"text", "stop", "none">>, <<"text", "text", "none">>,
         <<"effort", "text", "none">>, <<"effort", "stop", "none">>,
         <<"approve", "ignored", "none">> }

Three == { <<"text", "text", "new">>, <<"text", "effort", "text">>,
           <<"effort", "stop", "text">> }

SomeScripts == Two \cup Three
TwoOrOne == [s \in SomeScripts |-> IF s \in Two THEN 2 ELSE 1]
=============================================================================
