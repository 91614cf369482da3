---------------------------- MODULE MCTelegramIntake ----------------------------
(***************************************************************************)
(* TelegramIntake with two updates of one conversation and two faults, and *)
(* with three updates and one fault, or none.                              *)
(***************************************************************************)
EXTENDS TelegramIntake

TwoFaults == { <<"text", "text", "none">>, <<"text", "edit", "none">>,
               <<"media", "stop", "none">>, <<"text", "new", "none">>,
               <<"effort", "text", "none">>, <<"approve", "ignored", "none">>,
               <<"other", "stranger", "none">> }

OneFault == { <<"text", "media", "text">> }

Calm == { <<"text", "effort", "stop">>, <<"effort", "stop", "text">> }

SomeScripts == TwoFaults \cup OneFault \cup Calm
Faults ==
    [s \in SomeScripts |->
        IF s \in TwoFaults THEN 2 ELSE IF s \in OneFault THEN 1 ELSE 0]

OneText == { <<"text", "none", "none">> }
ForOneText == [s \in OneText |-> 2]
=============================================================================
