----------------------------- MODULE TurnProofs -----------------------------
(***************************************************************************)
(* The safety properties of TurnLifecycle, proved for every number of      *)
(* batches, tool steps, sessions, control commands and failures, and, in   *)
(* the second part, those of FileTools, the file calls of a turn's tool    *)
(* steps, for any conversations, paths, patches and bounds. The two models *)
(* share no name and no state; they meet in this module only.              *)
(*                                                                         *)
(* None of the turn's is inductive by itself.  What they need is where the *)
(* handler may stand when the durable row has a given phase: that is what  *)
(* Steady, Held, Underway and Clean say.  ClaimsWritten and Accounted      *)
(* follow the claims, StepsOnce and Silent the tool calls, Spoken the two  *)
(* verdicts a batch can get.                                               *)
(***************************************************************************)
EXTENDS TurnLifecycle, FileTools, SequenceTheorems, FiniteSetTheorems, WellFoundedInduction, TLAPS

(***************************************************************************)
(* The turn                                                                *)
(***************************************************************************)

-----------------------------------------------------------------------------
(* Types                                                                   *)

\* The bounds are numbers, and there is a message.
LEMMA Parameters ==
  /\ MaxSteps \in Nat /\ MaxSession \in Nat /\ MaxSession >= 1
  /\ MaxControls \in Nat /\ Budget \in Nat
  /\ (CHOOSE m \in Messages : TRUE) \in Messages
BY TurnAssumption

\* The absent row is a row.
LEMMA NoTurnType == NoTurn \in Turn
BY Parameters DEF NoTurn, Turn, Phases

\* The row keeps its type when a store call moves it to another phase.
LEMMA RowType ==
  ASSUME NEW p \in Phases, active \in Turn
  PROVE [phase |-> p, msg |-> active.msg, session |-> active.session,
         step |-> active.step] \in Turn
BY DEF Turn

\* What CompleteReadyTurn leaves behind.
LEMMA AppendTypes ==
  ASSUME active \in Turn, history \in [Messages -> 0..2], CompleteReadyTurn
  PROVE active' \in Turn /\ history' \in [Messages -> 0..2]
<1>1. active' \in Turn
  BY NoTurnType DEF CompleteReadyTurn
<1>2. \A n \in 0..2 : (IF n < 2 THEN n + 1 ELSE n) \in 0..2
  OBVIOUS
<1>3. history' \in [Messages -> 0..2]
  BY <1>2 DEF CompleteReadyTurn
<1> QED
  BY <1>1, <1>3

\* The types hold at first.
LEMMA TypesAtFirst == Init => TypeOK
<1> SUFFICES ASSUME Init PROVE TypeOK
  OBVIOUS
<1>1. active \in Turn /\ msg \in Messages
  BY NoTurnType, Parameters DEF Init
<1>2. effects \in [Messages -> [Steps -> 0..2]]
  BY DEF Init
<1>3. fence \in BOOLEAN /\ fenced \in BOOLEAN
  BY DEF Init
<1>4. /\ history \in [Messages -> 0..2]
      /\ replies \in [Messages -> SUBSET {"answer", "warning"}]
      /\ stage \in [Messages -> {"sent", "queued", "taken"}]
  BY DEF Init
<1>5. /\ session \in 1..MaxSession /\ step \in 0..MaxSteps
      /\ asked \in 0..MaxControls /\ spent \in 0..Budget
  BY Parameters DEF Init
<1> QED
  BY <1>1, <1>2, <1>3, <1>4, <1>5 DEF Init, TypeOK, Places, Owned

\* Every step of Next keeps the types.
LEMMA TypesKept == TypeOK /\ [Next]_vars => TypeOK'
<1> SUFFICES ASSUME TypeOK, [Next]_vars PROVE TypeOK'
  OBVIOUS
<1> USE Parameters
<1> USE DEF TypeOK, Go, chatVars, claimVars, turnVars, ctlVars, toolVars, ghostVars,
        Places, Owned, Steps
<1>1. ASSUME NEW m \in Messages, Accept(m) PROVE TypeOK'
  BY <1>1 DEF Accept
<1>2. ASSUME NEW m \in Messages, Take(m) PROVE TypeOK'
  BY <1>2 DEF Take
<1>3. ASSUME NEW m \in Messages, NEW i \in Steps, ToolEnds(m, i) PROVE TypeOK'
  <2>1. effects' \in [Messages -> [Steps -> 0..2]]
    <3>1. \A n \in 0..2 : (IF n < 2 THEN n + 1 ELSE n) \in 0..2
      OBVIOUS
    <3>2. effects[m] \in [Steps -> 0..2]
      BY <1>3
    <3>3. [effects[m] EXCEPT ![i] = IF @ < 2 THEN @ + 1 ELSE @] \in [Steps -> 0..2]
      BY <3>1, <3>2
    <3>4. effects' = effects \/ effects' = [effects EXCEPT ![m] =
                       [effects[m] EXCEPT ![i] = IF @ < 2 THEN @ + 1 ELSE @]]
      BY <1>3 DEF ToolEnds
    <3> QED
      BY <3>3, <3>4
  <2>2. running' \subseteq Messages \X Steps
    BY <1>3 DEF ToolEnds
  <2> QED
    BY <1>3, <2>1, <2>2 DEF ToolEnds
<1>4. CASE Prepare
  BY <1>4 DEF Prepare
<1>5. CASE Begin
  BY <1>5 DEF Begin, Started, Turn, Phases
<1>6. CASE Request
  BY <1>6 DEF Request, Advance, StepLeft, Turn, Phases
<1>7. CASE Gathered
  BY <1>7 DEF Gathered
<1>8. CASE Complete
  BY <1>8 DEF Complete, Advance, Turn, Phases
<1>9. CASE Answer
  BY <1>9 DEF Answer
<1>10. CASE Stage
  <2>1. step' = step /\ fence' \in BOOLEAN
    BY <1>10 DEF Stage
  <2>2. active' \in Turn
    BY <1>10, <2>1 DEF Stage, Advance, Turn, Phases
  <2> QED
    BY <1>10, <2>1, <2>2 DEF Stage
<1>11. CASE Deliver
  BY <1>11 DEF Deliver, Reply
<1>12. CASE Persist
  BY <1>12 DEF Persist, Settle
<1>13. CASE Finalize
  <2>1. active' \in Turn /\ history' \in [Messages -> 0..2]
    BY <1>13, AppendTypes DEF Finalize
  <2>2. turn' \in Places
    BY <1>13 DEF Finalize, Settled
  <2>3. fence' \in BOOLEAN
    BY <1>13 DEF Finalize
  <2> QED
    BY <1>13, <2>1, <2>2, <2>3 DEF Finalize
<1>14. CASE Warn
  BY <1>14 DEF Warn, Reply
<1>15. CASE Mark
  BY <1>15 DEF Mark, Settle
<1>16. CASE Stopped
  BY <1>16 DEF Stopped
<1>17. CASE StopClaims
  BY <1>17 DEF StopClaims, Settle, Fences
<1>18. CASE FinishStop
  <2>1. active' \in Turn /\ history' \in [Messages -> 0..2]
    BY <1>18, AppendTypes DEF FinishStop
  <2>2. turn' \in Places
    BY <1>18 DEF FinishStop
  <2> QED
    BY <1>18, <2>1, <2>2 DEF FinishStop
<1>19. CASE Discard
  BY <1>19, NoTurnType DEF Discard
<1>20. CASE Fail
  BY <1>20 DEF Fail
<1>21. CASE List
  <2>1. active' \in Turn
    <3>1. "unknown" \in Phases
      BY DEF Phases
    <3> QED
      BY <1>21, <3>1, RowType DEF List, RecoverTurn, Distrust
  <2>2. active.step \in 0..MaxSteps /\ active.msg \in Messages
    BY DEF Turn
  <2>3. turn' \in Places /\ msg' \in Messages /\ step' \in 0..MaxSteps
    BY <1>21, <2>2 DEF List, RecoverTurn, ResumeStep, Recovery
  <2>4. fence' \in BOOLEAN /\ fenced' \in BOOLEAN
    BY <1>21 DEF List, RecoverTurn, Distrust
  <2> QED
    BY <1>21, <2>1, <2>3, <2>4 DEF List, RecoverTurn
<1>22. CASE Retire \/ Unclaim \/ Open
  BY <1>22 DEF Retire, Unclaim, Open, Settle
<1>23. CASE Entomb
  <2>1. active' \in Turn /\ history' \in [Messages -> 0..2]
    BY <1>23, AppendTypes DEF Entomb
  <2>2. turn' \in Places
    BY <1>23 DEF Entomb
  <2> QED
    BY <1>23, <2>1, <2>2 DEF Entomb
<1>24. CASE StopReply
  BY <1>24 DEF StopReply
<1>25. CASE StopPersist
  <2>1. Current \in Phases
    BY DEF Current, Turn, Phases
  <2>2. Verdict(Current) \in {"stopped", "unknown", "late", "gone"}
    BY <2>1 DEF Verdict, Resumable, Phases
  <2>3. active' \in Turn
    <3>1. Current \in Resumable \union {"tool_requested"} => Verdict(Current) \in Phases
      BY DEF Verdict, Resumable, Phases
    <3> QED
      BY <1>25, <3>1, RowType DEF StopPersist
  <2>4. staged' \in {"stopped", "dropped", "unknown", "late", "gone"}
    BY <1>25, <2>2 DEF StopPersist
  <2>5. completed' \subseteq Messages /\ waived' \subseteq Messages
    BY <1>25 DEF StopPersist, Settle
  <2> QED
    BY <1>25, <2>3, <2>4, <2>5 DEF StopPersist
<1>26. CASE StopPublish
  BY <1>26 DEF StopPublish
<1>27. CASE New
  <2>1. active' \in Turn
    BY <1>27, NoTurnType DEF New, NewSession
  <2>2. session' \in 1..MaxSession
    BY <1>27 DEF New, NewSession
  <2>3. orphaned' \subseteq Messages
    <3>1. active.msg \in Messages
      BY DEF Turn
    <3> QED
      BY <1>27, <3>1 DEF New, NewSession
  <2>4. fenced' \in BOOLEAN
    BY <1>27 DEF New, NewSession
  <2> QED
    BY <1>27, <2>1, <2>2, <2>3, <2>4 DEF New, NewSession
<1>28. CASE Effort
  BY <1>28 DEF Effort
<1>29. CASE Ask("stop") \/ Ask("new")
  BY <1>29 DEF Ask, Queued
<1>30. CASE Raise \/ Cancel
  BY <1>30 DEF Raise, Cancel, Aborted, Cancelled
<1>31. CASE TornBegin
  BY <1>31 DEF TornBegin, Started, Cancelled, Turn, Phases
<1>32. CASE ControlFails
  <2>1. spent' \in 0..Budget
    BY <1>32 DEF ControlFails
  <2> QED
    BY <1>32, <2>1 DEF ControlFails
<1>35. CASE Shutdown
  BY <1>35 DEF Shutdown
<1>36. CASE Restart
  <2>1. fence' \in BOOLEAN /\ fenced' \in BOOLEAN
    BY <1>36 DEF Restart
  <2>2. stage' \in [Messages -> {"sent", "queued", "taken"}]
    BY <1>36 DEF Restart, Replayed
  <2>3. spent' \in 0..Budget /\ step' \in 0..MaxSteps
    BY <1>36 DEF Restart
  <2> QED
    BY <1>36, <2>1, <2>2, <2>3 DEF Restart
<1>33. CASE Reject
  <2>1. active' \in Turn /\ msg' \in Messages
    <3>1. "unknown" \in Phases /\ active.msg \in Messages
      BY DEF Phases, Turn
    <3> QED
      BY <1>33, <3>1, RowType DEF Reject, Rejected, Distrust
  <2> QED
    BY <1>33, <2>1 DEF Reject, Rejected, Distrust
<1>34. CASE UNCHANGED vars
  BY <1>34 DEF vars
<1> QED
  BY <1>1, <1>2, <1>3, <1>4, <1>5, <1>6, <1>7, <1>8, <1>9, <1>10, <1>11, <1>12, <1>13,
     <1>14, <1>15, <1>16, <1>17, <1>18, <1>19, <1>20, <1>21, <1>22, <1>23, <1>24, <1>25,
     <1>26, <1>27, <1>28, <1>29, <1>30, <1>31, <1>32, <1>33, <1>34,
     <1>35, <1>36
  DEF Next, TurnStep, Working, Answering, Replying, StartupStep, ControlStep

-----------------------------------------------------------------------------
(* The inductive invariant                                                 *)

\* the turn has begun and has no answer yet
Begun == {"model", "tools", "after", "answer", "discard"}

\* what the volatile state alone says: a startup runs undisturbed, whoever is
\* past the startup holds a taken batch, a stop in the making is not yet the
\* outcome, and a batch in preparation is only settled by a stop
Steady ==
  /\ phase = "startup" => control = "none"
  /\ turn \in {"list", "retire", "unclaim", "entomb", "open"} => phase = "startup"
  /\ turn \in {"deliver", "persist", "finalize"} => fence
  /\ phase = "startup" => outcome = "none" /\ \A m \in Messages : stage[m] = "sent"
  /\ phase # "startup" /\ turn # "free" => stage[msg] = "taken"
  /\ turn \in Preparing => phase # "startup" /\ outcome \in {"none", "dropped"}
  /\ control = "publish" => outcome = "none"
  /\ turn \in Preparing /\ control = "publish" => staged = "dropped"
  /\ turn \in {"stopped", "finish"} => ~Live
  /\ turn \in Preparing /\ msg \in completed => control = "publish" \/ ~Live
  /\ \A m \in Messages : stage[m] = "queued" => m \notin completed

\* the handler works on the row
Holding ==
  \/ turn \in Begun \union {"deliver", "persist", "finalize", "unclaim", "entomb"}
  \/ turn \in {"stopped", "finish"} /\ outcome = "stopped"

\* and then it is the row of its own batch
Held == Holding => active.phase # "none" /\ active.msg = msg

\* an exchange is written with its claims settled, and its row goes with it
ClaimsWritten ==
  /\ turn \in {"finalize", "finish", "entomb"} => msg \in completed
  /\ ClaimBeforeHistory
  /\ active.phase # "none" => history[active.msg] = 0
  /\ turn \in Preparing => msg \in completed \/ history[msg] = 0

\* claims are settled behind a recorded reply or under a control command
Accounted ==
  /\ turn \in {"persist", "finalize"} => replies[msg] # {}
  /\ turn \in {"mark", "retire"} => replies[msg] # {} \/ msg \in waived
  /\ Executing /\ ~Live => msg \in waived
  /\ control = "publish" /\ staged \in {"dropped", "stopped", "unknown"} => msg \in waived
  /\ active.phase = "stopped" => active.msg \in waived
  /\ turn \in {"unclaim", "entomb"} => active.phase = "stopped"
  /\ NoSilentDrop

\* The phases of a row whose turn is still at work, and an empty queue.
Unfinished == {"started", "tool_requested", "tool_completed"}
NoneQueued == \A m \in Messages : stage[m] # "queued"

\* an unfinished row has unsettled claims, nothing has ended its turn, and
\* its handler is at work, or the channel is failing, or a startup finds it
Underway == active.phase \in Unfinished =>
  /\ active.msg \notin completed
  /\ Executing => Live
  /\ control = "publish" => staged \notin {"stopped", "dropped", "unknown"}
  /\ \/ turn \in Begun \union {"list"}
     \/ turn = "fail" /\ active.msg = msg
     \/ turn = "free" /\ phase = "closing" /\ NoneQueued

\* A tool step that was requested at least once.
Entered(m, i) == <<m, i>> \in running \/ effects[m][i] > 0

\* a tool step that was ever requested lies behind the row's step, or its
\* batch is settled: the next request is a new step
StepsOnce ==
  /\ turn \in {"model", "tools", "after", "answer"} => step = active.step
  /\ turn \in Preparing => step = 0
  /\ \A m \in Messages \ orphaned : \A i \in Steps :
       /\ Entered(m, i) => \/ m \in completed
                           \/ /\ active.phase \notin {"none", "started"}
                              /\ active.msg = m /\ i <= active.step
       /\ <<m, i>> \in running => effects[m][i] = 0
       /\ effects[m][i] <= 1

\* a conversation without work has no row, or an unknown one and its fence;
\* a published verdict agrees with the row
Clean ==
  /\ turn \in {"free", "mark", "warn", "retire", "open"} =>
       \/ active.phase = "none"
       \/ active.phase = "unknown" /\ fenced
       \/ turn = "free" /\ phase = "closing" /\ NoneQueued
  /\ turn \in Preparing => active.phase = "none"
  /\ fence => \/ turn \in {"deliver", "persist", "finalize", "fail"}
              \/ turn = "free" /\ phase = "closing" /\ NoneQueued
  /\ Executing /\ outcome = "dropped" => active.phase = "none"
  /\ Executing /\ outcome = "unknown" => active.phase = "unknown"
  /\ Executing /\ control = "publish" /\ staged = "unknown" => active.phase = "unknown"
  /\ Executing /\ control = "publish" /\ staged = "dropped" => active.phase = "none"
  /\ turn = "finish" /\ outcome = "unknown" => fenced

\* The user was given the answer to this message.
Answered(m) == "answer" \in replies[m]

\* an answer is given from a row with a staged answer, a stop is told of a
\* stopped row or a settled preparation, and neither row becomes the other
Spoken ==
  /\ active.phase = "answer_ready" =>
       \/ turn \in {"deliver", "persist", "finalize", "list"}
       \/ turn = "fail" /\ active.msg = msg
       \/ turn = "free" /\ phase = "closing" /\ NoneQueued
  /\ turn \in {"deliver", "persist", "finalize"} => active.phase = "answer_ready"
  /\ active.phase = "answer_ready" => active.msg \notin quiet \ orphaned
  /\ active.phase = "stopped" => active.msg \in orphaned \/ ~Answered(active.msg)
  /\ control = "publish" /\ staged = "stopped" =>
       active.phase = "stopped" /\ active.msg = msg
  /\ control = "publish" /\ staged = "dropped" =>
       /\ msg \in completed
       /\ active.phase # "answer_ready"
       /\ msg \in orphaned \/ ~Answered(msg)
  /\ \A m \in Messages \ orphaned :
       /\ Answered(m) => \/ m \in completed
                         \/ active.phase = "answer_ready" /\ active.msg = m
       /\ m \in quiet => \/ m \in completed
                         \/ active.phase = "stopped" /\ active.msg = m
       /\ ~(m \in quiet /\ Answered(m))

\* a tool call still running belongs to the row's requested or unknown step,
\* or to a settled batch whose outcome was reported as unknown
Silent ==
  /\ turn = "after" => <<msg, step>> \notin running
  /\ \A m \in Messages \ orphaned : \A i \in Steps : <<m, i>> \in running =>
       /\ m \notin quiet
       /\ \/ m \in completed
          \/ /\ active.phase \in {"tool_requested", "unknown"}
             /\ active.msg = m /\ active.step = i
       /\ active.phase = "stopped" => active.msg # m
       /\ control = "publish" /\ staged \in {"dropped", "stopped"} => msg # m

\* The inductive invariant.
IInv ==
  /\ TypeOK /\ NeverDetached
  /\ Steady /\ Held /\ ClaimsWritten /\ Accounted /\ Underway /\ StepsOnce
  /\ Clean /\ Spoken /\ Silent

-----------------------------------------------------------------------------
(* Each part holds at first and is kept by every step.                     *)


\* The row belongs to the current session: only New moves past one, and deletes it.
LEMMA FirstDetached == Init => NeverDetached
BY DEF Init, NeverDetached, NoTurn

\* ... and no other step makes it belong to an older one.
LEMMA KeptDetached ==
  ASSUME TypeOK, NeverDetached, [Next]_vars
  PROVE  NeverDetached'
<1> USE DEF NeverDetached, Turn, Go, chatVars, claimVars, turnVars, ctlVars, toolVars,
            ghostVars
<1>1. ASSUME NEW m \in Messages, Accept(m) \/ Take(m) PROVE NeverDetached'
  BY <1>1 DEF Accept, Take
<1>2. ASSUME NEW m \in Messages, NEW i \in Steps, ToolEnds(m, i) PROVE NeverDetached'
  BY <1>2 DEF ToolEnds
<1>3. CASE Prepare \/ Effort
  BY <1>3 DEF Prepare, Resettable, Current, Effort
<1>4. CASE Begin \/ TornBegin
  BY <1>4 DEF Begin, Started, Current, TornBegin, Cancelled
<1>5. CASE Request
  BY <1>5 DEF Request, Advance, Resumable, Current
<1>6. CASE Complete
  BY <1>6 DEF Complete, Advance, Current
<1>7. CASE Stage
  BY <1>7 DEF Stage, Advance, Resumable, Current
<1>8. CASE Gathered \/ Answer \/ Stopped \/ Raise \/ Cancel \/ Fail \/ Open
  BY <1>8 DEF Gathered, Answer, Stopped, Raise, Aborted, Breakable, Cancel, Cancelled,
       Fail, Open
<1>9. CASE Deliver \/ Warn
  BY <1>9 DEF Deliver, Reply, Warn
<1>10. CASE Persist \/ Mark \/ StopClaims \/ Retire \/ Unclaim
  BY <1>10 DEF Persist, Settle, Mark, StopClaims, Fences, Retire, Unclaim
<1>11. CASE Finalize
  BY <1>11 DEF Finalize, CompleteReadyTurn, Settled, NoTurn, Current
<1>12. CASE FinishStop \/ Entomb
  BY <1>12 DEF FinishStop, CompleteReadyTurn, NoTurn, Entomb
<1>13. CASE Discard
  BY <1>13 DEF Discard, NoTurn, Current
<1>14. CASE List
  BY <1>14 DEF List, RecoverTurn, Recovery, Distrust, Current, ResumeStep, Recoverable
<1>15. CASE Reject
  BY <1>15 DEF Reject, Rejected, Distrust, Recoverable, Current
<1>16. CASE Ask("stop") \/ Ask("new")
  BY <1>16 DEF Ask, Queued
<1>17. CASE StopReply \/ ControlFails
  BY <1>17 DEF StopReply, ControlFails, Breakable
<1>18. CASE StopPersist
  BY <1>18 DEF StopPersist, Settle, Verdict, Resumable, Current
<1>19. CASE StopPublish
  BY <1>19 DEF StopPublish
<1>20. CASE New
  BY <1>20 DEF New, NewSession, NoTurn, Current
<1>21. CASE Shutdown \/ Restart
  BY <1>21 DEF Shutdown, Restart, Replayed
<1>22. CASE UNCHANGED vars
  BY <1>22 DEF vars
<1> QED
  BY <1>1, <1>2, <1>3, <1>4, <1>5, <1>6, <1>7, <1>8, <1>9, <1>10, <1>11, <1>12,
     <1>13, <1>14, <1>15, <1>16, <1>17, <1>18, <1>19, <1>20, <1>21, <1>22
  DEF Next, TurnStep, Working, Answering, Replying, StartupStep, ControlStep

\* Where the handler can stand: see Steady.
LEMMA FirstSteady == Init => Steady
BY DEF Init, Steady, Preparing, Live

\* ... and every step keeps it.
LEMMA KeptSteady ==
  ASSUME TypeOK, Steady, [Next]_vars
  PROVE  Steady'
<1> USE DEF Steady, Preparing, Live, Executing, Unlocked, Go, chatVars, claimVars,
            turnVars, ctlVars, toolVars, ghostVars
<1>1. ASSUME NEW m \in Messages, Accept(m) \/ Take(m) PROVE Steady'
  BY <1>1 DEF Accept, Take, TypeOK
<1>2. ASSUME NEW m \in Messages, NEW i \in Steps, ToolEnds(m, i) PROVE Steady'
  BY <1>2 DEF ToolEnds
<1>3. CASE Prepare \/ Effort
  BY <1>3 DEF Prepare, Resettable, Current, Effort
<1>4. CASE Begin \/ TornBegin
  BY <1>4 DEF Begin, Started, Current, TornBegin, Cancelled
<1>5. CASE Request
  BY <1>5 DEF Request, Advance, Resumable, Current
<1>6. CASE Complete
  BY <1>6 DEF Complete, Advance, Current
<1>7. CASE Stage
  BY <1>7 DEF Stage, Advance, Resumable, Current
<1>8. CASE Gathered \/ Answer \/ Stopped \/ Raise \/ Cancel \/ Fail \/ Open
  BY <1>8 DEF Gathered, Answer, Stopped, Raise, Aborted, Breakable, Cancel, Cancelled,
       Fail, Open
<1>9. CASE Deliver \/ Warn
  BY <1>9 DEF Deliver, Reply, Warn
<1>10. CASE Persist \/ Mark \/ StopClaims \/ Retire \/ Unclaim
  <2>1. CASE Persist
    BY <2>1 DEF Persist, Settle
  <2>2. CASE Mark
    BY <2>2 DEF Mark, Settle
  <2>3. CASE StopClaims
    BY <2>3 DEF StopClaims, Settle, Fences
  <2>4. CASE Retire \/ Unclaim
    BY <2>4 DEF Retire, Unclaim, Settle
  <2> QED
    BY <1>10, <2>1, <2>2, <2>3, <2>4
<1>11. CASE Finalize
  BY <1>11 DEF Finalize, CompleteReadyTurn, Settled, NoTurn, Current
<1>12. CASE FinishStop \/ Entomb
  BY <1>12 DEF FinishStop, CompleteReadyTurn, NoTurn, Entomb
<1>13. CASE Discard
  BY <1>13 DEF Discard, NoTurn, Current
<1>14. CASE List
  BY <1>14 DEF List, RecoverTurn, Recovery, Distrust, Current, ResumeStep, Recoverable
<1>15. CASE Reject
  BY <1>15 DEF Reject, Rejected, Distrust, Recoverable, Current
<1>16. CASE Ask("stop") \/ Ask("new")
  <2>1. \A m \in Messages :
          stage'[m] = IF stage[m] = "queued" THEN "sent" ELSE stage[m]
    BY <1>16 DEF Ask, Queued
  <2>2. completed' = completed \union {m \in Messages : stage[m] = "queued"}
    BY <1>16 DEF Ask, Queued
  <2> QED
    BY <1>16, <2>1, <2>2 DEF Ask, TypeOK
<1>17. CASE StopReply \/ ControlFails
  BY <1>17 DEF StopReply, ControlFails, Breakable
<1>18. CASE StopPersist
  BY <1>18 DEF StopPersist, Settle, Verdict, Resumable, Current
<1>19. CASE StopPublish
  BY <1>19 DEF StopPublish, Owned
<1>20. CASE New
  BY <1>20 DEF New, NewSession, NoTurn, Current
<1>21. CASE Shutdown \/ Restart
  BY <1>21 DEF Shutdown, Restart, Replayed
<1>22. CASE UNCHANGED vars
  BY <1>22 DEF vars
<1> QED
  BY <1>1, <1>2, <1>3, <1>4, <1>5, <1>6, <1>7, <1>8, <1>9, <1>10, <1>11, <1>12,
     <1>13, <1>14, <1>15, <1>16, <1>17, <1>18, <1>19, <1>20, <1>21, <1>22
  DEF Next, TurnStep, Working, Answering, Replying, StartupStep, ControlStep

\* A begun handler has the row of its own batch.
LEMMA FirstHeld == Init => Held
BY DEF Init, Held, Holding, Begun, Live

\* ... and every step keeps it.
LEMMA KeptHeld ==
  ASSUME TypeOK, NeverDetached, Steady, Held, [Next]_vars
  PROVE  Held'
<1> USE DEF NeverDetached, Steady, Held, Holding, Begun, Preparing, Live, Executing,
            Owned, Unlocked, Go, chatVars, claimVars, turnVars, ctlVars, toolVars,
            ghostVars
<1>1. ASSUME NEW m \in Messages, Accept(m) \/ Take(m) PROVE Held'
  BY <1>1 DEF Accept, Take
<1>2. ASSUME NEW m \in Messages, NEW i \in Steps, ToolEnds(m, i) PROVE Held'
  BY <1>2 DEF ToolEnds
<1>3. CASE Prepare \/ Effort
  BY <1>3 DEF Prepare, Resettable, Current, Effort
<1>4. CASE Begin \/ TornBegin
  BY <1>4 DEF Begin, Started, Current, TornBegin, Cancelled
<1>5. CASE Request
  BY <1>5 DEF Request, Advance, Resumable, Current
<1>6. CASE Complete
  BY <1>6 DEF Complete, Advance, Current
<1>7. CASE Stage
  BY <1>7 DEF Stage, Advance, Resumable, Current
<1>8. CASE Gathered \/ Answer \/ Stopped \/ Raise \/ Cancel \/ Fail \/ Open
  BY <1>8 DEF Gathered, Answer, Stopped, Raise, Aborted, Breakable, Cancel, Cancelled,
       Fail, Open
<1>9. CASE Deliver \/ Warn
  BY <1>9 DEF Deliver, Reply, Warn
<1>10. CASE Persist \/ Mark \/ StopClaims \/ Retire \/ Unclaim
  BY <1>10 DEF Persist, Settle, Mark, StopClaims, Fences, Retire, Unclaim
<1>11. CASE Finalize
  BY <1>11 DEF Finalize, CompleteReadyTurn, Settled, NoTurn, Current
<1>12. CASE FinishStop \/ Entomb
  BY <1>12 DEF FinishStop, CompleteReadyTurn, NoTurn, Entomb
<1>13. CASE Discard
  BY <1>13 DEF Discard, NoTurn, Current
<1>14. CASE List
  BY <1>14 DEF List, RecoverTurn, Recovery, Distrust, Current, ResumeStep, Recoverable
<1>15. CASE Reject
  BY <1>15 DEF Reject, Rejected, Distrust, Recoverable, Current
<1>16. CASE Ask("stop") \/ Ask("new")
  BY <1>16 DEF Ask, Queued
<1>17. CASE StopReply \/ ControlFails
  BY <1>17 DEF StopReply, ControlFails, Breakable
<1>18. CASE StopPersist
  BY <1>18 DEF StopPersist, Settle, Verdict, Resumable, Current
<1>19. CASE StopPublish
  BY <1>19 DEF StopPublish
<1>20. CASE New
  BY <1>20 DEF New, NewSession, NoTurn, Current
<1>21. CASE Shutdown \/ Restart
  BY <1>21 DEF Shutdown, Restart, Replayed
<1>22. CASE UNCHANGED vars
  BY <1>22 DEF vars
<1> QED
  BY <1>1, <1>2, <1>3, <1>4, <1>5, <1>6, <1>7, <1>8, <1>9, <1>10, <1>11, <1>12,
     <1>13, <1>14, <1>15, <1>16, <1>17, <1>18, <1>19, <1>20, <1>21, <1>22
  DEF Next, TurnStep, Working, Answering, Replying, StartupStep, ControlStep

\* Claims before history.
LEMMA FirstWritten == Init => ClaimsWritten
BY DEF Init, ClaimsWritten, ClaimBeforeHistory, NoTurn, Preparing

\* ... and every step keeps it.
LEMMA KeptWritten ==
  ASSUME TypeOK, NeverDetached, Steady, Held, ClaimsWritten, [Next]_vars
  PROVE  ClaimsWritten'
<1> USE DEF TypeOK, NeverDetached, Steady, Held, ClaimsWritten, ClaimBeforeHistory, Holding,
            Begun, Preparing, Live, Executing, Owned, Unlocked, Go, chatVars, claimVars,
            turnVars, ctlVars, toolVars, ghostVars
<1>1. ASSUME NEW m \in Messages, Accept(m) \/ Take(m) PROVE ClaimsWritten'
  BY <1>1 DEF Accept, Take
<1>2. ASSUME NEW m \in Messages, NEW i \in Steps, ToolEnds(m, i) PROVE ClaimsWritten'
  BY <1>2 DEF ToolEnds
<1>3. CASE Prepare \/ Effort
  BY <1>3 DEF Prepare, Resettable, Current, Effort
<1>4. CASE Begin \/ TornBegin
  BY <1>4 DEF Begin, Started, Current, TornBegin, Cancelled
<1>5. CASE Request
  BY <1>5 DEF Request, Advance, Resumable, Current
<1>6. CASE Complete
  BY <1>6 DEF Complete, Advance, Current
<1>7. CASE Stage
  BY <1>7 DEF Stage, Advance, Resumable, Current
<1>8. CASE Gathered \/ Answer \/ Stopped \/ Raise \/ Cancel \/ Fail \/ Open
  BY <1>8 DEF Gathered, Answer, Stopped, Raise, Aborted, Breakable, Cancel, Cancelled,
       Fail, Open
<1>9. CASE Deliver \/ Warn
  BY <1>9 DEF Deliver, Reply, Warn
<1>10. CASE Persist \/ Mark \/ StopClaims \/ Retire \/ Unclaim
  BY <1>10 DEF Persist, Settle, Mark, StopClaims, Fences, Retire, Unclaim
<1>11. CASE Finalize
  <2>1. CASE Current = "answer_ready"
    BY <1>11, <2>1 DEF Finalize, CompleteReadyTurn, Settled, NoTurn, Current
  <2>2. CASE Current # "answer_ready"
    BY <1>11, <2>2 DEF Finalize
  <2> QED
    BY <2>1, <2>2
<1>12. CASE FinishStop \/ Entomb
  <2>1. CASE FinishStop
    BY <2>1 DEF FinishStop, CompleteReadyTurn, NoTurn
  <2>2. CASE Entomb
    BY <2>2 DEF Entomb, CompleteReadyTurn, NoTurn
  <2> QED
    BY <1>12, <2>1, <2>2
<1>13. CASE Discard
  BY <1>13 DEF Discard, NoTurn, Current
<1>14. CASE List
  BY <1>14 DEF List, RecoverTurn, Recovery, Distrust, Current, ResumeStep, Recoverable
<1>15. CASE Reject
  BY <1>15 DEF Reject, Rejected, Distrust, Recoverable, Current
<1>16. CASE Ask("stop") \/ Ask("new")
  BY <1>16 DEF Ask, Queued
<1>17. CASE StopReply \/ ControlFails
  BY <1>17 DEF StopReply, ControlFails, Breakable
<1>18. CASE StopPersist
  BY <1>18 DEF StopPersist, Settle, Verdict, Resumable, Current
<1>19. CASE StopPublish
  BY <1>19 DEF StopPublish
<1>20. CASE New
  BY <1>20 DEF New, NewSession, NoTurn, Current
<1>21. CASE Shutdown \/ Restart
  BY <1>21 DEF Shutdown, Restart, Replayed
<1>22. CASE UNCHANGED vars
  BY <1>22 DEF vars
<1> QED
  BY <1>1, <1>2, <1>3, <1>4, <1>5, <1>6, <1>7, <1>8, <1>9, <1>10, <1>11, <1>12,
     <1>13, <1>14, <1>15, <1>16, <1>17, <1>18, <1>19, <1>20, <1>21, <1>22
  DEF Next, TurnStep, Working, Answering, Replying, StartupStep, ControlStep

\* A settled batch has a reply or is waived.
LEMMA KeptAccounted ==
  ASSUME TypeOK, NeverDetached, Steady, Held, Accounted, [Next]_vars
  PROVE  Accounted'
<1> USE DEF TypeOK, NeverDetached, Steady, Held, Accounted, NoSilentDrop, Holding, Begun,
            Preparing, Live, Executing, Owned, Unlocked, Go, chatVars, claimVars,
            turnVars, ctlVars, toolVars, ghostVars
<1>1. ASSUME NEW m \in Messages, Accept(m) \/ Take(m) PROVE Accounted'
  BY <1>1 DEF Accept, Take
<1>2. ASSUME NEW m \in Messages, NEW i \in Steps, ToolEnds(m, i) PROVE Accounted'
  BY <1>2 DEF ToolEnds
<1>3. CASE Prepare \/ Effort
  BY <1>3 DEF Prepare, Resettable, Current, Effort
<1>4. CASE Begin \/ TornBegin
  BY <1>4 DEF Begin, Started, Current, TornBegin, Cancelled
<1>5. CASE Request
  BY <1>5 DEF Request, Advance, Resumable, Current
<1>6. CASE Complete
  BY <1>6 DEF Complete, Advance, Current
<1>7. CASE Stage
  BY <1>7 DEF Stage, Advance, Resumable, Current
<1>8. CASE Gathered \/ Answer \/ Stopped \/ Raise \/ Cancel \/ Fail \/ Open
  BY <1>8 DEF Gathered, Answer, Stopped, Raise, Aborted, Breakable, Cancel, Cancelled,
       Fail, Open
<1>9. CASE Deliver \/ Warn
  BY <1>9 DEF Deliver, Reply, Warn
<1>10. CASE Persist \/ Mark \/ StopClaims \/ Retire \/ Unclaim
  BY <1>10 DEF Persist, Settle, Mark, StopClaims, Fences, Retire, Unclaim
<1>11. CASE Finalize
  <2>1. CASE Current = "answer_ready"
    BY <1>11, <2>1 DEF Finalize, CompleteReadyTurn, Settled, NoTurn, Current
  <2>2. CASE Current # "answer_ready"
    BY <1>11, <2>2 DEF Finalize
  <2> QED
    BY <2>1, <2>2
<1>12. CASE FinishStop \/ Entomb
  BY <1>12 DEF FinishStop, CompleteReadyTurn, NoTurn, Entomb
<1>13. CASE Discard
  BY <1>13 DEF Discard, NoTurn, Current
<1>14. CASE List
  BY <1>14 DEF List, RecoverTurn, Recovery, Distrust, Current, ResumeStep, Recoverable
<1>15. CASE Reject
  BY <1>15 DEF Reject, Rejected, Distrust, Recoverable, Current
<1>16. CASE Ask("stop") \/ Ask("new")
  BY <1>16 DEF Ask, Queued
<1>17. CASE StopReply \/ ControlFails
  BY <1>17 DEF StopReply, ControlFails, Breakable
<1>18. CASE StopPersist
  BY <1>18 DEF StopPersist, Settle, Verdict, Resumable, Current
<1>19. CASE StopPublish
  BY <1>19 DEF StopPublish
<1>20. CASE New
  BY <1>20 DEF New, NewSession, NoTurn, Current
<1>21. CASE Shutdown \/ Restart
  BY <1>21 DEF Shutdown, Restart, Replayed
<1>22. CASE UNCHANGED vars
  BY <1>22 DEF vars
<1> QED
  BY <1>1, <1>2, <1>3, <1>4, <1>5, <1>6, <1>7, <1>8, <1>9, <1>10, <1>11, <1>12,
     <1>13, <1>14, <1>15, <1>16, <1>17, <1>18, <1>19, <1>20, <1>21, <1>22
  DEF Next, TurnStep, Working, Answering, Replying, StartupStep, ControlStep

\* An unfinished row is somebody's work.
LEMMA KeptUnderway ==
  ASSUME TypeOK, NeverDetached, Steady, Held, Underway, [Next]_vars
  PROVE  Underway'
<1> USE DEF TypeOK, NeverDetached, Steady, Held, Underway, Unfinished, NoneQueued, Holding,
            Begun, Preparing, Live, Executing, Owned, Unlocked, Go, chatVars, claimVars,
            turnVars, ctlVars, toolVars, ghostVars
<1>1. ASSUME NEW m \in Messages, Accept(m) \/ Take(m) PROVE Underway'
  BY <1>1 DEF Accept, Take
<1>2. ASSUME NEW m \in Messages, NEW i \in Steps, ToolEnds(m, i) PROVE Underway'
  BY <1>2 DEF ToolEnds
<1>3. CASE Prepare \/ Effort
  BY <1>3 DEF Prepare, Resettable, Current, Effort
<1>4. CASE Begin \/ TornBegin
  BY <1>4 DEF Begin, Started, Current, TornBegin, Cancelled
<1>5. CASE Request
  BY <1>5 DEF Request, Advance, Resumable, Current
<1>6. CASE Complete
  BY <1>6 DEF Complete, Advance, Current
<1>7. CASE Stage
  BY <1>7 DEF Stage, Advance, Resumable, Current
<1>8. CASE Gathered \/ Answer \/ Stopped \/ Raise \/ Cancel \/ Fail \/ Open
  BY <1>8 DEF Gathered, Answer, Stopped, Raise, Aborted, Breakable, Cancel, Cancelled,
       Fail, Open
<1>9. CASE Deliver \/ Warn
  BY <1>9 DEF Deliver, Reply, Warn
<1>10. CASE Persist \/ Mark \/ StopClaims \/ Retire \/ Unclaim
  BY <1>10 DEF Persist, Settle, Mark, StopClaims, Fences, Retire, Unclaim
<1>11. CASE Finalize
  <2>1. CASE Current = "answer_ready"
    BY <1>11, <2>1 DEF Finalize, CompleteReadyTurn, Settled, NoTurn, Current
  <2>2. CASE Current # "answer_ready"
    BY <1>11, <2>2 DEF Finalize
  <2> QED
    BY <2>1, <2>2
<1>12. CASE FinishStop \/ Entomb
  BY <1>12 DEF FinishStop, CompleteReadyTurn, NoTurn, Entomb
<1>13. CASE Discard
  BY <1>13 DEF Discard, NoTurn, Current
<1>14. CASE List
  BY <1>14 DEF List, RecoverTurn, Recovery, Distrust, Current, ResumeStep, Recoverable
<1>15. CASE Reject
  BY <1>15 DEF Reject, Rejected, Distrust, Recoverable, Current
<1>16. CASE Ask("stop") \/ Ask("new")
  BY <1>16 DEF Ask, Queued
<1>17. CASE StopReply \/ ControlFails
  BY <1>17 DEF StopReply, ControlFails, Breakable
<1>18. CASE StopPersist
  BY <1>18 DEF StopPersist, Settle, Verdict, Resumable, Current
<1>19. CASE StopPublish
  BY <1>19 DEF StopPublish
<1>20. CASE New
  BY <1>20 DEF New, NewSession, NoTurn, Current
<1>21. CASE Shutdown \/ Restart
  BY <1>21 DEF Shutdown, Restart, Replayed
<1>22. CASE UNCHANGED vars
  BY <1>22 DEF vars
<1> QED
  BY <1>1, <1>2, <1>3, <1>4, <1>5, <1>6, <1>7, <1>8, <1>9, <1>10, <1>11, <1>12,
     <1>13, <1>14, <1>15, <1>16, <1>17, <1>18, <1>19, <1>20, <1>21, <1>22
  DEF Next, TurnStep, Working, Answering, Replying, StartupStep, ControlStep

\* A tool step runs once.
LEMMA KeptStepsOnce ==
  ASSUME TypeOK, NeverDetached, Steady, Held, ClaimsWritten, Underway, StepsOnce, [Next]_vars
  PROVE  StepsOnce'
<1> USE DEF TypeOK, NeverDetached, Steady, Held, ClaimsWritten, Underway, Unfinished, NoneQueued,
            StepsOnce, Entered, Holding, Begun, Preparing, Live, Executing, Owned, Unlocked,
            Go, chatVars, claimVars, turnVars, ctlVars, toolVars, ghostVars
<1>1. ASSUME NEW m \in Messages, Accept(m) \/ Take(m) PROVE StepsOnce'
  BY <1>1 DEF Accept, Take
<1>2. ASSUME NEW m \in Messages, NEW i \in Steps, ToolEnds(m, i) PROVE StepsOnce'
  BY <1>2 DEF ToolEnds
<1>3. CASE Prepare \/ Effort
  BY <1>3 DEF Prepare, Resettable, Current, Effort
<1>4. CASE Begin \/ TornBegin
  BY <1>4 DEF Begin, Started, Current, TornBegin, Cancelled
<1>5. CASE Request
  <2>1. CASE Current \notin Resumable
    BY <1>5, <2>1 DEF Request, Advance, Resumable, Current
  <2>2. CASE Current \in Resumable
    <3>1. /\ active.phase \in {"started", "tool_completed"}
          /\ active.msg = msg /\ msg \notin completed
          /\ active.step = step /\ step \in 0..MaxSteps
      BY <1>5, <2>2 DEF Request, Resumable, Current
    <3>2. /\ active'.phase = "tool_requested" /\ active'.msg = msg
          /\ active'.step = step + 1
      BY <1>5, <2>2, <3>1 DEF Request, Advance
    <3>3. /\ turn' = "tools" /\ step' = step + 1
          /\ UNCHANGED <<completed, effects, orphaned>>
          /\ running' = running \union {<<msg, step + 1>>}
      BY <1>5, <2>2 DEF Request
    <3>4. ASSUME NEW m \in Messages \ orphaned, NEW i \in Steps
          PROVE /\ Entered(m, i)' => \/ m \in completed
                                     \/ m = msg /\ i <= step + 1
                /\ <<m, i>> \in running' => effects[m][i] = 0
                /\ effects[m][i] <= 1
      <4>1. /\ Entered(m, i) => m \in completed \/ (m = msg /\ i <= step)
            /\ <<m, i>> \in running => effects[m][i] = 0
            /\ effects[m][i] <= 1
        BY <3>1
      <4>2. effects[m][i] \in 0..2 /\ i \in Nat
        BY Parameters DEF Steps
      <4>3. CASE <<m, i>> \in running
        BY <4>1, <4>2, <4>3, <3>1, <3>3
      <4>4. CASE <<m, i>> \notin running /\ m = msg /\ i = step + 1
        BY <4>1, <4>2, <4>4, <3>1, <3>3
      <4>5. CASE <<m, i>> \notin running /\ ~(m = msg /\ i = step + 1)
        <5>1. <<m, i>> \notin running'
          BY <4>5, <3>3
        <5> QED
          BY <4>1, <4>2, <5>1, <3>1, <3>3
      <4> QED
        BY <4>3, <4>4, <4>5
    <3> QED
      BY <3>2, <3>3, <3>4
  <2> QED
    BY <2>1, <2>2
<1>6. CASE Complete
  BY <1>6 DEF Complete, Advance, Current
<1>7. CASE Stage
  BY <1>7 DEF Stage, Advance, Resumable, Current
<1>8. CASE Gathered \/ Answer \/ Stopped \/ Raise \/ Cancel \/ Fail \/ Open
  BY <1>8 DEF Gathered, Answer, Stopped, Raise, Aborted, Breakable, Cancel, Cancelled,
       Fail, Open
<1>9. CASE Deliver \/ Warn
  BY <1>9 DEF Deliver, Reply, Warn
<1>10. CASE Persist \/ Mark \/ StopClaims \/ Retire \/ Unclaim
  BY <1>10 DEF Persist, Settle, Mark, StopClaims, Fences, Retire, Unclaim
<1>11. CASE Finalize
  <2>1. CASE Current = "answer_ready"
    BY <1>11, <2>1 DEF Finalize, CompleteReadyTurn, Settled, NoTurn, Current
  <2>2. CASE Current # "answer_ready"
    BY <1>11, <2>2 DEF Finalize
  <2> QED
    BY <2>1, <2>2
<1>12. CASE FinishStop \/ Entomb
  BY <1>12 DEF FinishStop, CompleteReadyTurn, NoTurn, Entomb
<1>13. CASE Discard
  BY <1>13 DEF Discard, NoTurn, Current
<1>14. CASE List
  BY <1>14 DEF List, RecoverTurn, Recovery, Distrust, Current, ResumeStep, Recoverable
<1>15. CASE Reject
  BY <1>15 DEF Reject, Rejected, Distrust, Recoverable, Current
<1>16. CASE Ask("stop") \/ Ask("new")
  BY <1>16 DEF Ask, Queued
<1>17. CASE StopReply \/ ControlFails
  BY <1>17 DEF StopReply, ControlFails, Breakable
<1>18. CASE StopPersist
  BY <1>18 DEF StopPersist, Settle, Verdict, Resumable, Current
<1>19. CASE StopPublish
  BY <1>19 DEF StopPublish
<1>20. CASE New
  BY <1>20 DEF New, NewSession, NoTurn, Current
<1>21. CASE Shutdown \/ Restart
  BY <1>21 DEF Shutdown, Restart, Replayed
<1>22. CASE UNCHANGED vars
  BY <1>22 DEF vars
<1> QED
  BY <1>1, <1>2, <1>3, <1>4, <1>5, <1>6, <1>7, <1>8, <1>9, <1>10, <1>11, <1>12,
     <1>13, <1>14, <1>15, <1>16, <1>17, <1>18, <1>19, <1>20, <1>21, <1>22
  DEF Next, TurnStep, Working, Answering, Replying, StartupStep, ControlStep

\* A place without work has no row but an unknown one.
LEMMA KeptClean ==
  ASSUME TypeOK, NeverDetached, Steady, Held, Underway, Clean, [Next]_vars
  PROVE  Clean'
<1> USE DEF TypeOK, NeverDetached, Steady, Held, Underway, Unfinished, NoneQueued, Clean,
            Holding, Begun, Preparing, Live, Executing, Owned, Unlocked, Go, chatVars,
            claimVars, turnVars, ctlVars, toolVars, ghostVars
<1>1. ASSUME NEW m \in Messages, Accept(m) \/ Take(m) PROVE Clean'
  BY <1>1 DEF Accept, Take
<1>2. ASSUME NEW m \in Messages, NEW i \in Steps, ToolEnds(m, i) PROVE Clean'
  BY <1>2 DEF ToolEnds
<1>3. CASE Prepare \/ Effort
  BY <1>3 DEF Prepare, Resettable, Current, Effort
<1>4. CASE Begin \/ TornBegin
  BY <1>4 DEF Begin, Started, Current, TornBegin, Cancelled
<1>5. CASE Request
  BY <1>5 DEF Request, Advance, Resumable, Current
<1>6. CASE Complete
  BY <1>6 DEF Complete, Advance, Current
<1>7. CASE Stage
  BY <1>7 DEF Stage, Advance, Resumable, Current
<1>8. CASE Gathered \/ Answer \/ Stopped \/ Raise \/ Cancel \/ Fail \/ Open
  BY <1>8 DEF Gathered, Answer, Stopped, Raise, Aborted, Breakable, Cancel, Cancelled,
       Fail, Open
<1>9. CASE Deliver \/ Warn
  BY <1>9 DEF Deliver, Reply, Warn
<1>10. CASE Persist \/ Mark \/ StopClaims \/ Retire \/ Unclaim
  <2>1. CASE Persist
    BY <2>1 DEF Persist, Settle
  <2>2. CASE Mark
    BY <2>2 DEF Mark, Settle
  <2>3. CASE StopClaims
    BY <2>3 DEF StopClaims, Settle, Fences
  <2>4. CASE Retire \/ Unclaim
    BY <2>4 DEF Retire, Unclaim, Settle
  <2> QED
    BY <1>10, <2>1, <2>2, <2>3, <2>4
<1>11. CASE Finalize
  <2>1. CASE Current = "answer_ready"
    BY <1>11, <2>1 DEF Finalize, CompleteReadyTurn, Settled, NoTurn, Current
  <2>2. CASE Current # "answer_ready"
    BY <1>11, <2>2 DEF Finalize
  <2> QED
    BY <2>1, <2>2
<1>12. CASE FinishStop \/ Entomb
  BY <1>12 DEF FinishStop, CompleteReadyTurn, NoTurn, Entomb
<1>13. CASE Discard
  BY <1>13 DEF Discard, NoTurn, Current
<1>14. CASE List
  BY <1>14 DEF List, RecoverTurn, Recovery, Distrust, Current, ResumeStep, Recoverable
<1>15. CASE Reject
  BY <1>15 DEF Reject, Rejected, Distrust, Recoverable, Current
<1>16. CASE Ask("stop") \/ Ask("new")
  BY <1>16 DEF Ask, Queued
<1>17. CASE StopReply \/ ControlFails
  BY <1>17 DEF StopReply, ControlFails, Breakable
<1>18. CASE StopPersist
  <2>1. CASE turn \in Preparing
    BY <1>18, <2>1 DEF StopPersist, Settle
  <2>2. CASE turn \notin Preparing /\ Current \in Resumable
    <3>1. staged' = "stopped" /\ active' = [phase |-> "stopped", msg |-> active.msg,
                session |-> active.session, step |-> active.step]
      BY <1>18, <2>2 DEF StopPersist, Verdict, Resumable
    <3> QED
      BY <1>18, <2>2, <3>1 DEF StopPersist, Resumable, Current
  <2>3. CASE turn \notin Preparing /\ Current = "tool_requested"
    <3>1. staged' = "unknown" /\ active' = [phase |-> "unknown", msg |-> active.msg,
                session |-> active.session, step |-> active.step]
      BY <1>18, <2>3 DEF StopPersist, Verdict, Resumable
    <3> QED
      BY <1>18, <2>3, <3>1 DEF StopPersist, Current
  <2>4. CASE turn \notin Preparing /\ Current \notin Resumable \union {"tool_requested"}
    <3>1. active' = active /\ staged' = Verdict(Current)
      BY <1>18, <2>4 DEF StopPersist
    <3>2. staged' = "unknown" => Current = "unknown"
      BY <2>4, <3>1 DEF Verdict
    <3>3. staged' # "dropped" /\ (staged' = "stopped" => Current = "stopped")
      BY <2>4, <3>1 DEF Verdict, Current, Turn, Phases
    <3> QED
      BY <1>18, <2>4, <3>1, <3>2, <3>3 DEF StopPersist, Current
  <2> QED
    BY <2>1, <2>2, <2>3, <2>4
<1>19. CASE StopPublish
  BY <1>19 DEF StopPublish
<1>20. CASE New
  BY <1>20 DEF New, NewSession, NoTurn, Current
<1>21. CASE Shutdown \/ Restart
  BY <1>21 DEF Shutdown, Restart, Replayed
<1>22. CASE UNCHANGED vars
  BY <1>22 DEF vars
<1> QED
  BY <1>1, <1>2, <1>3, <1>4, <1>5, <1>6, <1>7, <1>8, <1>9, <1>10, <1>11, <1>12,
     <1>13, <1>14, <1>15, <1>16, <1>17, <1>18, <1>19, <1>20, <1>21, <1>22
  DEF Next, TurnStep, Working, Answering, Replying, StartupStep, ControlStep

\* A batch is answered or reported as stopped, never both.
LEMMA KeptSpoken ==
  ASSUME TypeOK, NeverDetached, Steady, Held, ClaimsWritten, Underway, Clean, Spoken,
         [Next]_vars
  PROVE  Spoken'
<1> USE DEF TypeOK, NeverDetached, Steady, Held, ClaimsWritten, Underway, Unfinished, NoneQueued,
            Clean, Spoken, Answered, Holding, Begun, Preparing, Live, Executing, Owned,
            Unlocked, Go, chatVars, claimVars, turnVars, ctlVars, toolVars, ghostVars
<1>1. ASSUME NEW m \in Messages, Accept(m) \/ Take(m) PROVE Spoken'
  BY <1>1 DEF Accept, Take
<1>2. ASSUME NEW m \in Messages, NEW i \in Steps, ToolEnds(m, i) PROVE Spoken'
  BY <1>2 DEF ToolEnds
<1>3. CASE Prepare \/ Effort
  BY <1>3 DEF Prepare, Resettable, Current, Effort
<1>4. CASE Begin \/ TornBegin
  BY <1>4 DEF Begin, Started, Current, TornBegin, Cancelled
<1>5. CASE Request
  BY <1>5 DEF Request, Advance, Resumable, Current
<1>6. CASE Complete
  BY <1>6 DEF Complete, Advance, Current
<1>7. CASE Stage
  BY <1>7 DEF Stage, Advance, Resumable, Current
<1>8. CASE Gathered \/ Answer \/ Stopped \/ Raise \/ Cancel \/ Fail \/ Open
  BY <1>8 DEF Gathered, Answer, Stopped, Raise, Aborted, Breakable, Cancel, Cancelled,
       Fail, Open
<1>9. CASE Deliver \/ Warn
  BY <1>9 DEF Deliver, Reply, Warn
<1>10. CASE Persist \/ Mark \/ StopClaims \/ Retire \/ Unclaim
  BY <1>10 DEF Persist, Settle, Mark, StopClaims, Fences, Retire, Unclaim
<1>11. CASE Finalize
  <2>1. CASE Current = "answer_ready"
    BY <1>11, <2>1 DEF Finalize, CompleteReadyTurn, Settled, NoTurn, Current
  <2>2. CASE Current # "answer_ready"
    BY <1>11, <2>2 DEF Finalize
  <2> QED
    BY <2>1, <2>2
<1>12. CASE FinishStop \/ Entomb
  BY <1>12 DEF FinishStop, CompleteReadyTurn, NoTurn, Entomb
<1>13. CASE Discard
  BY <1>13 DEF Discard, NoTurn, Current
<1>14. CASE List
  BY <1>14 DEF List, RecoverTurn, Recovery, Distrust, Current, ResumeStep, Recoverable
<1>15. CASE Reject
  BY <1>15 DEF Reject, Rejected, Distrust, Recoverable, Current
<1>16. CASE Ask("stop") \/ Ask("new")
  BY <1>16 DEF Ask, Queued
<1>17. CASE StopReply \/ ControlFails
  BY <1>17 DEF StopReply, ControlFails, Breakable
<1>18. CASE StopPersist
  <2>1. CASE turn \in Preparing
    BY <1>18, <2>1 DEF StopPersist, Settle
  <2>2. CASE turn \notin Preparing /\ Current \in Resumable
    <3>1. staged' = "stopped" /\ active' = [phase |-> "stopped", msg |-> active.msg,
                session |-> active.session, step |-> active.step]
      BY <1>18, <2>2 DEF StopPersist, Verdict, Resumable
    <3> QED
      BY <1>18, <2>2, <3>1 DEF StopPersist, Resumable, Current
  <2>3. CASE turn \notin Preparing /\ Current = "tool_requested"
    <3>1. staged' = "unknown" /\ active' = [phase |-> "unknown", msg |-> active.msg,
                session |-> active.session, step |-> active.step]
      BY <1>18, <2>3 DEF StopPersist, Verdict, Resumable
    <3> QED
      BY <1>18, <2>3, <3>1 DEF StopPersist, Current
  <2>4. CASE turn \notin Preparing /\ Current \notin Resumable \union {"tool_requested"}
    <3>1. active' = active /\ staged' = Verdict(Current)
      BY <1>18, <2>4 DEF StopPersist
    <3>2. staged' = "unknown" => Current = "unknown"
      BY <2>4, <3>1 DEF Verdict
    <3>3. staged' # "dropped" /\ (staged' = "stopped" => Current = "stopped")
      BY <2>4, <3>1 DEF Verdict, Current, Turn, Phases
    <3> QED
      BY <1>18, <2>4, <3>1, <3>2, <3>3 DEF StopPersist, Current
  <2> QED
    BY <2>1, <2>2, <2>3, <2>4
<1>19. CASE StopPublish
  BY <1>19 DEF StopPublish
<1>20. CASE New
  BY <1>20 DEF New, NewSession, NoTurn, Current
<1>21. CASE Shutdown \/ Restart
  <2>1. CASE Shutdown
    BY <2>1 DEF Shutdown
  <2>2. CASE Restart
    BY <2>2 DEF Restart, Replayed
  <2> QED
    BY <1>21, <2>1, <2>2
<1>22. CASE UNCHANGED vars
  BY <1>22 DEF vars
<1> QED
  BY <1>1, <1>2, <1>3, <1>4, <1>5, <1>6, <1>7, <1>8, <1>9, <1>10, <1>11, <1>12,
     <1>13, <1>14, <1>15, <1>16, <1>17, <1>18, <1>19, <1>20, <1>21, <1>22
  DEF Next, TurnStep, Working, Answering, Replying, StartupStep, ControlStep

\* No tool call of a batch reported as stopped is left.
LEMMA KeptSilent ==
  ASSUME TypeOK, NeverDetached, Steady, Held, Underway, StepsOnce, Clean, Spoken, Silent,
         [Next]_vars
  PROVE  Silent'
<1> USE DEF TypeOK, NeverDetached, Steady, Held, Underway, Unfinished, NoneQueued, StepsOnce,
            Clean, Spoken, Silent, Holding, Begun, Preparing, Live, Executing, Owned,
            Unlocked, Go, chatVars, claimVars, turnVars, ctlVars, toolVars, ghostVars
<1>1. ASSUME NEW m \in Messages, Accept(m) \/ Take(m) PROVE Silent'
  <2>1. CASE Accept(m)
    BY <2>1 DEF Accept
  <2>2. CASE Take(m)
    BY <2>2 DEF Take
  <2> QED
    BY <1>1, <2>1, <2>2
<1>2. ASSUME NEW m \in Messages, NEW i \in Steps, ToolEnds(m, i) PROVE Silent'
  BY <1>2 DEF ToolEnds
<1>3. CASE Prepare \/ Effort
  BY <1>3 DEF Prepare, Resettable, Current, Effort
<1>4. CASE Begin \/ TornBegin
  BY <1>4 DEF Begin, Started, Current, TornBegin, Cancelled
<1>5. CASE Request
  BY <1>5 DEF Request, Advance, Resumable, Current
<1>6. CASE Complete
  <2>1. CASE Current = "tool_requested"
    BY <1>6, <2>1 DEF Complete, Advance, Current
  <2>2. CASE Current # "tool_requested"
    BY <1>6, <2>2 DEF Complete, Advance
  <2> QED
    BY <2>1, <2>2
<1>7. CASE Stage
  BY <1>7 DEF Stage, Advance, Resumable, Current
<1>8. CASE Gathered \/ Answer \/ Stopped \/ Raise \/ Cancel \/ Fail \/ Open
  <2>1. ASSUME Gathered \/ Answer \/ Stopped \/ Raise \/ Cancel
        PROVE  /\ turn' = "after" => <<msg, step>> \notin running
               /\ UNCHANGED <<msg, step, running, completed, active, orphaned, quiet, staged>>
               /\ control' = "publish" => control = "publish"
    <3>1. CASE Gathered
      BY <3>1 DEF Gathered
    <3>2. CASE Answer \/ Stopped
      BY <3>2 DEF Answer, Stopped
    <3>3. CASE Raise
      BY <3>3 DEF Raise, Aborted
    <3>4. CASE Cancel
      BY <3>4 DEF Cancel, Cancelled, Aborted
    <3> QED BY <2>1, <3>1, <3>2, <3>3, <3>4
  <2>2. CASE Gathered \/ Answer \/ Stopped \/ Raise \/ Cancel
    <3> HIDE DEF TypeOK, NeverDetached, Steady, Held, Underway, Unfinished, NoneQueued, StepsOnce,
                 Clean, Spoken
    <3> QED BY <2>1, <2>2
  <2>3. CASE Fail \/ Open
    BY <2>3 DEF Fail, Open
  <2> QED BY <1>8, <2>2, <2>3
<1>9. CASE Deliver \/ Warn
  BY <1>9 DEF Deliver, Reply, Warn
<1>10. CASE Persist \/ Mark \/ StopClaims \/ Retire \/ Unclaim
  BY <1>10 DEF Persist, Settle, Mark, StopClaims, Fences, Retire, Unclaim
<1>11. CASE Finalize
  <2>1. CASE Current = "answer_ready"
    BY <1>11, <2>1 DEF Finalize, CompleteReadyTurn, Settled, NoTurn, Current
  <2>2. CASE Current # "answer_ready"
    BY <1>11, <2>2 DEF Finalize
  <2> QED
    BY <2>1, <2>2
<1>12. CASE FinishStop \/ Entomb
  BY <1>12 DEF FinishStop, CompleteReadyTurn, NoTurn, Entomb
<1>13. CASE Discard
  BY <1>13 DEF Discard, NoTurn, Current
<1>14. CASE List
  BY <1>14 DEF List, RecoverTurn, Recovery, Distrust, Current, ResumeStep, Recoverable
<1>15. CASE Reject
  BY <1>15 DEF Reject, Rejected, Distrust, Recoverable, Current
<1>16. CASE Ask("stop") \/ Ask("new")
  BY <1>16 DEF Ask, Queued
<1>17. CASE StopReply \/ ControlFails
  BY <1>17 DEF StopReply, ControlFails, Breakable
<1>18. CASE StopPersist
  <2>1. CASE turn \in Preparing
    BY <1>18, <2>1 DEF StopPersist, Settle
  <2>2. CASE turn \notin Preparing /\ Current \in Resumable
    <3>1. staged' = "stopped" /\ active' = [phase |-> "stopped", msg |-> active.msg,
                session |-> active.session, step |-> active.step]
      BY <1>18, <2>2 DEF StopPersist, Verdict, Resumable
    <3> QED
      BY <1>18, <2>2, <3>1 DEF StopPersist, Resumable, Current
  <2>3. CASE turn \notin Preparing /\ Current = "tool_requested"
    <3>1. staged' = "unknown" /\ active' = [phase |-> "unknown", msg |-> active.msg,
                session |-> active.session, step |-> active.step]
      BY <1>18, <2>3 DEF StopPersist, Verdict, Resumable
    <3> QED
      BY <1>18, <2>3, <3>1 DEF StopPersist, Current
  <2>4. CASE turn \notin Preparing /\ Current \notin Resumable \union {"tool_requested"}
    <3>1. active' = active /\ staged' = Verdict(Current)
      BY <1>18, <2>4 DEF StopPersist
    <3>2. staged' = "unknown" => Current = "unknown"
      BY <2>4, <3>1 DEF Verdict
    <3>3. staged' # "dropped" /\ (staged' = "stopped" => Current = "stopped")
      BY <2>4, <3>1 DEF Verdict, Current, Turn, Phases
    <3> QED
      BY <1>18, <2>4, <3>1, <3>2, <3>3 DEF StopPersist, Current
  <2> QED
    BY <2>1, <2>2, <2>3, <2>4
<1>19. CASE StopPublish
  BY <1>19 DEF StopPublish
<1>20. CASE New
  BY <1>20 DEF New, NewSession, NoTurn, Current
<1>21. CASE Shutdown \/ Restart
  <2>1. CASE Shutdown
    BY <2>1 DEF Shutdown
  <2>2. CASE Restart
    BY <2>2 DEF Restart, Replayed
  <2> QED
    BY <1>21, <2>1, <2>2
<1>22. CASE UNCHANGED vars
  BY <1>22 DEF vars
<1> QED
  BY <1>1, <1>2, <1>3, <1>4, <1>5, <1>6, <1>7, <1>8, <1>9, <1>10, <1>11, <1>12,
     <1>13, <1>14, <1>15, <1>16, <1>17, <1>18, <1>19, <1>20, <1>21, <1>22
  DEF Next, TurnStep, Working, Answering, Replying, StartupStep, ControlStep

\* The remaining parts hold at first.
LEMMA FirstOthers ==
  Init => Accounted /\ Underway /\ StepsOnce /\ Clean /\ Spoken /\ Silent
<1> SUFFICES ASSUME Init PROVE Accounted /\ Underway /\ StepsOnce /\ Clean /\ Spoken /\ Silent
  OBVIOUS
<1> USE DEF Init, NoTurn, Preparing, Executing, Owned, Live, Unfinished, Begun
<1>1. Accounted
  BY DEF Accounted, NoSilentDrop
<1>2. Underway
  BY DEF Underway
<1>3. StepsOnce
  BY DEF StepsOnce, Entered
<1>4. Clean
  BY DEF Clean
<1>5. Spoken
  BY DEF Spoken, Answered
<1>6. Silent
  BY DEF Silent
<1> QED
  BY <1>1, <1>2, <1>3, <1>4, <1>5, <1>6

-----------------------------------------------------------------------------
(* The theorems                                                            *)

\* The parts together are kept by every step.
LEMMA Inductive == Spec => []IInv
<1>1. Init => IInv
  BY TypesAtFirst, FirstDetached, FirstSteady, FirstHeld, FirstWritten, FirstOthers
  DEF IInv
<1>2. IInv /\ [Next]_vars => IInv'
  <2> SUFFICES ASSUME IInv, [Next]_vars PROVE IInv'
    OBVIOUS
  <2>1. TypeOK' /\ NeverDetached' /\ Steady' /\ Held'
    BY TypesKept, KeptDetached, KeptSteady, KeptHeld DEF IInv
  <2>2. ClaimsWritten' /\ Accounted' /\ Underway' /\ StepsOnce'
    BY KeptWritten, KeptAccounted, KeptUnderway, KeptStepsOnce DEF IInv
  <2>3. Clean' /\ Spoken' /\ Silent'
    BY KeptClean, KeptSpoken, KeptSilent DEF IInv
  <2> QED
    BY <2>1, <2>2, <2>3 DEF IInv
<1> QED
  BY <1>1, <1>2, PTL DEF Spec

\* Every variable keeps its type; a resumed turn, too, stays within
\* max_tool_iterations.
THEOREM TypeCorrect == Spec => []TypeOK
<1>1. IInv => TypeOK
  BY DEF IInv
<1> QED
  BY <1>1, Inductive, PTL

\* No reset, by the clock, by /new or by /effort, leaves an unfinished turn
\* behind in an older session.
THEOREM NoDetachedTurn == Spec => []NeverDetached
<1>1. IInv => NeverDetached
  BY DEF IInv
<1> QED
  BY <1>1, Inductive, PTL

\* A tool step of a message runs at most once, over crashes, resumed turns,
\* stops and replays, as long as /new has not deleted its checkpoint.
THEOREM ToolStepsOnce == Spec => []ToolsOnce
<1>1. IInv => ToolsOnce
  BY DEF IInv, StepsOnce, ToolsOnce
<1> QED
  BY <1>1, Inductive, PTL

\* Settled claims mean a recorded reply or the user's own stop or /new.
THEOREM NothingDropped == Spec => []NoSilentDrop
<1>1. IInv => NoSilentDrop
  BY DEF IInv, Accounted
<1> QED
  BY <1>1, Inductive, PTL

\* The history gets an exchange once, behind its claims.
THEOREM HistoryOnce == Spec => []ClaimBeforeHistory
<1>1. IInv => ClaimBeforeHistory
  BY DEF IInv, ClaimsWritten
<1> QED
  BY <1>1, Inductive, PTL

\* A turn reported as stopped is never answered.
THEOREM StoppedIsStopped == Spec => []OneVerdict
<1>1. IInv => OneVerdict
  <2> SUFFICES ASSUME IInv, NEW m \in quiet \ orphaned PROVE "answer" \notin replies[m]
    BY DEF OneVerdict
  <2>1. m \in Messages \ orphaned
    BY DEF IInv, TypeOK
  <2> QED
    BY <2>1 DEF IInv, Spoken, Answered
<1> QED
  BY <1>1, Inductive, PTL

\* An idle conversation of a running service is ready for its next message.
THEOREM IdleConversation == Spec => []IdleIsClean
<1>1. IInv => IdleIsClean
  BY DEF IInv, Clean, IdleIsClean
<1> QED
  BY <1>1, Inductive, PTL

\* No tool call takes effect for a turn that was reported as stopped.
THEOREM NothingAfterStop == Spec => QuietAfterStop
<1>1. ASSUME IInv, [Next]_vars, NEW m \in quiet \ orphaned
      PROVE  effects'[m] = effects[m]
  <2>1. m \in Messages \ orphaned
    BY <1>1 DEF IInv, TypeOK
  <2>2. ASSUME NEW n \in Messages, NEW i \in Steps, ToolEnds(n, i)
        PROVE  effects'[m] = effects[m]
    <3>1. n # m
      BY <1>1, <2>1, <2>2 DEF IInv, Silent, ToolEnds
    <3>2. effects \in [Messages -> [Steps -> 0..2]]
      BY <1>1 DEF IInv, TypeOK
    <3> QED
      BY <2>1, <2>2, <3>1, <3>2 DEF ToolEnds
  <2>3. (\E n \in Messages, i \in Steps : ToolEnds(n, i)) \/ UNCHANGED effects
    BY <1>1
    DEF Next, TurnStep, Working, Answering, Replying, StartupStep, ControlStep, vars, toolVars, Accept, Take, Prepare, Begin,
        Request, Gathered, Complete, Answer, Stage, Deliver, Persist, Finalize, Warn, Mark,
        Stopped, StopClaims, FinishStop, Raise, Cancel, TornBegin, Discard, Fail, Ask,
        StopReply, StopPersist, StopPublish, New, NewSession, Effort, ControlFails, Shutdown, Restart,
        List, RecoverTurn, Reject, Rejected, Retire, Unclaim, Entomb, Open
  <2> QED
    BY <2>2, <2>3
<1>2. IInv /\ [Next]_vars => [\A m \in quiet \ orphaned : effects'[m] = effects[m]]_vars
  BY <1>1
<1> QED
  BY <1>2, Inductive, PTL DEF Spec, QuietAfterStop

\* The steps that can touch the row of a turn with an unknown outcome.
LEMMA UnknownKept ==
  ASSUME TypeOK, NeverDetached, [Next]_vars, active.phase = "unknown"
  PROVE  active' = active \/ (session' > session /\ control = "new")
<1>1. /\ Current = "unknown" /\ session \in Nat
      /\ active = [phase |-> "unknown", msg |-> active.msg, session |-> active.session,
                   step |-> active.step]
  BY Parameters DEF TypeOK, NeverDetached, Current, Turn
<1>2. CASE Begin \/ TornBegin
  BY <1>1, <1>2 DEF Begin, TornBegin
<1>3. CASE Request \/ Complete \/ Stage
  BY <1>1, <1>3 DEF Request, Complete, Stage, Advance, Resumable
<1>4. CASE Finalize \/ FinishStop \/ Entomb
  BY <1>1, <1>4 DEF Finalize, FinishStop, Entomb
<1>5. CASE Discard
  BY <1>1, <1>5 DEF Discard
<1>6. CASE List \/ Reject
  BY <1>1, <1>6 DEF List, RecoverTurn, Reject, Rejected, Distrust, Recoverable
<1>7. CASE StopPersist
  BY <1>1, <1>7 DEF StopPersist, Resumable
<1>8. CASE New
  BY <1>1, <1>8 DEF New, NewSession
<1>9. \/ Begin \/ TornBegin \/ Request \/ Complete \/ Stage \/ Finalize \/ FinishStop
      \/ Entomb \/ Discard \/ List \/ Reject \/ StopPersist \/ New
      \/ UNCHANGED active
  BY DEF Next, TurnStep, Working, Answering, Replying, StartupStep, ControlStep, vars, chatVars, Accept, Take, ToolEnds,
         Prepare, Gathered, Answer, Deliver, Persist, Warn, Mark, Stopped, StopClaims,
         Raise, Cancel, Fail, Ask, StopReply, StopPublish, Effort, ControlFails, Shutdown,
         Restart, Retire, Unclaim, Open
<1> QED
  BY <1>2, <1>3, <1>4, <1>5, <1>6, <1>7, <1>8, <1>9

\* A turn whose tool outcome is unknown stays so until the user's /new.
THEOREM UnknownStays == Spec => UnknownIsSticky
<1>1. IInv /\ [Next]_vars =>
        [active.phase = "unknown" =>
           active' = active \/ (session' > session /\ control = "new")]_vars
  BY UnknownKept DEF IInv
<1> QED
  BY <1>1, Inductive, PTL DEF Spec, UnknownIsSticky

-----------------------------------------------------------------------------
(* The properties as the runs check them                                   *)

\* No reset and no end of a turn leaves a checkpoint in the conversation's way.
THEOREM ConversationStaysClean == Spec => []CleanConversation
<1>1. TypeOK /\ NeverDetached /\ IdleIsClean => CleanConversation
  BY DEF CleanConversation
<1> QED
  BY <1>1, TypeCorrect, NoDetachedTurn, IdleConversation, PTL

\* A settled message was answered, warned about or waived, and its exchange is
\* in the history at most once, never before its claims.
THEOREM SettledExactly == Spec => []SettledOnce
<1>1. NoSilentDrop /\ ClaimBeforeHistory => SettledOnce
  BY DEF SettledOnce
<1> QED
  BY <1>1, NothingDropped, HistoryOnce, PTL

\* Nothing takes effect behind a reported stop, and only /new clears a turn
\* whose tool outcome is unknown.
THEOREM StopStaysFinal == Spec => StopIsFinal
BY NothingAfterStop, UnknownStays DEF StopIsFinal

(***************************************************************************)
(* The file tools                                                          *)
(***************************************************************************)
-----------------------------------------------------------------------------
(* The inductive invariant of the file tools                               *)

\* Where a call that writes is, and where it holds its locks and its backup.
Writing == {"lock", "backup", "validate", "apply", "finish"}
Locked == {"backup", "validate", "apply", "finish"}
BackedUp == {"validate", "apply", "finish"}

\* A call under way is one of the model's, and has operations left while it
\* applies them; a read under way, and one left behind, is of a path.
CallsInHand ==
    \A c \in Chats :
        /\ pc[c] = "read" => view[c].path \in Paths
        /\ stray[c] # None => stray[c].path \in Paths
        /\ pc[c] \in Writing => job[c] \in Calls
        /\ pc[c] \in Writing \ {"finish"} => next[c] <= Len(job[c])
        /\ pc[c] \in {"lock", "backup", "validate"} => next[c] = 1

\* Behind its locks a call has every path of its operations to itself.
PathsLocked ==
    \A c \in Chats : pc[c] \in Locked => \A p \in Touched(job[c]) : locks[p] = c

\* Stamps are given once: those of a call come behind all there are.
StampsGiven ==
    /\ \A p \in Paths : disk[p] <= clock
    /\ \A c \in Chats, p \in Paths : backup[c][p] <= clock
    /\ \A c \in Chats : mine[c] \subseteq 1 .. clock

\* What a call has written stays on its own paths, and is in nobody's backup.
OwnPathsOnly ==
    \A c \in Chats : pc[c] \in Writing =>
        /\ pc[c] \in {"lock", "backup", "validate"} => mine[c] = {}
        /\ \A p \in Paths : disk[p] \in mine[c] => p \in Touched(job[c])
        /\ \A d \in Chats, p \in Paths : pc[d] \in BackedUp => backup[d][p] \notin mine[c]

\* A backup holds nothing but what the call may touch.
BackupOfTouched ==
    \A c \in Chats : pc[c] \in BackedUp =>
        \A p \in Paths \ Touched(job[c]) : backup[c][p] = Gone

\* present is the overlay of _validate_operations: the files that exist behind
\* each operation.
Overlay(ops, present) ==
    \A i \in 1 .. Len(ops) :
        Fits(ops[i], present[i - 1]) /\ present[i] = After(ops[i], present[i - 1])

\* While nothing has gone wrong, the files a validated call expects are there.
OverlayHolds ==
    \A c \in Chats : pc[c] = "apply" /\ faults = 0 =>
        \E present \in [0 .. Len(job[c]) -> SUBSET Paths] :
            /\ Overlay(job[c], present)
            /\ \A p \in present[next[c] - 1] \cap Touched(job[c]) : disk[p] # Gone

FilesKept ==
    /\ CallsInHand /\ PathsLocked /\ StampsGiven /\ OwnPathsOnly /\ BackupOfTouched
    /\ OverlayHolds

-----------------------------------------------------------------------------
(* What a call is made of: operations on paths.                            *)
LEMMA CallShape ==
    ASSUME NEW ops \in Calls
    PROVE  /\ Len(ops) \in Nat \ {0} /\ DOMAIN ops = 1 .. Len(ops)
           /\ \A i \in 1 .. Len(ops) :
                 /\ ops[i] \in [kind : Kinds, path : Paths, to : Paths]
                 /\ ops[i].path \in Touched(ops) /\ ops[i].to \in Touched(ops)
                 /\ ops[i].kind # "move" => ops[i].to = ops[i].path
           /\ Touched(ops) \subseteq Paths
<1>1. ops # <<>> /\ ops \in Seq([kind : Kinds, path : Paths, to : Paths])
  BY CallsAssumption DEF Parsed
<1>2. /\ Len(ops) \in Nat \ {0} /\ DOMAIN ops = 1 .. Len(ops)
      /\ \A i \in 1 .. Len(ops) : ops[i] \in [kind : Kinds, path : Paths, to : Paths]
  BY <1>1, EmptySeq, ElementOfSeq, LenProperties
<1>3. \A i \in 1 .. Len(ops) : ops[i].kind # "move" => ops[i].to = ops[i].path
  BY <1>2, CallsAssumption DEF Parsed
<1>4. \A i \in 1 .. Len(ops) : ops[i].path \in Touched(ops) /\ ops[i].to \in Touched(ops)
  BY <1>2 DEF Touched
<1>5. Touched(ops) \subseteq Paths
  BY <1>2 DEF Touched
<1> QED BY <1>2, <1>3, <1>4, <1>5

(* The initial states.                                                     *)
LEMMA FileStarts == FileInit => FileTypeOK /\ FilesKept
<1> SUFFICES ASSUME FileInit PROVE FileTypeOK /\ FilesKept
  OBVIOUS
<1> USE FileAssumption
<1>1. FileTypeOK
  <2>1. disk \in [Paths -> Files] /\ clock \in Files
    BY DEF FileInit, Files, Gone
  <2>2. reads \in [Chats -> [Paths -> [mtime : Files, ts : Files, partial : BOOLEAN]]]
    BY DEF FileInit, Files, Gone, NoStamp
  <2>3. lastWriter \in [Paths -> [chat : Chats \cup {Outside}, ts : Files]]
    BY DEF FileInit, Files, NoWriter
  <2>4. /\ locks \in [Paths -> Chats \cup {Outside}]
        /\ pc \in [Chats -> {"idle", "read", "lock", "backup", "validate", "apply", "finish"}]
        /\ job \in [Chats -> Calls \cup {<<>>}] /\ next \in [Chats -> Nat \ {0}]
    BY DEF FileInit
  <2>5. \A c \in Chats : next[c] <= Len(job[c]) + 1
    BY DEF FileInit
  <2>6. view \in [Chats -> Views] /\ stray \in [Chats -> Views]
    BY DEF FileInit, Views, None, Files, Gone
  <2>7. /\ warned \in [Chats -> BOOLEAN] /\ failed \in [Chats -> BOOLEAN]
        /\ unrestored \in [Chats -> SUBSET Paths]
        /\ backup \in [Chats -> [Paths -> Files]] /\ seen \in [Chats -> [Paths -> Files]]
        /\ author \in [Stamps -> Chats \cup {Outside}] /\ mine \in [Chats -> SUBSET Stamps]
        /\ calls \in [Chats -> 0 .. MaxCalls] /\ faults \in 0 .. MaxFaults
    BY DEF FileInit, Files, Gone
  <2> QED BY <2>1, <2>2, <2>3, <2>4, <2>5, <2>6, <2>7 DEF FileTypeOK
<1>2. \A c \in Chats : pc[c] = "idle" /\ mine[c] = {} /\ stray[c] = None
  BY DEF FileInit
<1>3. CallsInHand
  BY <1>2 DEF CallsInHand, Writing
<1>4. PathsLocked
  BY <1>2 DEF PathsLocked, Locked
<1>5. StampsGiven
  <2>1. clock = 1 /\ \A p \in Paths : disk[p] \in {0, 1}
    BY DEF FileInit, Gone
  <2>2. \A c \in Chats : mine[c] = {}
    BY DEF FileInit
  <2>3. \A c \in Chats, p \in Paths : backup[c][p] = 0
    BY DEF FileInit, Gone
  <2> QED BY ONLY <2>1, <2>2, <2>3 DEF StampsGiven
<1>6. OwnPathsOnly
  BY <1>2 DEF OwnPathsOnly, Writing
<1>7. BackupOfTouched
  BY <1>2 DEF BackupOfTouched, BackedUp
<1>8. OverlayHolds
  BY <1>2 DEF OverlayHolds
<1> QED BY <1>1, <1>3, <1>4, <1>5, <1>6, <1>7, <1>8 DEF FilesKept

(* One operation of a patch: its file is written, left, deleted or moved,  *)
(* and nothing outside the operation's paths changes. It fails by a fault, *)
(* or because the file is not there.                                       *)
Operates(c, op) ==
    \/ /\ clock < MaxClock /\ clock' = clock + 1
       /\ disk' = [disk EXCEPT ![op.path] = clock + 1]
       /\ author' = [author EXCEPT ![clock + 1] = c]
       /\ mine' = [mine EXCEPT ![c] = @ \cup {clock + 1}]
       /\ op.kind \notin {"delete", "move"}
    \/ UNCHANGED <<clock, disk, author, mine>>
    \/ /\ UNCHANGED <<clock, author, mine>> /\ disk[op.path] # Gone
       /\ op.kind = "delete" /\ disk' = [disk EXCEPT ![op.path] = Gone]
    \/ /\ UNCHANGED <<clock, author, mine>> /\ disk[op.path] # Gone
       /\ op.kind = "move"
       /\ disk' = [disk EXCEPT ![op.to] = disk[op.path], ![op.path] = Gone]

OperationEnds(c, op) ==
    \/ /\ UNCHANGED <<failed, faults>>
       /\ op.kind = "move" => disk' = [disk EXCEPT ![op.to] = disk[op.path], ![op.path] = Gone]
    \/ /\ failed' = [failed EXCEPT ![c] = TRUE]
       /\ faults' = faults + 1 /\ faults < MaxFaults
    \/ /\ failed' = [failed EXCEPT ![c] = TRUE] /\ UNCHANGED faults
       /\ disk[op.path] = Gone /\ op.kind \in {"update", "delete", "move"} /\ UNCHANGED disk

LEMMA Applying ==
    ASSUME FileTypeOK, CallsInHand, NEW c \in Chats, ApplyOp(c)
    PROVE  /\ job[c] \in Calls /\ next[c] \in 1 .. Len(job[c])
           /\ Operates(c, job[c][next[c]]) /\ OperationEnds(c, job[c][next[c]])
<1>1. job[c] \in Calls /\ next[c] \in 1 .. Len(job[c])
  BY CallShape DEF FileTypeOK, CallsInHand, Writing, ApplyOp
<1>2. PICK op \in [kind : Kinds, path : Paths, to : Paths] : op = job[c][next[c]]
  BY <1>1, CallShape
<1>3. CASE op.kind \in {"put", "add"}
  <2>1. Write(c, op)
    BY <1>2, <1>3 DEF ApplyOp, Put
  <2> QED BY <1>1, <1>2, <1>3, <2>1 DEF Write, Written, Untouched, Tick, Operates, OperationEnds
<1>4. CASE op.kind = "edit"
  <2>1. Edit(c, op)
    BY <1>2, <1>4 DEF ApplyOp
  <2> QED BY <1>1, <1>2, <1>4, <2>1
          DEF Edit, Write, Written, Untouched, Tick, Operates, OperationEnds
<1>5. CASE op.kind = "update"
  <2>1. Update(c, op)
    BY <1>2, <1>5 DEF ApplyOp
  <2> QED BY <1>1, <1>2, <1>5, <2>1
          DEF Update, Write, Written, Untouched, Tick, Operates, OperationEnds
<1>6. CASE op.kind = "delete"
  <2>1. Relocate(c, op)
    BY <1>2, <1>6 DEF ApplyOp
  <2> QED BY <1>1, <1>2, <1>6, <2>1 DEF Relocate, Deleted, Operates, OperationEnds
<1>7. CASE op.kind = "move"
  <2>1. Relocate(c, op)
    BY <1>2, <1>7 DEF ApplyOp
  <2> QED BY <1>1, <1>2, <1>7, <2>1 DEF Relocate, Moved, Operates, OperationEnds
<1> QED BY <1>2, <1>3, <1>4, <1>5, <1>6, <1>7 DEF Kinds

-----------------------------------------------------------------------------
(* Types, and the calls in hand.                                           *)
LEMMA RecordTypes ==
    ASSUME FileTypeOK, NEW c \in Chats, NEW v \in Views, v.path \in Paths, RecordRead(c, v)
    PROVE  /\ clock' \in Files /\ clock <= clock'
           /\ reads' \in [Chats -> [Paths -> [mtime : Files, ts : Files, partial : BOOLEAN]]]
<1> USE FileAssumption
<1>1. CASE UNCHANGED <<clock, reads>>
  BY <1>1 DEF FileTypeOK, Files
<1>2. CASE /\ Tick
           /\ reads' = [reads EXCEPT ![c][v.path] =
                [mtime |-> disk[v.path], ts |-> clock + 1, partial |-> v.partial]]
  <2>1. clock' \in Files /\ clock <= clock' /\ clock + 1 \in Files
    BY <1>2 DEF FileTypeOK, Files, Tick
  <2>2. [mtime |-> disk[v.path], ts |-> clock + 1, partial |-> v.partial]
            \in [mtime : Files, ts : Files, partial : BOOLEAN]
    BY <2>1 DEF FileTypeOK, Views
  <2>3. [reads[c] EXCEPT ![v.path] =
            [mtime |-> disk[v.path], ts |-> clock + 1, partial |-> v.partial]]
            \in [Paths -> [mtime : Files, ts : Files, partial : BOOLEAN]]
    BY <2>2 DEF FileTypeOK
  <2>4. reads' = [reads EXCEPT ![c] = [reads[c] EXCEPT ![v.path] =
            [mtime |-> disk[v.path], ts |-> clock + 1, partial |-> v.partial]]]
    BY <1>2
  <2>5. reads' \in [Chats -> [Paths -> [mtime : Files, ts : Files, partial : BOOLEAN]]]
    BY <2>3, <2>4 DEF FileTypeOK
  <2> QED BY <2>1, <2>5
<1> QED BY <1>1, <1>2 DEF RecordRead

(* Reading: nothing of the calls that write changes.                       *)
Reading ==
    /\ UNCHANGED <<disk, locks, job, next, backup, mine, failed>>
    /\ clock' \in Files /\ clock <= clock' /\ faults <= faults'
    /\ \A c \in Chats : pc'[c] = pc[c] \/ {pc[c], pc'[c]} \subseteq {"idle", "read"}

LEMMA ReadBytesStep ==
    ASSUME FileTypeOK, CallsInHand, NEW c \in Chats, NEW p \in Paths, NEW partial \in BOOLEAN,
           ReadBytes(c, p, partial)
    PROVE  FileTypeOK' /\ CallsInHand' /\ Reading
<1> USE FileAssumption DEF ReadBytes, registry, callVars
<1>1. view' \in [Chats -> Views] /\ view'[c].path \in Paths
  BY DEF FileTypeOK, Views
<1>2. calls' \in [Chats -> 0 .. MaxCalls]
  BY DEF FileTypeOK
<1>3. /\ pc' \in [Chats -> {"idle", "read", "lock", "backup", "validate", "apply", "finish"}]
      /\ pc[c] = "idle" /\ pc'[c] = "read" /\ \A d \in Chats : d # c => pc'[d] = pc[d] /\ view'[d] = view[d]
  BY DEF FileTypeOK
<1>4. FileTypeOK'
  BY <1>1, <1>2, <1>3 DEF FileTypeOK
<1>5. CallsInHand'
  BY <1>1, <1>3 DEF CallsInHand, Writing
<1>6. Reading
  BY <1>3 DEF Reading, FileTypeOK, Files
<1> QED BY <1>4, <1>5, <1>6

LEMMA ReadEndsStep ==
    ASSUME FileTypeOK, CallsInHand, NEW c \in Chats, ReadEnds(c)
    PROVE  FileTypeOK' /\ CallsInHand' /\ Reading
<1> USE FileAssumption DEF ReadEnds, callVars
<1>1. view[c] \in Views /\ view[c].path \in Paths
  BY DEF FileTypeOK, CallsInHand
<1>2. /\ clock' \in Files /\ clock <= clock'
      /\ reads' \in [Chats -> [Paths -> [mtime : Files, ts : Files, partial : BOOLEAN]]]
  BY <1>1, RecordTypes
<1>3. seen' \in [Chats -> [Paths -> Files]]
  <2>1. CASE view[c].partial
    BY <2>1 DEF FileTypeOK
  <2>2. CASE ~view[c].partial
    <3>1. [seen[c] EXCEPT ![view[c].path] = view[c].bytes] \in [Paths -> Files]
      BY <1>1 DEF FileTypeOK, Views
    <3>2. seen' = [seen EXCEPT ![c] = [seen[c] EXCEPT ![view[c].path] = view[c].bytes]]
      BY <2>2
    <3> QED BY <3>1, <3>2 DEF FileTypeOK
  <2> QED BY <2>1, <2>2
<1>4. view' \in [Chats -> Views]
  BY DEF FileTypeOK, Views, None, Files, Gone
<1>5. /\ pc' \in [Chats -> {"idle", "read", "lock", "backup", "validate", "apply", "finish"}]
      /\ pc[c] = "read" /\ pc'[c] = "idle" /\ \A d \in Chats : d # c => pc'[d] = pc[d] /\ view'[d] = view[d]
  BY DEF FileTypeOK
<1>6. FileTypeOK'
  BY <1>2, <1>3, <1>4, <1>5 DEF FileTypeOK
<1>7. CallsInHand'
  BY <1>5 DEF CallsInHand, Writing
<1>8. Reading
  BY <1>2, <1>5 DEF Reading, FileTypeOK
<1> QED BY <1>6, <1>7, <1>8

LEMMA ReadStoppedStep ==
    ASSUME FileTypeOK, CallsInHand, NEW c \in Chats, ReadStopped(c)
    PROVE  FileTypeOK' /\ CallsInHand' /\ Reading
<1> USE FileAssumption DEF ReadStopped, registry, callVars
<1>1. view' \in [Chats -> Views] /\ stray' \in [Chats -> Views]
  BY DEF FileTypeOK, Views, None, Files, Gone
<1>2. faults' \in 0 .. MaxFaults /\ faults <= faults'
  BY DEF FileTypeOK
<1>3. /\ pc' \in [Chats -> {"idle", "read", "lock", "backup", "validate", "apply", "finish"}]
      /\ pc[c] = "read" /\ pc'[c] = "idle" /\ stray'[c] = view[c]
      /\ \A d \in Chats : d # c => pc'[d] = pc[d] /\ view'[d] = view[d] /\ stray'[d] = stray[d]
  BY DEF FileTypeOK
<1>4. FileTypeOK'
  BY <1>1, <1>2, <1>3 DEF FileTypeOK
<1>5. CallsInHand'
  BY <1>3 DEF CallsInHand, Writing
<1>6. Reading
  BY <1>2, <1>3 DEF Reading, FileTypeOK, Files
<1> QED BY <1>4, <1>5, <1>6

LEMMA StrayReadEndsStep ==
    ASSUME FileTypeOK, CallsInHand, NEW c \in Chats, StrayReadEnds(c)
    PROVE  FileTypeOK' /\ CallsInHand' /\ Reading
<1> USE FileAssumption DEF StrayReadEnds, callVars
<1>1. stray[c] \in Views /\ stray[c].path \in Paths
  BY DEF FileTypeOK, CallsInHand
<1>2. /\ clock' \in Files /\ clock <= clock'
      /\ reads' \in [Chats -> [Paths -> [mtime : Files, ts : Files, partial : BOOLEAN]]]
  BY <1>1, RecordTypes
<1>3. /\ stray' \in [Chats -> Views] /\ stray'[c] = None
      /\ \A d \in Chats : d # c => stray'[d] = stray[d]
  BY DEF FileTypeOK, Views, None, Files, Gone
<1>4. FileTypeOK'
  BY <1>2, <1>3 DEF FileTypeOK
<1>5. CallsInHand'
  BY <1>3 DEF CallsInHand, Writing
<1>6. Reading
  BY <1>2 DEF Reading, FileTypeOK
<1> QED BY <1>4, <1>5, <1>6

(* Reading leaves the rest of the invariant as it is.                      *)
LEMMA ReadingKeeps ==
    ASSUME FileTypeOK, FilesKept, CallsInHand', Reading
    PROVE  FilesKept'
<1> USE DEF Reading
<1>0. \A c \in Chats : /\ pc'[c] \in Writing => pc'[c] = pc[c]
                       /\ pc'[c] \in Locked => pc'[c] = pc[c]
                       /\ pc'[c] \in BackedUp => pc'[c] = pc[c]
                       /\ pc'[c] = "apply" => pc'[c] = pc[c]
  BY DEF Writing, Locked, BackedUp
<1>1. PathsLocked'
  BY <1>0 DEF FilesKept, PathsLocked
<1>2. StampsGiven'
  <2>1. \A p \in Paths : disk'[p] <= clock'
    BY DEF FilesKept, StampsGiven, FileTypeOK, Files
  <2>2. \A c \in Chats, p \in Paths : backup'[c][p] <= clock'
    BY DEF FilesKept, StampsGiven, FileTypeOK, Files
  <2>3. \A c \in Chats : mine'[c] \subseteq 1 .. clock'
    BY DEF FilesKept, StampsGiven, FileTypeOK, Files
  <2> QED BY <2>1, <2>2, <2>3 DEF StampsGiven
<1>3. OwnPathsOnly'
  BY <1>0 DEF FilesKept, OwnPathsOnly
<1>4. BackupOfTouched'
  BY <1>0 DEF FilesKept, BackupOfTouched
<1>5. OverlayHolds'
  <2> SUFFICES ASSUME NEW c \in Chats, pc'[c] = "apply", faults' = 0
               PROVE  \E present \in [0 .. Len(job[c]) -> SUBSET Paths] :
                        /\ Overlay(job[c], present)
                        /\ \A p \in present[next[c] - 1] \cap Touched(job[c]) : disk[p] # Gone
    BY DEF OverlayHolds
  <2>1. pc[c] = "apply" /\ faults = 0
    BY <1>0, FileAssumption DEF FileTypeOK
  <2> QED BY <2>1 DEF FilesKept, OverlayHolds
<1> QED BY <1>1, <1>2, <1>3, <1>4, <1>5 DEF FilesKept

\* A set of natural numbers has a least element.
LEMMA LeastNumber ==
  ASSUME NEW S \in SUBSET Nat, S # {}
  PROVE  \E n \in S : \A m \in S : ~(m < n)
<1> DEFINE R == OpToRel(<, Nat)
<1>1. IsWellFoundedOn(R, Nat)
  BY NatLessThanWellFounded, Zenon
<1>2. \A x, y \in Nat : x < y => <<x, y>> \in R
  BY DEF OpToRel
<1> HIDE DEF R
<1>3. \E x \in S : \A y \in S : ~(<<y, x>> \in R)
  BY <1>1, WFMin
<1> QED BY <1>2, <1>3

-----------------------------------------------------------------------------
(* The overlay of a validation                                             *)

\* The overlay is defined for a patch of any length: a shortest prefix without
\* one would extend the overlay of the prefix before it.
LEMMA PresentDefined ==
  ASSUME NEW ops, Len(ops) \in Nat
  PROVE  Present(ops) = [i \in 0 .. Len(ops) |->
             IF i = 0 THEN {p \in Paths : disk[p] # Gone} ELSE After(ops[i], Present(ops)[i - 1])]
<1> DEFINE w == {p \in Paths : disk[p] # Gone}
           Def(g, i) == IF i = 0 THEN w ELSE After(ops[i], g[i - 1])
           Solves(g, n) == g = [i \in 0 .. n |-> Def(g, i)]
           Bad == {n \in Nat : ~ \E g : Solves(g, n)}
<1>1. Bad = {}
  <2> SUFFICES ASSUME Bad # {} PROVE FALSE
    OBVIOUS
  <2>1. PICK n \in Bad : \A m \in Bad : ~(m < n)
    BY LeastNumber
  <2> HIDE DEF w
  <2>2. CASE n = 0
    <3> DEFINE g == [i \in 0 .. 0 |-> w]
    <3>1. Solves(g, 0)
      OBVIOUS
    <3> HIDE DEF g
    <3> QED BY <2>1, <2>2, <3>1
  <2>3. CASE n # 0
    <3>1. n \in Nat /\ n - 1 \in Nat /\ n - 1 < n
      BY <2>1, <2>3
    <3>2. PICK h : Solves(h, n - 1)
      BY <2>1, <3>1
    <3> DEFINE g == [i \in 0 .. n |-> Def(h, i)]
    <3>3. \A i \in 0 .. (n - 1) : g[i] = h[i]
      BY <3>1, <3>2
    <3>4. Solves(g, n)
      <4>1. \A i \in 0 .. n : Def(h, i) = Def(g, i)
        <5> SUFFICES ASSUME NEW i \in 0 .. n PROVE Def(h, i) = Def(g, i)
          OBVIOUS
        <5>1. CASE i = 0
          BY <5>1
        <5>2. CASE i # 0
          <6>1. i - 1 \in 0 .. (n - 1)
            BY <3>1, <5>2
          <6>2. h[i - 1] = g[i - 1]
            BY <3>3, <6>1
          <6> HIDE DEF g
          <6> QED BY <5>2, <6>2
        <5> QED BY <5>1, <5>2
      <4>2. g = [i \in 0 .. n |-> Def(h, i)]
        OBVIOUS
      <4> HIDE DEF g, Def
      <4> QED BY <4>1, <4>2
    <3> HIDE DEF g, Solves
    <3> QED BY <2>1, <3>4
  <2> QED BY <2>2, <2>3
<1>2. \E g : Solves(g, Len(ops))
  BY <1>1
<1>3. Present(ops) = CHOOSE g : Solves(g, Len(ops))
  BY DEF Present
<1>4. Solves(Present(ops), Len(ops))
  <2> HIDE DEF Solves
  <2> QED BY <1>2, <1>3
<1> QED BY <1>4

\* It is a set of paths behind each operation, and a patch that was validated
\* fits it.
LEMMA OverlayOfValidated ==
  ASSUME NEW ops \in Calls, Validated(ops)
  PROVE  /\ Present(ops) \in [0 .. Len(ops) -> SUBSET Paths]
         /\ Overlay(ops, Present(ops))
         /\ Present(ops)[0] = {p \in Paths : disk[p] # Gone}
<1> DEFINE present == Present(ops)
<1>1. /\ Len(ops) \in Nat \ {0} /\ DOMAIN ops = 1 .. Len(ops)
      /\ \A i \in 1 .. Len(ops) : ops[i] \in [kind : Kinds, path : Paths, to : Paths]
  BY CallShape
<1>2. present = [i \in 0 .. Len(ops) |->
          IF i = 0 THEN {p \in Paths : disk[p] # Gone} ELSE After(ops[i], present[i - 1])]
  BY <1>1, PresentDefined
<1>3. \A i \in 1 .. Len(ops) : Fits(ops[i], present[i - 1])
  BY <1>1 DEF Validated
<1> HIDE DEF present
<1>4. present[0] = {p \in Paths : disk[p] # Gone}
  BY <1>1, <1>2
<1>5. \A i \in 1 .. Len(ops) : present[i] = After(ops[i], present[i - 1])
  <2> SUFFICES ASSUME NEW i \in 1 .. Len(ops) PROVE present[i] = After(ops[i], present[i - 1])
    OBVIOUS
  <2>1. i \in 0 .. Len(ops) /\ i # 0
    BY <1>1
  <2> QED BY <1>2, <2>1, Zenon
<1> DEFINE Bad == {n \in 0 .. Len(ops) : present[n] \notin SUBSET Paths}
<1>6. Bad = {}
  <2> SUFFICES ASSUME Bad # {} PROVE FALSE
    OBVIOUS
  <2>1. Bad \in SUBSET Nat
    BY <1>1
  <2>2. PICK n \in Bad : \A m \in Bad : ~(m < n)
    BY <2>1, LeastNumber
  <2>3. n # 0
    BY <1>1, <1>4, <2>2
  <2>4. n - 1 \in 0 .. Len(ops) /\ n - 1 < n /\ n \in 1 .. Len(ops)
    BY <1>1, <2>2, <2>3
  <2>5. present[n - 1] \in SUBSET Paths
    BY <2>2, <2>4
  <2>6. After(ops[n], present[n - 1]) \in SUBSET Paths
    BY <1>1, <2>4, <2>5 DEF After
  <2> QED BY <1>5, <2>2, <2>4, <2>6
<1>7. present \in [0 .. Len(ops) -> SUBSET Paths]
  BY <1>2, <1>6
<1>8. Overlay(ops, present)
  BY <1>3, <1>5 DEF Overlay
<1> QED BY <1>4, <1>7, <1>8 DEF present

-----------------------------------------------------------------------------
(* The steps of a call up to its first operation: no file changes.         *)

LEMMA StartCallStep ==
    ASSUME FileTypeOK, FilesKept, NEW c \in Chats, NEW ops \in Calls, StartCall(c, ops)
    PROVE  FileTypeOK' /\ FilesKept'
<1> USE FileAssumption DEF StartCall, registry, callVars
<1>0. Len(ops) \in Nat \ {0}
  BY CallShape
<1>1. /\ pc' \in [Chats -> {"idle", "read", "lock", "backup", "validate", "apply", "finish"}]
      /\ job' \in [Chats -> Calls \cup {<<>>}] /\ next' \in [Chats -> Nat \ {0}]
      /\ mine' \in [Chats -> SUBSET Stamps] /\ calls' \in [Chats -> 0 .. MaxCalls]
      /\ warned' \in [Chats -> BOOLEAN] /\ failed' \in [Chats -> BOOLEAN]
      /\ unrestored' \in [Chats -> SUBSET Paths]
  BY DEF FileTypeOK
<1>2. /\ pc'[c] = "lock" /\ job'[c] = ops /\ next'[c] = 1 /\ mine'[c] = {}
      /\ \A d \in Chats : d # c =>
            pc'[d] = pc[d] /\ job'[d] = job[d] /\ next'[d] = next[d] /\ mine'[d] = mine[d]
  BY DEF FileTypeOK
<1>3. FileTypeOK'
  <2>1. \A d \in Chats : next'[d] <= Len(job'[d]) + 1
    BY <1>0, <1>2 DEF FileTypeOK
  <2> QED BY <1>1, <2>1 DEF FileTypeOK
<1>4. CallsInHand'
  BY <1>0, <1>2 DEF FilesKept, CallsInHand, Writing
<1>5. PathsLocked'
  BY <1>2 DEF FilesKept, PathsLocked, Locked
<1>6. StampsGiven'
  BY <1>2 DEF FilesKept, StampsGiven
<1>7. OwnPathsOnly'
  BY <1>2 DEF FilesKept, OwnPathsOnly, Writing, BackedUp
<1>8. BackupOfTouched'
  BY <1>2 DEF FilesKept, BackupOfTouched, BackedUp
<1>9. OverlayHolds'
  BY <1>2 DEF FilesKept, OverlayHolds
<1> QED BY <1>3, <1>4, <1>5, <1>6, <1>7, <1>8, <1>9 DEF FilesKept

\* A lock is taken that was nobody's.
LEMMA TakeLockStep ==
    ASSUME FileTypeOK, FilesKept, NEW c \in Chats, TakeLock(c)
    PROVE  FileTypeOK' /\ FilesKept'
<1> USE FileAssumption DEF TakeLock, registry, callVars
<1>1. PICK l : locks[l] = Outside /\ locks' = [locks EXCEPT ![l] = c]
  OBVIOUS
<1>2. FileTypeOK'
  <2>1. locks' \in [Paths -> Chats \cup {Outside}]
    BY <1>1 DEF FileTypeOK
  <2> QED BY <2>1 DEF FileTypeOK
<1>3. PathsLocked'
  <2> SUFFICES ASSUME NEW d \in Chats, pc[d] \in Locked, NEW p \in Touched(job[d])
               PROVE  locks'[p] = d
    BY DEF PathsLocked
  <2>1. locks[p] = d
    BY DEF FilesKept, PathsLocked
  <2>2. job[d] \in Calls
    BY DEF FilesKept, CallsInHand, Locked, Writing
  <2>3. p \in Paths
    BY <2>2, CallShape
  <2> QED BY <1>1, <2>1, <2>3 DEF FileTypeOK
<1>4. CallsInHand' /\ StampsGiven' /\ OwnPathsOnly' /\ BackupOfTouched' /\ OverlayHolds'
  BY DEF FilesKept, CallsInHand, StampsGiven, OwnPathsOnly, BackupOfTouched, OverlayHolds
<1> QED BY <1>2, <1>3, <1>4 DEF FilesKept

LEMMA CheckStep ==
    ASSUME FileTypeOK, FilesKept, NEW c \in Chats, Check(c)
    PROVE  FileTypeOK' /\ FilesKept'
<1> USE FileAssumption DEF Check, registry
<1>1. /\ pc[c] = "lock" /\ pc'[c] = "backup" /\ \A d \in Chats : d # c => pc'[d] = pc[d]
      /\ pc' \in [Chats -> {"idle", "read", "lock", "backup", "validate", "apply", "finish"}]
  BY DEF FileTypeOK
<1>2. FileTypeOK'
  <2>1. warned' \in [Chats -> BOOLEAN]
    BY DEF FileTypeOK
  <2> QED BY <1>1, <2>1 DEF FileTypeOK
<1>3. PathsLocked'
  <2> SUFFICES ASSUME NEW d \in Chats, pc'[d] \in Locked, NEW p \in Touched(job[d])
               PROVE  locks[p] = d
    BY DEF PathsLocked
  <2>1. CASE d = c
    BY <2>1 DEF Missing
  <2>2. CASE d # c
    BY <1>1, <2>2 DEF FilesKept, PathsLocked
  <2> QED BY <2>1, <2>2
<1>4. CallsInHand'
  BY <1>1 DEF FilesKept, CallsInHand, Writing
<1>5. StampsGiven'
  BY DEF FilesKept, StampsGiven
<1>6. OwnPathsOnly'
  BY <1>1 DEF FilesKept, OwnPathsOnly, Writing, BackedUp
<1>7. BackupOfTouched'
  BY <1>1 DEF FilesKept, BackupOfTouched, BackedUp
<1>8. OverlayHolds'
  BY <1>1 DEF FilesKept, OverlayHolds
<1> QED BY <1>2, <1>3, <1>4, <1>5, <1>6, <1>7, <1>8 DEF FilesKept

\* What two calls may touch is apart while both hold their locks.
LEMMA TouchedApart ==
    ASSUME FilesKept, NEW c \in Chats, NEW d \in Chats, c # d,
           pc[c] \in Locked, pc[d] \in Locked
    PROVE  Touched(job[c]) \cap Touched(job[d]) = {}
  BY DEF FilesKept, PathsLocked

\* A call that has written something has its locks and its backup.
LEMMA WriterIsLocked ==
    ASSUME FilesKept, NEW c \in Chats, pc[c] \in Writing, mine[c] # {}
    PROVE  pc[c] \in {"apply", "finish"}
  BY DEF FilesKept, OwnPathsOnly, Writing

LEMMA TakeBackupsStep ==
    ASSUME FileTypeOK, FilesKept, NEW c \in Chats, TakeBackups(c)
    PROVE  FileTypeOK' /\ FilesKept'
<1> USE FileAssumption DEF TakeBackups, registry
<1>1. /\ pc[c] = "backup" /\ pc'[c] = "validate" /\ \A d \in Chats : d # c => pc'[d] = pc[d]
      /\ pc' \in [Chats -> {"idle", "read", "lock", "backup", "validate", "apply", "finish"}]
  BY DEF FileTypeOK
<1>2. /\ backup' \in [Chats -> [Paths -> Files]]
      /\ backup'[c] = [p \in Paths |-> IF p \in Touched(job[c]) THEN disk[p] ELSE Gone]
      /\ \A d \in Chats : d # c => backup'[d] = backup[d]
  BY DEF FileTypeOK, Files, Gone
<1>3. FileTypeOK'
  BY <1>1, <1>2 DEF FileTypeOK
<1>4. PathsLocked'
  BY <1>1 DEF FilesKept, PathsLocked, Locked
<1>5. CallsInHand'
  BY <1>1 DEF FilesKept, CallsInHand, Writing
<1>6. StampsGiven'
  <2>1. \A p \in Paths : Gone <= clock /\ disk[p] <= clock
    BY DEF FilesKept, StampsGiven, Gone, FileTypeOK, Files
  <2>2. \A d \in Chats, p \in Paths : backup'[d][p] <= clock
    BY <1>2, <2>1 DEF FilesKept, StampsGiven
  <2> QED BY <2>1, <2>2 DEF FilesKept, StampsGiven
<1>7. OwnPathsOnly'
  <2> SUFFICES ASSUME NEW d \in Chats, pc'[d] \in Writing
               PROVE  /\ pc'[d] \in {"lock", "backup", "validate"} => mine[d] = {}
                      /\ \A p \in Paths : disk[p] \in mine[d] => p \in Touched(job[d])
                      /\ \A e \in Chats, p \in Paths : pc'[e] \in BackedUp => backup'[e][p] \notin mine[d]
    BY DEF OwnPathsOnly
  <2>1. pc[d] \in Writing
    BY <1>1 DEF Writing
  <2>2. /\ pc'[d] \in {"lock", "backup", "validate"} => mine[d] = {}
        /\ \A p \in Paths : disk[p] \in mine[d] => p \in Touched(job[d])
    BY <1>1, <2>1 DEF FilesKept, OwnPathsOnly
  <2>3. ASSUME NEW e \in Chats, NEW p \in Paths, pc'[e] \in BackedUp, e # c
        PROVE  backup'[e][p] \notin mine[d]
    BY <1>1, <1>2, <2>1, <2>3 DEF FilesKept, OwnPathsOnly
  <2>4. ASSUME NEW p \in Paths, backup'[c][p] \in mine[d]
        PROVE  FALSE
    <3>1. p \in Touched(job[c]) /\ disk[p] \in mine[d]
      <4>1. Gone \notin mine[d]
        BY DEF FileTypeOK, Stamps, Gone
      <4> QED BY <1>2, <2>4, <4>1
    <3>2. pc[d] \in {"apply", "finish"}
      BY <2>1, <3>1, WriterIsLocked
    <3>3. p \in Touched(job[d])
      BY <2>2, <3>1
    <3> QED BY <1>1, <3>1, <3>2, <3>3, TouchedApart DEF Locked
  <2> QED BY <2>2, <2>3, <2>4
<1>8. BackupOfTouched'
  BY <1>1, <1>2 DEF FilesKept, BackupOfTouched, BackedUp
<1>9. OverlayHolds'
  BY <1>1 DEF FilesKept, OverlayHolds
<1> QED BY <1>3, <1>4, <1>5, <1>6, <1>7, <1>8, <1>9 DEF FilesKept

LEMMA ValidateStep ==
    ASSUME FileTypeOK, FilesKept, NEW c \in Chats, Validate(c)
    PROVE  FileTypeOK' /\ FilesKept'
<1> USE FileAssumption DEF Validate, registry
<1>1. /\ pc[c] = "validate" /\ pc'[c] \in {"finish", "apply"}
      /\ pc'[c] = "apply" => Validated(job[c])
      /\ \A d \in Chats : d # c => pc'[d] = pc[d]
      /\ pc' \in [Chats -> {"idle", "read", "lock", "backup", "validate", "apply", "finish"}]
  BY DEF FileTypeOK
<1>2. job[c] \in Calls /\ next[c] = 1 /\ mine[c] = {}
  BY <1>1 DEF FilesKept, CallsInHand, OwnPathsOnly, Writing
<1>3. FileTypeOK'
  <2>1. failed' \in [Chats -> BOOLEAN]
    BY DEF FileTypeOK, Matches
  <2> QED BY <1>1, <2>1 DEF FileTypeOK
<1>4. PathsLocked'
  BY <1>1 DEF FilesKept, PathsLocked, Locked
<1>5. CallsInHand'
  BY <1>1 DEF FilesKept, CallsInHand, Writing
<1>6. StampsGiven'
  BY DEF FilesKept, StampsGiven
<1>7. OwnPathsOnly'
  BY <1>1, <1>2 DEF FilesKept, OwnPathsOnly, Writing, BackedUp
<1>8. BackupOfTouched'
  BY <1>1 DEF FilesKept, BackupOfTouched, BackedUp
<1>9. OverlayHolds'
  <2> SUFFICES ASSUME NEW d \in Chats, pc'[d] = "apply", faults = 0
               PROVE  \E present \in [0 .. Len(job[d]) -> SUBSET Paths] :
                        /\ Overlay(job[d], present)
                        /\ \A p \in present[next[d] - 1] \cap Touched(job[d]) : disk[p] # Gone
    BY DEF OverlayHolds
  <2>1. CASE d = c
    <3>1. Validated(job[c])
      BY <1>1, <2>1
    <3>2. /\ Present(job[c]) \in [0 .. Len(job[c]) -> SUBSET Paths]
          /\ Overlay(job[c], Present(job[c]))
          /\ Present(job[c])[0] = {p \in Paths : disk[p] # Gone}
      BY <1>2, <3>1, OverlayOfValidated
    <3> QED BY <1>2, <2>1, <3>2
  <2>2. CASE d # c
    BY <1>1, <2>2 DEF FilesKept, OverlayHolds
  <2> QED BY <2>1, <2>2
<1> QED BY <1>3, <1>4, <1>5, <1>6, <1>7, <1>8, <1>9 DEF FilesKept

-----------------------------------------------------------------------------
(* One operation of a patch                                                *)

LEMMA ApplyTypes ==
    ASSUME FileTypeOK, FilesKept, NEW c \in Chats, ApplyOp(c)
    PROVE  FileTypeOK' /\ CallsInHand' /\ PathsLocked'
<1> USE FileAssumption
<1>1. PICK op : /\ op \in [kind : Kinds, path : Paths, to : Paths]
                /\ Operates(c, op) /\ OperationEnds(c, op)
                /\ job[c] \in Calls /\ next[c] \in 1 .. Len(job[c])
  BY Applying, CallShape DEF FilesKept
<1>2. /\ pc[c] = "apply" /\ pc'[c] = (IF next[c] = Len(job[c]) THEN "finish" ELSE "apply")
      /\ next'[c] = next[c] + 1
      /\ \A d \in Chats : d # c => pc'[d] = pc[d] /\ next'[d] = next[d]
      /\ pc' \in [Chats -> {"idle", "read", "lock", "backup", "validate", "apply", "finish"}]
      /\ next' \in [Chats -> Nat \ {0}]
      /\ UNCHANGED <<locks, job, warned, backup, unrestored, reads, lastWriter, view, stray, seen,
                     calls>>
  BY <1>1 DEF ApplyOp, FileTypeOK, registry
<1>3. Len(job[c]) \in Nat
  BY <1>1, CallShape
<1>4. disk' \in [Paths -> Files] /\ clock' \in Files
  <2>1. Gone \in Files
    BY DEF Files, Gone
  <2>2. clock < MaxClock => clock + 1 \in Files
    BY DEF FileTypeOK, Files
  <2>3. CASE clock < MaxClock /\ clock' = clock + 1 /\ disk' = [disk EXCEPT ![op.path] = clock + 1]
    BY <2>2, <2>3 DEF FileTypeOK
  <2>4. CASE UNCHANGED <<clock, disk>>
    BY <2>4 DEF FileTypeOK
  <2>5. CASE UNCHANGED clock /\ disk' = [disk EXCEPT ![op.path] = Gone]
    BY <2>1, <2>5 DEF FileTypeOK
  <2>6. CASE UNCHANGED clock /\ disk' = [disk EXCEPT ![op.to] = disk[op.path], ![op.path] = Gone]
    <3>1. disk[op.path] \in Files
      BY <1>1 DEF FileTypeOK
    <3> QED BY <2>1, <2>6, <3>1 DEF FileTypeOK
  <2> QED BY <1>1, <2>3, <2>4, <2>5, <2>6 DEF Operates
<1>5. /\ author' \in [Stamps -> Chats \cup {Outside}] /\ mine' \in [Chats -> SUBSET Stamps]
  <2>1. clock < MaxClock => clock + 1 \in Stamps
    BY DEF FileTypeOK, Files, Stamps
  <2>2. CASE /\ clock < MaxClock /\ author' = [author EXCEPT ![clock + 1] = c]
             /\ mine' = [mine EXCEPT ![c] = @ \cup {clock + 1}]
    BY <2>1, <2>2 DEF FileTypeOK
  <2>3. CASE UNCHANGED <<author, mine>>
    BY <2>3 DEF FileTypeOK
  <2> QED BY <1>1, <2>2, <2>3 DEF Operates
<1>6. failed' \in [Chats -> BOOLEAN] /\ faults' \in 0 .. MaxFaults
  <2>1. failed' = failed \/ failed' = [failed EXCEPT ![c] = TRUE]
    BY <1>1 DEF OperationEnds
  <2>2. faults' = faults \/ (faults' = faults + 1 /\ faults < MaxFaults)
    BY <1>1 DEF OperationEnds
  <2>3. failed' \in [Chats -> BOOLEAN]
    BY <2>1 DEF FileTypeOK
  <2>4. faults' \in 0 .. MaxFaults
    BY <2>2 DEF FileTypeOK
  <2> QED BY <2>3, <2>4
<1>7. \A d \in Chats : next'[d] <= Len(job'[d]) + 1
  <2> SUFFICES ASSUME NEW d \in Chats PROVE next'[d] <= Len(job[d]) + 1
    BY <1>2
  <2>1. CASE d = c
    BY <1>1, <1>2, <1>3, <2>1
  <2>2. CASE d # c
    BY <1>2, <2>2 DEF FileTypeOK
  <2> QED BY <2>1, <2>2
<1>8. FileTypeOK'
  BY <1>2, <1>4, <1>5, <1>6, <1>7 DEF FileTypeOK
<1>9. CallsInHand'
  BY <1>1, <1>2, <1>3 DEF FilesKept, CallsInHand, Writing
<1>10. PathsLocked'
  BY <1>2 DEF FilesKept, PathsLocked, Locked
<1> QED BY <1>8, <1>9, <1>10

\* What an operation leaves on a path: what was there, a new stamp, nothing,
\* or what it moved there; only its own paths change.
LEMMA ApplyWrites ==
    ASSUME FileTypeOK, FilesKept, NEW c \in Chats, ApplyOp(c)
    PROVE  /\ pc[c] = "apply" /\ job[c] \in Calls
           /\ \A p \in Paths \ Touched(job[c]) : disk'[p] = disk[p]
           /\ \A p \in Touched(job[c]) : \/ disk'[p] \in {Gone, clock + 1}
                                         \/ \E q \in Touched(job[c]) : disk'[p] = disk[q]
           /\ \A d \in Chats : d # c => mine'[d] = mine[d]
           /\ mine'[c] \subseteq mine[c] \cup {clock + 1}
           /\ \/ clock' = clock /\ mine' = mine /\ \A p \in Touched(job[c]) : \/ disk'[p] = Gone
                                         \/ \E q \in Touched(job[c]) : disk'[p] = disk[q]
              \/ clock' = clock + 1
<1>1. PICK op : /\ op \in [kind : Kinds, path : Paths, to : Paths]
                /\ Operates(c, op)
                /\ op.path \in Touched(job[c]) /\ op.to \in Touched(job[c])
                /\ Touched(job[c]) \subseteq Paths
                /\ job[c] \in Calls /\ next[c] \in 1 .. Len(job[c])
  BY Applying, CallShape DEF FilesKept
<1>2. pc[c] = "apply"
  BY DEF ApplyOp
<1>3. \A p \in Paths \ Touched(job[c]) : disk'[p] = disk[p]
  BY <1>1 DEF Operates, FileTypeOK
<1>4. /\ \A d \in Chats : d # c => mine'[d] = mine[d]
      /\ mine'[c] \subseteq mine[c] \cup {clock + 1}
  BY <1>1 DEF Operates, FileTypeOK
<1>5. CASE clock' = clock + 1 /\ disk' = [disk EXCEPT ![op.path] = clock + 1]
  BY <1>1, <1>2, <1>3, <1>4, <1>5 DEF FileTypeOK
<1>6. CASE UNCHANGED <<clock, disk, author, mine>>
  BY <1>1, <1>2, <1>3, <1>4, <1>6 DEF FileTypeOK
<1>7. CASE UNCHANGED <<clock, author, mine>> /\ disk' = [disk EXCEPT ![op.path] = Gone]
  BY <1>1, <1>2, <1>3, <1>4, <1>7 DEF FileTypeOK
<1>8. CASE /\ UNCHANGED <<clock, author, mine>>
           /\ disk' = [disk EXCEPT ![op.to] = disk[op.path], ![op.path] = Gone]
  BY <1>1, <1>2, <1>3, <1>4, <1>8 DEF FileTypeOK
<1> QED BY <1>1, <1>5, <1>6, <1>7, <1>8 DEF Operates

\* While nothing has gone wrong, an operation finds its file and leaves the
\* files the next ones expect.
LEMMA ApplyFits ==
    ASSUME FileTypeOK, FilesKept, NEW c \in Chats, ApplyOp(c), faults' = 0
    PROVE  /\ failed'[c] = failed[c] /\ faults = 0
           /\ pc'[c] = "apply" => \E present \in [0 .. Len(job[c]) -> SUBSET Paths] :
                 /\ Overlay(job[c], present)
                 /\ \A p \in present[next'[c] - 1] \cap Touched(job[c]) : disk'[p] # Gone
<1> USE FileAssumption
<1>1. PICK op : /\ op \in [kind : Kinds, path : Paths, to : Paths]
                /\ Operates(c, op) /\ OperationEnds(c, op) /\ op = job[c][next[c]]
                /\ op.path \in Touched(job[c]) /\ op.to \in Touched(job[c])
                /\ Touched(job[c]) \subseteq Paths
                /\ job[c] \in Calls /\ next[c] \in 1 .. Len(job[c])
  BY Applying, CallShape DEF FilesKept
<1>2. pc[c] = "apply" /\ next'[c] = next[c] + 1
  BY DEF ApplyOp, FileTypeOK
<1>3. faults = 0 /\ faults' = faults
  BY <1>1 DEF OperationEnds, FileTypeOK
<1>4. PICK present \in [0 .. Len(job[c]) -> SUBSET Paths] :
          /\ Overlay(job[c], present)
          /\ \A p \in present[next[c] - 1] \cap Touched(job[c]) : disk[p] # Gone
  BY <1>2, <1>3 DEF FilesKept, OverlayHolds
<1>5. Len(job[c]) \in Nat /\ next[c] - 1 \in 0 .. Len(job[c]) /\ next'[c] - 1 = next[c]
  BY <1>1, <1>2, CallShape
<1>6. Fits(op, present[next[c] - 1]) /\ present[next[c]] = After(op, present[next[c] - 1])
  BY <1>1, <1>4 DEF Overlay
<1>7. op.kind \in {"edit", "update", "delete", "move"} => disk[op.path] # Gone
  BY <1>1, <1>4, <1>6 DEF Fits
<1>8. UNCHANGED <<failed, faults>>
  BY <1>1, <1>3, <1>7 DEF OperationEnds, FileTypeOK
<1>9. op.kind = "move" => disk' = [disk EXCEPT ![op.to] = disk[op.path], ![op.path] = Gone]
  BY <1>1, <1>3, <1>7, <1>8 DEF OperationEnds, FileTypeOK
<1>10. \A p \in present[next[c]] \cap Touched(job[c]) : disk'[p] # Gone
  <2>1. CASE op.kind = "move"
    <3>1. op.path # op.to /\ present[next[c]] = (present[next[c] - 1] \ {op.path}) \cup {op.to}
      BY <1>6, <2>1 DEF Fits, After
    <3>2. disk[op.path] # Gone
      BY <1>7, <2>1
    <3> QED BY <1>1, <1>4, <1>9, <2>1, <3>1, <3>2 DEF FileTypeOK
  <2>2. CASE op.kind = "delete"
    <3>1. present[next[c]] = present[next[c] - 1] \ {op.path}
      BY <1>6, <2>2 DEF After
    <3> QED BY <1>1, <1>4, <2>2, <3>1 DEF Operates, FileTypeOK
  <2>3. CASE op.kind \notin {"delete", "move"}
    <3>1. present[next[c]] = present[next[c] - 1]
      BY <1>6, <2>3 DEF After
    <3>2. clock + 1 # Gone
      BY DEF FileTypeOK, Files, Gone
    <3> QED BY <1>1, <1>4, <2>3, <3>1, <3>2 DEF Operates, FileTypeOK
  <2> QED BY <2>1, <2>2, <2>3
<1> QED BY <1>3, <1>4, <1>5, <1>8, <1>10

LEMMA ApplyStep ==
    ASSUME FileTypeOK, FilesKept, NEW c \in Chats, ApplyOp(c)
    PROVE  FileTypeOK' /\ FilesKept'
<1> USE FileAssumption
<1>1. FileTypeOK' /\ CallsInHand' /\ PathsLocked'
  BY ApplyTypes
<1>2. /\ pc[c] = "apply" /\ job[c] \in Calls
      /\ \A p \in Paths \ Touched(job[c]) : disk'[p] = disk[p]
      /\ \A p \in Touched(job[c]) : \/ disk'[p] \in {Gone, clock + 1}
                                    \/ \E q \in Touched(job[c]) : disk'[p] = disk[q]
      /\ \A d \in Chats : d # c => mine'[d] = mine[d]
      /\ mine'[c] \subseteq mine[c] \cup {clock + 1}
      /\ \/ clock' = clock /\ mine' = mine /\ \A p \in Touched(job[c]) : \/ disk'[p] = Gone
                                         \/ \E q \in Touched(job[c]) : disk'[p] = disk[q]
         \/ clock' = clock + 1
  BY ApplyWrites
<1>3. /\ UNCHANGED <<job, backup, locks>>
      /\ pc'[c] \in {"apply", "finish"} /\ \A d \in Chats : d # c => pc'[d] = pc[d] /\ next'[d] = next[d]
  BY DEF ApplyOp, FileTypeOK
<1>4. Touched(job[c]) \subseteq Paths
  BY <1>2, CallShape
<1>5. clock \in Nat /\ \A p \in Paths : disk[p] \in Nat /\ disk[p] <= clock
  BY DEF FilesKept, StampsGiven, FileTypeOK, Files
<1>6. \A d \in Chats, p \in Paths : backup[d][p] <= clock /\ backup[d][p] \in Nat
  <2>1. \A d \in Chats, p \in Paths : backup[d][p] \in Files
    BY DEF FileTypeOK
  <2>2. \A d \in Chats, p \in Paths : backup[d][p] <= clock
    BY DEF FilesKept, StampsGiven
  <2>3. \A d \in Chats, p \in Paths : backup[d][p] \in Nat
    BY <2>1 DEF Files
  <2> QED BY <2>2, <2>3
<1>7. StampsGiven'
  <2>1. \A p \in Paths : disk'[p] <= clock'
    <3> SUFFICES ASSUME NEW p \in Paths PROVE disk'[p] <= clock'
      OBVIOUS
    <3>1. CASE clock' = clock
      <4>1. disk'[p] = Gone \/ \E q \in Paths : disk'[p] = disk[q]
        <5>1. clock' # clock + 1
          BY <1>5, <3>1
        <5>2. \A r \in Touched(job[c]) : \/ disk'[r] = Gone
                                        \/ \E q \in Touched(job[c]) : disk'[r] = disk[q]
          BY <1>2, <5>1, Zenon
        <5>3. CASE p \in Touched(job[c])
          BY <1>4, <5>2, <5>3
        <5>4. CASE p \notin Touched(job[c])
          BY <1>2, <5>4
        <5> QED BY <5>3, <5>4
      <4> QED BY <1>5, <3>1, <4>1 DEF Gone
    <3>2. CASE clock' = clock + 1
      <4>1. disk'[p] \in {Gone, clock + 1} \/ \E q \in Paths : disk'[p] = disk[q]
        BY <1>2, <1>4
      <4>2. CASE disk'[p] \in {Gone, clock + 1}
        BY <1>5, <3>2, <4>2 DEF Gone
      <4>3. CASE \E q \in Paths : disk'[p] = disk[q]
        <5>1. PICK q \in Paths : disk'[p] = disk[q]
          BY <4>3
        <5>2. disk[q] \in Nat /\ disk[q] <= clock
          BY <1>5
        <5> QED BY <1>5, <3>2, <5>1, <5>2
      <4> QED BY <4>1, <4>2, <4>3
    <3> QED BY <1>2, <3>1, <3>2
  <2>2. \A d \in Chats, p \in Paths : backup'[d][p] <= clock'
    <3> SUFFICES ASSUME NEW d \in Chats, NEW p \in Paths PROVE backup[d][p] <= clock'
      BY <1>3
    <3>1. backup[d][p] <= clock /\ backup[d][p] \in Nat
      BY <1>6
    <3>2. clock' = clock \/ clock' = clock + 1
      BY <1>2
    <3> QED BY <1>5, <3>1, <3>2
  <2>3. \A d \in Chats : mine'[d] \subseteq 1 .. clock'
    <3>1. CASE clock' = clock + 1
      BY <1>2, <1>5, <3>1 DEF FilesKept, StampsGiven
    <3>2. CASE clock' = clock /\ mine' = mine
      BY <3>2 DEF FilesKept, StampsGiven
    <3> QED BY <1>2, <3>1, <3>2
  <2> QED BY <2>1, <2>2, <2>3 DEF StampsGiven
<1>8. OwnPathsOnly'
  <2> SUFFICES ASSUME NEW d \in Chats, pc'[d] \in Writing
               PROVE  /\ pc'[d] \in {"lock", "backup", "validate"} => mine'[d] = {}
                      /\ \A p \in Paths : disk'[p] \in mine'[d] => p \in Touched(job[d])
                      /\ \A e \in Chats, p \in Paths : pc'[e] \in BackedUp => backup[e][p] \notin mine'[d]
    BY <1>3 DEF OwnPathsOnly
  <2>1. pc[d] \in Writing
    BY <1>2, <1>3 DEF Writing
  <2>2. /\ pc[d] \in {"lock", "backup", "validate"} => mine[d] = {}
        /\ \A p \in Paths : disk[p] \in mine[d] => p \in Touched(job[d])
        /\ \A e \in Chats, p \in Paths : pc[e] \in BackedUp => backup[e][p] \notin mine[d]
    BY <2>1 DEF FilesKept, OwnPathsOnly
  <2>3. \A e \in Chats : pc'[e] \in BackedUp => pc[e] \in BackedUp
    BY <1>2, <1>3 DEF BackedUp
  <2>4. CASE d = c
    <3>1. \A p \in Paths : disk'[p] \in mine'[d] => p \in Touched(job[d])
      <4> SUFFICES ASSUME NEW p \in Paths, disk'[p] \in mine'[c], p \notin Touched(job[c])
                   PROVE  FALSE
        BY <2>4
      <4>1. disk[p] \in mine[c] \cup {clock + 1}
        BY <1>2
      <4>2. disk[p] # clock + 1
        BY <1>5
      <4> QED BY <2>2, <2>4, <4>1, <4>2
    <3>2. \A e \in Chats, p \in Paths : pc'[e] \in BackedUp => backup[e][p] \notin mine'[d]
      <4> SUFFICES ASSUME NEW e \in Chats, NEW p \in Paths, pc[e] \in BackedUp,
                          backup[e][p] \in mine'[c]
                   PROVE  FALSE
        BY <2>3, <2>4
      <4>1. backup[e][p] \in mine[c] \cup {clock + 1}
        BY <1>2
      <4>2. backup[e][p] <= clock /\ backup[e][p] \in Nat
        BY <1>6
      <4> QED BY <1>5, <2>2, <2>4, <4>1, <4>2
    <3> QED BY <1>3, <2>4, <3>1, <3>2
  <2>5. CASE d # c
    <3>1. mine'[d] = mine[d] /\ pc'[d] = pc[d]
      BY <1>2, <1>3, <2>5
    <3>2. \A p \in Paths : disk'[p] \in mine[d] => p \in Touched(job[d])
      <4> SUFFICES ASSUME NEW p \in Paths, disk'[p] \in mine[d], p \notin Touched(job[d])
                   PROVE  FALSE
        OBVIOUS
      <4>1. disk'[p] # Gone /\ disk'[p] # clock + 1
        BY <1>5 DEF FilesKept, StampsGiven, Gone
      <4>2. p \in Touched(job[c])
        BY <1>2, <2>2
      <4>3. PICK q \in Touched(job[c]) : disk'[p] = disk[q]
        BY <1>2, <4>1, <4>2
      <4>4. q \in Touched(job[d])
        BY <1>4, <2>2, <4>3
      <4>5. pc[d] \in {"apply", "finish"}
        BY <2>1, WriterIsLocked
      <4>6. pc[d] \in Locked /\ pc[c] \in Locked
        BY <1>2, <4>5 DEF Locked
      <4> QED BY <2>5, <4>3, <4>4, <4>6, TouchedApart
    <3> QED BY <2>2, <2>3, <3>1, <3>2
  <2> QED BY <2>4, <2>5
<1>9. BackupOfTouched'
  BY <1>2, <1>3 DEF FilesKept, BackupOfTouched, BackedUp
<1>10. OverlayHolds'
  <2> SUFFICES ASSUME NEW d \in Chats, pc'[d] = "apply", faults' = 0
               PROVE  \E present \in [0 .. Len(job[d]) -> SUBSET Paths] :
                        /\ Overlay(job[d], present)
                        /\ \A p \in present[next'[d] - 1] \cap Touched(job[d]) : disk'[p] # Gone
    BY <1>3 DEF OverlayHolds
  <2>1. CASE d = c
    BY <2>1, ApplyFits
  <2>2. CASE d # c
    <3>1. faults = 0
      BY ApplyFits
    <3>2. pc[d] = "apply" /\ next'[d] = next[d]
      BY <1>3, <2>2
    <3>3. \A p \in Touched(job[d]) : disk'[p] = disk[p]
      <4>1. Touched(job[c]) \cap Touched(job[d]) = {}
        BY <1>2, <2>2, <3>2, TouchedApart DEF Locked
      <4>2. Touched(job[d]) \subseteq Paths
        BY <3>2, CallShape DEF FilesKept, CallsInHand, Writing
      <4> QED BY <1>2, <4>1, <4>2
    <3>4. PICK present \in [0 .. Len(job[d]) -> SUBSET Paths] :
              /\ Overlay(job[d], present)
              /\ \A p \in present[next[d] - 1] \cap Touched(job[d]) : disk[p] # Gone
      BY <3>1, <3>2 DEF FilesKept, OverlayHolds
    <3> QED BY <3>2, <3>3, <3>4
  <2> QED BY <2>1, <2>2
<1> QED BY <1>1, <1>7, <1>8, <1>9, <1>10 DEF FilesKept

-----------------------------------------------------------------------------
(* The end of a call, and an edit behind the tools' back                   *)

\* What ends a call lets go of its locks and of nobody else's.
LEMMA ReleaseKeeps ==
    ASSUME FileTypeOK, FilesKept, NEW c \in Chats, Release(c), UNCHANGED job,
           pc' = [pc EXCEPT ![c] = "idle"]
    PROVE  /\ locks' \in [Paths -> Chats \cup {Outside}] /\ PathsLocked'
           /\ pc' \in [Chats -> {"idle", "read", "lock", "backup", "validate", "apply", "finish"}]
           /\ pc'[c] = "idle" /\ \A d \in Chats : d # c => pc'[d] = pc[d]
<1>1. /\ pc' \in [Chats -> {"idle", "read", "lock", "backup", "validate", "apply", "finish"}]
      /\ pc'[c] = "idle" /\ \A d \in Chats : d # c => pc'[d] = pc[d]
  BY DEF FileTypeOK
<1>2. locks' \in [Paths -> Chats \cup {Outside}]
  BY DEF FileTypeOK, Release
<1>3. PathsLocked'
  <2> SUFFICES ASSUME NEW d \in Chats, pc'[d] \in Locked, NEW p \in Touched(job[d])
               PROVE  locks'[p] = d
    BY DEF PathsLocked
  <2>1. d # c /\ pc[d] \in Locked
    BY <1>1 DEF Locked
  <2>2. locks[p] = d
    BY <2>1 DEF FilesKept, PathsLocked
  <2>3. job[d] \in Calls
    BY <2>1 DEF FilesKept, CallsInHand, Locked, Writing
  <2>4. p \in Paths
    BY <2>3, CallShape
  <2> QED BY <2>1, <2>2, <2>4 DEF Release
<1> QED BY <1>1, <1>2, <1>3

LEMMA SucceedStep ==
    ASSUME FileTypeOK, FilesKept, NEW c \in Chats, Succeed(c)
    PROVE  FileTypeOK' /\ FilesKept'
<1> USE FileAssumption
<1>1. /\ locks' \in [Paths -> Chats \cup {Outside}] /\ PathsLocked'
      /\ pc' \in [Chats -> {"idle", "read", "lock", "backup", "validate", "apply", "finish"}]
      /\ pc'[c] = "idle" /\ \A d \in Chats : d # c => pc'[d] = pc[d]
  BY ReleaseKeeps DEF Succeed, callVars
<1>2. UNCHANGED <<disk, job, next, warned, backup, failed, unrestored, mine, view, stray, author,
                  calls, faults>>
  BY DEF Succeed, callVars
<1>3. PICK noted : NoteWrites(c, noted)
  BY DEF Succeed
<1>4. clock' \in Files /\ clock <= clock' /\ clock' \in Nat
  BY <1>3 DEF NoteWrites, Tick, FileTypeOK, Files
<1>5. noted # {} => clock + 1 \in Files
  BY <1>3 DEF NoteWrites, Tick, FileTypeOK, Files
<1>6. lastWriter' \in [Paths -> [chat : Chats \cup {Outside}, ts : Files]]
  BY <1>3, <1>5 DEF NoteWrites, FileTypeOK
<1>7. reads' \in [Chats -> [Paths -> [mtime : Files, ts : Files, partial : BOOLEAN]]]
  <2> DEFINE own == [p \in Paths |-> IF p \in noted
                        THEN [mtime |-> disk[p], ts |-> clock + 1, partial |-> FALSE]
                        ELSE reads[c][p]]
  <2>1. own \in [Paths -> [mtime : Files, ts : Files, partial : BOOLEAN]]
    BY <1>5 DEF FileTypeOK
  <2>2. reads' = [reads EXCEPT ![c] = own]
    BY <1>3 DEF NoteWrites
  <2> HIDE DEF own
  <2> QED BY <2>1, <2>2 DEF FileTypeOK
<1>8. seen' \in [Chats -> [Paths -> Files]]
  <2> DEFINE own == [p \in Paths |-> IF p \in noted THEN disk[p] ELSE seen[c][p]]
  <2>1. own \in [Paths -> Files]
    BY DEF FileTypeOK
  <2>2. seen' = [seen EXCEPT ![c] = own]
    BY <1>3 DEF NoteWrites
  <2> HIDE DEF own
  <2> QED BY <2>1, <2>2 DEF FileTypeOK
<1>9. FileTypeOK'
  BY <1>1, <1>2, <1>4, <1>6, <1>7, <1>8 DEF FileTypeOK
<1>10. CallsInHand'
  BY <1>1, <1>2 DEF FilesKept, CallsInHand, Writing
<1>11. StampsGiven'
  <2>1. \A p \in Paths : disk'[p] <= clock'
    BY <1>2, <1>4 DEF FilesKept, StampsGiven, FileTypeOK, Files
  <2>2. \A d \in Chats, p \in Paths : backup'[d][p] <= clock'
    <3> SUFFICES ASSUME NEW d \in Chats, NEW p \in Paths PROVE backup[d][p] <= clock'
      BY <1>2
    <3>1. backup[d][p] \in Files /\ backup[d][p] <= clock
      BY DEF FilesKept, StampsGiven, FileTypeOK
    <3>2. backup[d][p] \in Nat /\ clock \in Nat
      BY <3>1 DEF Files, FileTypeOK
    <3> QED BY <1>4, <3>1, <3>2
  <2>3. \A d \in Chats : mine'[d] \subseteq 1 .. clock'
    BY <1>2, <1>4 DEF FilesKept, StampsGiven, FileTypeOK, Files
  <2> QED BY <2>1, <2>2, <2>3 DEF StampsGiven
<1>12. OwnPathsOnly'
  BY <1>1, <1>2 DEF FilesKept, OwnPathsOnly, Writing, BackedUp
<1>13. BackupOfTouched'
  BY <1>1, <1>2 DEF FilesKept, BackupOfTouched, BackedUp
<1>14. OverlayHolds'
  BY <1>1, <1>2 DEF FilesKept, OverlayHolds
<1> QED BY <1>1, <1>9, <1>10, <1>11, <1>12, <1>13, <1>14 DEF FilesKept

LEMMA RestoreStep ==
    ASSUME FileTypeOK, FilesKept, NEW c \in Chats, Restore(c)
    PROVE  FileTypeOK' /\ FilesKept'
<1> USE FileAssumption
<1>1. /\ locks' \in [Paths -> Chats \cup {Outside}] /\ PathsLocked'
      /\ pc' \in [Chats -> {"idle", "read", "lock", "backup", "validate", "apply", "finish"}]
      /\ pc'[c] = "idle" /\ \A d \in Chats : d # c => pc'[d] = pc[d]
  BY ReleaseKeeps DEF Restore
<1>0. PICK lost \in SUBSET Touched(job[c]) :
          /\ unrestored' = [unrestored EXCEPT ![c] = lost]
          /\ disk' = [p \in Paths |-> IF p \in Touched(job[c]) \ lost THEN backup[c][p] ELSE disk[p]]
          /\ faults' = faults \/ (faults' = faults + 1 /\ faults < MaxFaults)
  BY DEF Restore, Restored
<1>2. /\ UNCHANGED <<clock, reads, lastWriter, job, next, warned, backup, mine, view, stray, seen,
                     author, calls>>
      /\ failed' = [failed EXCEPT ![c] = TRUE]
      /\ \A p \in Paths : disk'[p] = disk[p] \/ (p \in Touched(job[c]) /\ disk'[p] = backup[c][p])
      /\ pc[c] = "finish"
  BY <1>0 DEF Restore, registry
<1>9. faults' \in 0 .. MaxFaults /\ (faults' = 0 => faults = 0)
  BY <1>0 DEF FileTypeOK
<1>3. FileTypeOK'
  <2>1. disk' \in [Paths -> Files] /\ failed' \in [Chats -> BOOLEAN]
    BY <1>0, <1>2 DEF FileTypeOK
  <2>2. unrestored' \in [Chats -> SUBSET Paths]
    <3>1. Touched(job[c]) \subseteq Paths
      BY <1>2, CallShape DEF FilesKept, CallsInHand, Writing
    <3> QED BY <1>0, <3>1 DEF FileTypeOK
  <2> QED BY <1>1, <1>2, <1>9, <2>1, <2>2 DEF FileTypeOK
<1>4. CallsInHand'
  BY <1>1, <1>2 DEF FilesKept, CallsInHand, Writing
<1>5. StampsGiven'
  BY <1>2 DEF FilesKept, StampsGiven
<1>6. OwnPathsOnly'
  <2> SUFFICES ASSUME NEW d \in Chats, pc'[d] \in Writing
               PROVE  /\ pc'[d] \in {"lock", "backup", "validate"} => mine[d] = {}
                      /\ \A p \in Paths : disk'[p] \in mine[d] => p \in Touched(job[d])
                      /\ \A e \in Chats, p \in Paths : pc'[e] \in BackedUp => backup[e][p] \notin mine[d]
    BY <1>2 DEF OwnPathsOnly
  <2>1. d # c /\ pc'[d] = pc[d] /\ pc[d] \in Writing
    BY <1>1 DEF Writing
  <2>2. /\ pc[d] \in {"lock", "backup", "validate"} => mine[d] = {}
        /\ \A p \in Paths : disk[p] \in mine[d] => p \in Touched(job[d])
        /\ \A e \in Chats, p \in Paths : pc[e] \in BackedUp => backup[e][p] \notin mine[d]
    BY <2>1 DEF FilesKept, OwnPathsOnly
  <2>3. \A e \in Chats : pc'[e] \in BackedUp => pc[e] \in BackedUp
    BY <1>1 DEF BackedUp
  <2>4. \A p \in Paths : backup[c][p] \notin mine[d]
    BY <1>2, <2>2 DEF BackedUp
  <2>5. \A p \in Paths : disk'[p] \in mine[d] => disk[p] \in mine[d]
    BY <1>2, <2>4
  <2> QED BY <2>1, <2>2, <2>3, <2>5
<1>7. BackupOfTouched'
  BY <1>1, <1>2 DEF FilesKept, BackupOfTouched, BackedUp
<1>8. OverlayHolds'
  <2> SUFFICES ASSUME NEW d \in Chats, pc'[d] = "apply", faults' = 0
               PROVE  \E present \in [0 .. Len(job[d]) -> SUBSET Paths] :
                        /\ Overlay(job[d], present)
                        /\ \A p \in present[next[d] - 1] \cap Touched(job[d]) : disk'[p] # Gone
    BY <1>2 DEF OverlayHolds
  <2>1. d # c /\ pc[d] = "apply"
    BY <1>1
  <2>2. \A p \in Touched(job[d]) : disk'[p] = disk[p]
    <3>1. Touched(job[c]) \cap Touched(job[d]) = {}
      BY <1>2, <2>1, TouchedApart DEF Locked
    <3>2. Touched(job[d]) \subseteq Paths
      BY <2>1, CallShape DEF FilesKept, CallsInHand, Writing
    <3> QED BY <1>2, <3>1, <3>2
  <2>3. PICK present \in [0 .. Len(job[d]) -> SUBSET Paths] :
            /\ Overlay(job[d], present)
            /\ \A p \in present[next[d] - 1] \cap Touched(job[d]) : disk[p] # Gone
    BY <1>9, <2>1 DEF FilesKept, OverlayHolds
  <2> QED BY <2>2, <2>3
<1> QED BY <1>1, <1>3, <1>4, <1>5, <1>6, <1>7, <1>8 DEF FilesKept

LEMMA EditOutsideStep ==
    ASSUME FileTypeOK, FilesKept, NEW p \in Paths, EditOutside(p)
    PROVE  FileTypeOK' /\ FilesKept'
<1> USE FileAssumption
<1>1. /\ UNCHANGED <<reads, lastWriter, locks, pc, job, next, warned, backup, failed,
                     unrestored, mine, view, stray, seen, author, calls>>
      /\ disk' = [disk EXCEPT ![p] = clock + 1] /\ clock' = clock + 1 /\ clock < MaxClock
      /\ faults' = faults + 1 /\ faults < MaxFaults
  BY DEF EditOutside, Tick, registry, callVars
<1>2. /\ clock \in Nat /\ clock + 1 \in Files
      /\ \A q \in Paths : disk[q] \in Nat /\ disk[q] <= clock
      /\ \A d \in Chats, q \in Paths : backup[d][q] \in Nat /\ backup[d][q] <= clock
  <2>1. \A d \in Chats, q \in Paths : backup[d][q] \in Files /\ disk[q] \in Files
    BY DEF FileTypeOK
  <2> QED BY <1>1, <2>1 DEF FilesKept, StampsGiven, FileTypeOK, Files
<1>3. FileTypeOK'
  <2>1. disk' \in [Paths -> Files] /\ clock' \in Files
    BY <1>1, <1>2 DEF FileTypeOK
  <2>2. faults' \in 0 .. MaxFaults
    BY <1>1 DEF FileTypeOK
  <2> QED BY <1>1, <2>1, <2>2 DEF FileTypeOK
<1>4. CallsInHand' /\ PathsLocked' /\ BackupOfTouched'
  BY <1>1 DEF FilesKept, CallsInHand, PathsLocked, BackupOfTouched
<1>5. StampsGiven'
  <2>1. \A q \in Paths : disk'[q] <= clock'
    BY <1>1, <1>2 DEF FileTypeOK
  <2>2. \A d \in Chats, q \in Paths : backup'[d][q] <= clock'
    BY <1>1, <1>2
  <2>3. \A d \in Chats : mine'[d] \subseteq 1 .. clock'
    BY <1>1, <1>2 DEF FilesKept, StampsGiven
  <2> QED BY <2>1, <2>2, <2>3 DEF StampsGiven
<1>6. OwnPathsOnly'
  <2>1. \A d \in Chats : clock + 1 \notin mine[d]
    BY <1>2 DEF FilesKept, StampsGiven
  <2>2. \A d \in Chats, q \in Paths : disk'[q] \in mine[d] => disk[q] \in mine[d]
    BY <1>1, <2>1 DEF FileTypeOK
  <2> QED BY <1>1, <2>2 DEF FilesKept, OwnPathsOnly
<1>7. OverlayHolds'
  BY <1>1 DEF OverlayHolds, FileTypeOK
<1> QED BY <1>3, <1>4, <1>5, <1>6, <1>7 DEF FilesKept

-----------------------------------------------------------------------------
(* The invariant, and what follows from it                                 *)

LEMMA FileStep == FileTypeOK /\ FilesKept /\ [FileNext]_fileVars => FileTypeOK' /\ FilesKept'
<1> SUFFICES ASSUME FileTypeOK, FilesKept, [FileNext]_fileVars
             PROVE  FileTypeOK' /\ FilesKept'
  OBVIOUS
<1>0. CallsInHand
  BY DEF FilesKept
<1>1. ASSUME NEW c \in Chats, NEW p \in Paths, NEW partial \in BOOLEAN, ReadBytes(c, p, partial)
      PROVE  FileTypeOK' /\ FilesKept'
  BY <1>0, <1>1, ReadBytesStep, ReadingKeeps
<1>2. ASSUME NEW c \in Chats, ReadEnds(c) PROVE FileTypeOK' /\ FilesKept'
  BY <1>0, <1>2, ReadEndsStep, ReadingKeeps
<1>3. ASSUME NEW c \in Chats, ReadStopped(c) PROVE FileTypeOK' /\ FilesKept'
  BY <1>0, <1>3, ReadStoppedStep, ReadingKeeps
<1>4. ASSUME NEW c \in Chats, StrayReadEnds(c) PROVE FileTypeOK' /\ FilesKept'
  BY <1>0, <1>4, StrayReadEndsStep, ReadingKeeps
<1>5. ASSUME NEW c \in Chats, NEW ops \in Calls, StartCall(c, ops)
      PROVE  FileTypeOK' /\ FilesKept'
  BY <1>5, StartCallStep
<1>6. ASSUME NEW c \in Chats, PatchStep(c) PROVE FileTypeOK' /\ FilesKept'
  BY <1>6, TakeLockStep, CheckStep, TakeBackupsStep, ValidateStep, ApplyStep, SucceedStep,
     RestoreStep DEF PatchStep
<1>7. ASSUME NEW p \in Paths, EditOutside(p) PROVE FileTypeOK' /\ FilesKept'
  BY <1>7, EditOutsideStep
<1>8. CASE UNCHANGED fileVars
  <2> USE <1>8 DEF fileVars
  <2>1. FileTypeOK'
    BY DEF FileTypeOK
  <2>2. CallsInHand' /\ PathsLocked' /\ StampsGiven' /\ BackupOfTouched'
    BY DEF FilesKept, CallsInHand, PathsLocked, StampsGiven, BackupOfTouched
  <2>3. OwnPathsOnly' /\ OverlayHolds'
    BY DEF FilesKept, OwnPathsOnly, OverlayHolds
  <2> QED BY <2>1, <2>2, <2>3 DEF FilesKept
<1> QED BY <1>1, <1>2, <1>3, <1>4, <1>5, <1>6, <1>7, <1>8, Zenon DEF FileNext

(* Every variable has its type, and the invariant holds.                   *)
THEOREM FilesAreKept == FileSpec => [](FileTypeOK /\ FilesKept)
<1>1. FileInit => FileTypeOK /\ FilesKept
  BY FileStarts
<1>2. FileTypeOK /\ FilesKept /\ [FileNext]_fileVars => (FileTypeOK /\ FilesKept)'
  BY FileStep
<1> QED BY <1>1, <1>2, PTL DEF FileSpec

\* Only a call that restores fails, or ends in failure.
LEMMA RestoredIsBack ==
    ASSUME FileTypeOK, FilesKept, NEW c \in Chats, Fails(c), [FileNext]_fileVars
    PROVE  \A p \in Paths \ unrestored'[c] :
              /\ disk'[p] \notin mine[c]
              /\ backup[c][p] # Gone => disk'[p] = backup[c][p]
<1> USE DEF Fails
<1>1. Restore(c)
  <2>1. ~ UNCHANGED fileVars
    BY DEF fileVars
  <2>2. ASSUME NEW d \in Chats, NEW p \in Paths, NEW partial \in BOOLEAN, ReadBytes(d, p, partial)
        PROVE  FALSE
    BY <2>2 DEF ReadBytes, FileTypeOK
  <2>3. ASSUME NEW d \in Chats, NEW ops \in Calls, StartCall(d, ops) PROVE FALSE
    BY <2>3 DEF StartCall, FileTypeOK
  <2>4. ASSUME NEW d \in Chats, ReadEnds(d) PROVE FALSE
    BY <2>4 DEF ReadEnds, FileTypeOK
  <2>5. ASSUME NEW d \in Chats, ReadStopped(d) PROVE FALSE
    BY <2>5 DEF ReadStopped, FileTypeOK
  <2>6. ASSUME NEW d \in Chats, StrayReadEnds(d) PROVE FALSE
    BY <2>6 DEF StrayReadEnds
  <2>7. ASSUME NEW d \in Chats, TakeLock(d) PROVE FALSE
    BY <2>7 DEF TakeLock
  <2>8. ASSUME NEW d \in Chats, Check(d) PROVE FALSE
    BY <2>8 DEF Check, FileTypeOK
  <2>9. ASSUME NEW d \in Chats, TakeBackups(d) PROVE FALSE
    BY <2>9 DEF TakeBackups, FileTypeOK
  <2>10. ASSUME NEW d \in Chats, Validate(d) PROVE FALSE
    BY <2>10 DEF Validate, FileTypeOK
  <2>11. ASSUME NEW d \in Chats, ApplyOp(d) PROVE FALSE
    BY <2>11 DEF ApplyOp, FileTypeOK
  <2>12. ASSUME NEW d \in Chats, Succeed(d) PROVE FALSE
    BY <2>12 DEF Succeed, callVars, FileTypeOK
  <2>13. ASSUME NEW d \in Chats, Restore(d), d # c PROVE FALSE
    BY <2>13 DEF Restore, FileTypeOK
  <2>14. ASSUME NEW p \in Paths, EditOutside(p) PROVE FALSE
    BY <2>14 DEF EditOutside
  <2> QED BY <2>1, <2>2, <2>3, <2>4, <2>5, <2>6, <2>7, <2>8, <2>9, <2>10, <2>11, <2>12, <2>13,
             <2>14, Zenon DEF FileNext, PatchStep
<1>2. disk' = [p \in Paths |->
          IF p \in Touched(job[c]) \ unrestored'[c] THEN backup[c][p] ELSE disk[p]]
  BY <1>1 DEF Restore, Restored, FileTypeOK
<1>3. pc[c] \in Writing /\ pc[c] \in BackedUp
  BY DEF Writing, BackedUp
<1>4. \A p \in Paths : backup[c][p] \notin mine[c] /\ (disk[p] \in mine[c] => p \in Touched(job[c]))
  BY <1>3 DEF FilesKept, OwnPathsOnly
<1>5. \A p \in Paths \ Touched(job[c]) : backup[c][p] = Gone
  BY <1>3 DEF FilesKept, BackupOfTouched
<1> QED BY <1>2, <1>4, <1>5

(* Every variable has its type, and a call that fails leaves nothing       *)
(* behind but on the paths its error names as not rolled back.             *)
THEOREM PatchIsAllOrNothing == FileSpec => AllOrNothing
<1>1. FileTypeOK /\ FilesKept /\ [FileNext]_fileVars =>
        [\A c \in Chats : Fails(c) =>
            \A p \in Paths \ unrestored'[c] :
                /\ disk'[p] \notin mine[c]
                /\ backup[c][p] # Gone => disk'[p] = backup[c][p]]_fileVars
  BY RestoredIsBack, Zenon
<1> QED BY <1>1, FilesAreKept, PTL DEF FileSpec, AllOrNothing, FailedLeavesNothing

(* A patch that was validated applies.                                     *)
THEOREM PatchApplies == FileSpec => ValidatedApplies
<1>1. ASSUME FileTypeOK, FilesKept, [FileNext]_fileVars, NEW c \in Chats,
             pc[c] = "apply", failed'[c], ~failed[c]
      PROVE  faults' > 0
  <2>1. ApplyOp(c)
    <3>1. ~ UNCHANGED fileVars
      BY <1>1 DEF fileVars
    <3>2. ASSUME NEW d \in Chats, NEW p \in Paths, NEW partial \in BOOLEAN, ReadBytes(d, p, partial)
          PROVE  FALSE
      BY <1>1, <3>2 DEF ReadBytes, callVars
    <3>3. ASSUME NEW d \in Chats, NEW ops \in Calls, StartCall(d, ops) PROVE FALSE
      BY <1>1, <3>3 DEF StartCall, FileTypeOK
    <3>4. ASSUME NEW d \in Chats, ReadEnds(d) \/ ReadStopped(d) \/ StrayReadEnds(d) PROVE FALSE
      BY <1>1, <3>4 DEF ReadEnds, ReadStopped, StrayReadEnds, callVars
    <3>5. ASSUME NEW d \in Chats, TakeLock(d) \/ Check(d) \/ TakeBackups(d) PROVE FALSE
      BY <1>1, <3>5 DEF TakeLock, Check, TakeBackups, callVars
    <3>6. ASSUME NEW d \in Chats, Validate(d) PROVE FALSE
      BY <1>1, <3>6 DEF Validate, FileTypeOK
    <3>7. ASSUME NEW d \in Chats, ApplyOp(d), d # c PROVE FALSE
      <4>1. OperationEnds(d, job[d][next[d]])
        BY <1>1, <3>7, Applying DEF FilesKept
      <4>2. failed' = failed \/ failed' = [failed EXCEPT ![d] = TRUE]
        BY <4>1 DEF OperationEnds
      <4> QED BY <1>1, <3>7, <4>2 DEF FileTypeOK
    <3>8. ASSUME NEW d \in Chats, Succeed(d) \/ Restore(d) PROVE FALSE
      BY <1>1, <3>8 DEF Succeed, Restore, callVars, FileTypeOK
    <3>9. ASSUME NEW p \in Paths, EditOutside(p) PROVE FALSE
      BY <1>1, <3>9 DEF EditOutside, callVars
    <3> QED BY <1>1, <3>1, <3>2, <3>3, <3>4, <3>5, <3>6, <3>7, <3>8, <3>9, Zenon
            DEF FileNext, PatchStep
  <2>2. faults' # 0
    BY <1>1, <2>1, ApplyFits
  <2>3. faults' \in Nat
    BY <1>1, <2>1, ApplyStep, FileAssumption DEF FileTypeOK
  <2> QED BY <2>2, <2>3
<1>2. FileTypeOK /\ FilesKept /\ [FileNext]_fileVars =>
        [\A c \in Chats : pc[c] = "apply" /\ failed'[c] /\ ~failed[c] => faults' > 0]_fileVars
  BY <1>1, Zenon
<1> QED BY <1>2, FilesAreKept, PTL DEF FileSpec, ValidatedApplies

-----------------------------------------------------------------------------
(* The order of the locks                                                  *)

\* What a call holds comes before what it still misses, and only a call that
\* writes holds anything.
LocksInOrder ==
    \A c \in Chats, p \in Paths : locks[p] = c =>
        pc[c] \in Writing /\ \A q \in Missing(c) : p < q

\* The next lock is the first of those that are missing.
LEMMA NextIsFirst ==
    ASSUME FileTypeOK, FilesKept, NEW c \in Chats, Waits(c)
    PROVE  /\ Missing(c) \subseteq Paths
           /\ NextLock(c) \in Missing(c) /\ \A q \in Missing(c) : NextLock(c) <= q
<1>1. job[c] \in Calls
  BY DEF FilesKept, CallsInHand, Waits, Writing
<1>2. Missing(c) \subseteq Paths
  BY <1>1, CallShape DEF Missing
<1>3. Missing(c) \in SUBSET Nat
  BY <1>2, FileAssumption
<1>4. PICK n \in Missing(c) : \A m \in Missing(c) : ~(m < n)
  BY <1>3, LeastNumber DEF Waits
<1>5. \A m \in Missing(c) : n <= m
  BY <1>3, <1>4
<1>6. \E n_1 \in Missing(c) : \A m \in Missing(c) : n_1 <= m
  BY <1>4, <1>5
<1> QED BY <1>2, <1>6 DEF NextLock, Min

LEMMA LocksStep ==
    ASSUME FileTypeOK, FilesKept, LocksInOrder, [FileNext]_fileVars
    PROVE  LocksInOrder'
<1>1. ASSUME UNCHANGED <<job, locks>>,
             \A c \in Chats : pc[c] \in Writing => pc'[c] \in Writing
      PROVE  LocksInOrder'
  BY <1>1 DEF LocksInOrder, Missing
<1>2. ASSUME NEW c \in Chats, Release(c), UNCHANGED job, pc' = [pc EXCEPT ![c] = "idle"]
      PROVE  LocksInOrder'
  <2> SUFFICES ASSUME NEW d \in Chats, NEW p \in Paths, locks'[p] = d
               PROVE  pc'[d] \in Writing /\ \A q \in Missing(d)' : p < q
    BY DEF LocksInOrder
  <2>1. d # c /\ locks[p] = d
    BY <1>2, FileAssumption DEF Release
  <2>2. pc'[d] \in Writing
    BY <1>2, <2>1 DEF LocksInOrder, FileTypeOK
  <2>3. Missing(d)' = Missing(d)
    <3>1. job[d] \in Calls
      BY <2>1 DEF LocksInOrder, FilesKept, CallsInHand
    <3>2. Touched(job[d]) \subseteq Paths
      BY <3>1, CallShape
    <3>3. \A q \in Paths : locks'[q] = d <=> locks[q] = d
      BY <1>2, <2>1, FileAssumption DEF Release
    <3>4. job'[d] = job[d]
      BY <1>2
    <3> QED BY <3>2, <3>3, <3>4 DEF Missing
  <2> QED BY <2>1, <2>2, <2>3 DEF LocksInOrder
<1>3. ASSUME NEW c \in Chats, TakeLock(c) PROVE LocksInOrder'
  <2> DEFINE l == NextLock(c)
  <2>1. /\ Missing(c) \subseteq Paths /\ l \in Missing(c) /\ \A q \in Missing(c) : l <= q
    BY <1>3, NextIsFirst DEF TakeLock, Waits
  <2>2. locks[l] = Outside /\ locks' = [locks EXCEPT ![l] = c] /\ UNCHANGED <<job, pc>>
    BY <1>3 DEF TakeLock, callVars
  <2>3. pc[c] \in Writing
    BY <1>3 DEF TakeLock, Writing
  <2> HIDE DEF l
  <2>4. l \in Paths /\ \A p \in Paths : locks'[p] = IF p = l THEN c ELSE locks[p]
    BY <2>1, <2>2 DEF FileTypeOK
  <2>5. ASSUME NEW d \in Chats, NEW p \in Paths, locks'[p] = d PROVE pc'[d] \in Writing
    BY <2>2, <2>3, <2>4, <2>5 DEF LocksInOrder
  <2> SUFFICES ASSUME NEW d \in Chats, NEW p \in Paths, locks'[p] = d, NEW q \in Missing(d)'
               PROVE  p < q
    BY <2>5 DEF LocksInOrder
  <2>6. CASE d # c
    <3>1. locks[p] = d
      BY <2>4, <2>6
    <3>2. pc[d] \in Writing /\ q \in Paths
      <4>1. pc[d] \in Writing
        BY <3>1 DEF LocksInOrder
      <4>2. Touched(job[d]) \subseteq Paths
        BY <4>1, CallShape DEF FilesKept, CallsInHand
      <4> QED BY <2>2, <4>1, <4>2 DEF Missing
    <3>3. q \in Missing(d)
      BY <2>2, <2>4, <2>6, <3>2, FileAssumption DEF Missing
    <3> QED BY <3>1, <3>2, <3>3 DEF LocksInOrder
  <2>7. CASE d = c
    <3>1. q \in Missing(c) /\ q # l /\ q \in Paths
      <4>1. q \in Touched(job[c]) /\ locks'[q] # c
        BY <2>2, <2>7 DEF Missing
      <4>2. Touched(job[c]) \subseteq Paths
        BY <2>3, CallShape DEF FilesKept, CallsInHand
      <4>3. q \in Paths /\ q # l /\ locks[q] # c
        BY <2>4, <4>1, <4>2
      <4> QED BY <4>1, <4>3 DEF Missing
    <3>2. CASE p = l
      <4>1. l <= q /\ q \in Nat /\ l \in Nat
        BY <2>1, <2>4, <3>1, FileAssumption
      <4> QED BY <2>3, <2>7, <3>1, <3>2, <4>1
    <3>3. CASE p # l
      <4>1. locks[p] = c
        BY <2>4, <2>7, <3>3
      <4> QED BY <2>3, <2>7, <3>1, <4>1 DEF LocksInOrder
    <3> QED BY <3>2, <3>3
  <2> QED BY <2>6, <2>7
<1>4. ASSUME NEW c \in Chats, NEW ops \in Calls, StartCall(c, ops) PROVE LocksInOrder'
  <2>1. /\ pc[c] = "idle" /\ locks' = locks
        /\ \A d \in Chats : d # c => pc'[d] = pc[d] /\ job'[d] = job[d]
    BY <1>4 DEF StartCall, FileTypeOK
  <2>2. \A p \in Paths : locks[p] # c
    BY <2>1 DEF LocksInOrder, Writing
  <2> QED BY <2>1, <2>2 DEF LocksInOrder, Missing
<1>5. ASSUME NEW c \in Chats, NEW p \in Paths, NEW partial \in BOOLEAN, ReadBytes(c, p, partial)
      PROVE  LocksInOrder'
  BY <1>1, <1>5 DEF ReadBytes, callVars, FileTypeOK, Writing
<1>6. ASSUME NEW c \in Chats, ReadEnds(c) PROVE LocksInOrder'
  BY <1>1, <1>6 DEF ReadEnds, callVars, FileTypeOK, Writing
<1>7. ASSUME NEW c \in Chats, ReadStopped(c) PROVE LocksInOrder'
  BY <1>1, <1>7 DEF ReadStopped, callVars, FileTypeOK, Writing
<1>8. ASSUME NEW c \in Chats, StrayReadEnds(c) PROVE LocksInOrder'
  BY <1>1, <1>8 DEF StrayReadEnds, callVars
<1>9. ASSUME NEW c \in Chats, Check(c) PROVE LocksInOrder'
  BY <1>1, <1>9 DEF Check, FileTypeOK, Writing
<1>10. ASSUME NEW c \in Chats, TakeBackups(c) PROVE LocksInOrder'
  BY <1>1, <1>10 DEF TakeBackups, FileTypeOK, Writing
<1>11. ASSUME NEW c \in Chats, Validate(c) PROVE LocksInOrder'
  BY <1>1, <1>11 DEF Validate, FileTypeOK, Writing
<1>12. ASSUME NEW c \in Chats, ApplyOp(c) PROVE LocksInOrder'
  BY <1>1, <1>12 DEF ApplyOp, FileTypeOK, Writing
<1>13. ASSUME NEW c \in Chats, Succeed(c) \/ Restore(c) PROVE LocksInOrder'
  BY <1>2, <1>13 DEF Succeed, Restore, callVars
<1>14. ASSUME NEW p \in Paths, EditOutside(p) PROVE LocksInOrder'
  BY <1>1, <1>14 DEF EditOutside, callVars
<1>15. CASE UNCHANGED fileVars
  BY <1>1, <1>15 DEF fileVars
<1> QED BY <1>3, <1>4, <1>5, <1>6, <1>7, <1>8, <1>9, <1>10, <1>11, <1>12, <1>13, <1>14, <1>15,
           Zenon DEF FileNext, PatchStep

\* Of some paths one is the last.
LEMMA LastPath ==
    ASSUME NEW S \in SUBSET Paths, S # {}
    PROVE  \E p \in S : \A q \in S : q <= p
<1> DEFINE Above(p) == {q \in Paths : p < q}
           Counts == {Cardinality(Above(p)) : p \in S}
<1>1. \A p : IsFiniteSet(Above(p)) /\ Cardinality(Above(p)) \in Nat
  BY FileAssumption, FS_Subset, FS_CardinalityType
<1>2. PICK n \in Counts : \A m \in Counts : ~(m < n)
  <2>1. Counts \in SUBSET Nat /\ Counts # {}
    BY <1>1
  <2> QED BY <2>1, LeastNumber
<1>3. PICK p \in S : n = Cardinality(Above(p))
  BY <1>2
<1>4. ASSUME NEW q \in S, p < q PROVE FALSE
  <2>1. p \in Nat /\ q \in Nat /\ q \in Paths
    BY FileAssumption
  <2>2. Above(q) \subseteq Above(p)
    <3> SUFFICES ASSUME NEW r \in Paths, q < r PROVE p < r
      OBVIOUS
    <3>1. r \in Nat
      BY FileAssumption
    <3> QED BY <1>4, <2>1, <3>1
  <2>3. q \in Above(p) /\ q \notin Above(q)
    BY <1>4, <2>1
  <2>4. Cardinality(Above(q)) <= Cardinality(Above(p)) /\ Cardinality(Above(q)) # Cardinality(Above(p))
    BY <1>1, <2>2, <2>3, FS_Subset
  <2>5. Cardinality(Above(q)) \in Counts
    OBVIOUS
  <2>6. Cardinality(Above(q)) \in Nat /\ Cardinality(Above(p)) \in Nat
    BY <1>1
  <2> HIDE DEF Above, Counts
  <2> QED BY <1>2, <1>3, <2>4, <2>5, <2>6
<1>5. \A q \in S : q <= p
  BY <1>4, FileAssumption
<1> QED BY <1>5

(* No calls wait for each other's path locks in a circle.                  *)
THEOREM NobodyWaitsInACircle == FileSpec => []NoCircle
<1>1. FileInit => LocksInOrder
  BY FileAssumption DEF FileInit, LocksInOrder
<1>2. FileTypeOK /\ FilesKept /\ LocksInOrder /\ [FileNext]_fileVars => LocksInOrder'
  BY LocksStep
<1>3. FileTypeOK /\ FilesKept /\ LocksInOrder => NoCircle
  <2> SUFFICES ASSUME FileTypeOK, FilesKept, LocksInOrder, NEW group \in (SUBSET Chats) \ {{}},
                      \A c \in group : Waits(c), \A c \in group : locks[NextLock(c)] \in group
               PROVE  FALSE
    BY DEF NoCircle
  <2> DEFINE wanted == {NextLock(c) : c \in group}
  <2>1. wanted \in SUBSET Paths /\ wanted # {}
    <3>1. \A c \in group : NextLock(c) \in Paths
      BY NextIsFirst
    <3>2. wanted # {}
      OBVIOUS
    <3>3. wanted \subseteq Paths
      BY <3>1
    <3> QED BY <3>2, <3>3
  <2>2. PICK p \in wanted : \A q \in wanted : q <= p
    BY <2>1, LastPath
  <2>3. PICK d \in group : d = locks[p]
    BY <2>2
  <2>4. p \in Paths /\ NextLock(d) \in Missing(d) /\ NextLock(d) \in Paths
    BY <2>1, NextIsFirst
  <2>5. p < NextLock(d)
    BY <2>3, <2>4 DEF LocksInOrder
  <2>6. NextLock(d) <= p
    BY <2>2, <2>3
  <2>7. p \in Nat /\ NextLock(d) \in Nat
    BY <2>4, FileAssumption
  <2> HIDE DEF wanted
  <2> QED BY <2>5, <2>6, <2>7
<1> QED BY <1>1, <1>2, <1>3, FilesAreKept, PTL DEF FileSpec

(* Both, as the run checks them.                                           *)
THEOREM PatchIsGoingThrough == FileSpec => PatchGoesThrough
  BY NobodyWaitsInACircle, PatchApplies DEF PatchGoesThrough
=============================================================================
