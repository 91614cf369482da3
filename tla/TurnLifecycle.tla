--------------------------- MODULE TurnLifecycle ---------------------------
(***************************************************************************)
(* One conversation from the accepted message to the settled claim: the    *)
(* message handler (main.handle_whatsapp with Agent.prepare_turn, respond  *)
(* and the tool loop), the control commands /stop and /new that run beside *)
(* it, and the startup that resumes what a crash has left behind.          *)
(*                                                                         *)
(* Durable are the active_turns row, the chat's session and the history    *)
(* (ConversationStore), the completed inbound claims and the recorded      *)
(* replies; everything else dies with the process.  Each store call is one *)
(* step; between two of them the other tasks run.  How a recorded reply    *)
(* reaches the chat is DeliveryLedger's subject.                           *)
(*                                                                         *)
(* A member of Messages is a batch of inbound messages merged into one     *)
(* turn, with its bridge claims.                                           *)
(***************************************************************************)
EXTENDS Naturals, FiniteSets

CONSTANTS
  Messages,     \* inbound batches of the conversation
  MaxSteps,     \* max_tool_iterations
  MaxSession,   \* bound: sessions of the conversation
  MaxControls,  \* bound: /stop and /new commands of a run
  Budget        \* bound: restarts, shutdowns and failing calls of a run

Steps == 1..MaxSteps

ASSUME TurnAssumption ==
  /\ Messages # {}
  /\ MaxSteps \in Nat
  /\ MaxSession \in Nat \ {0}
  /\ MaxControls \in Nat
  /\ Budget \in Nat

VARIABLES
  session,    \* chats.session
  active,     \* the row of active_turns
  history,    \* how often the exchange of a message is in turns
  completed,  \* completed_claims: batches whose claims are settled for good
  replies,    \* final responses in the delivery ledger, per batch
  stage,      \* where the batch is: held by the bridge, queued, or taken
  phase,      \* "startup" (intake held), "up", "closing"
  turn,       \* where the handler, or the startup recovery, stands
  msg,        \* the batch it works on
  step,       \* tool iterations of its turn
  outcome,    \* _ActiveExecution.outcome, the published result of a /stop
  fence,      \* the completion fence of the conversation is open
  fenced,     \* the session is in fenced_turn_sessions
  control,    \* the control command under way
  staged,     \* what a /stop has persisted and not yet published
  running,    \* tool calls whose side effect may still happen
  effects,    \* ghost: how often it happened (2 = twice or more)
  waived,     \* ghost: batches a control command has covered
  orphaned,   \* ghost: batches whose checkpoint /new deleted, claims unsettled
  quiet,      \* ghost: batches the user was told are stopped
  late,       \* ghost: batches a /stop was told to come too late for
  asked,      \* controls used
  spent       \* how much of Budget is used

chatVars   == <<session, active, history>>
claimVars  == <<completed, stage>>
turnVars   == <<turn, msg, step, outcome, fence>>
ctlVars    == <<control, staged, asked>>
toolVars   == <<running, effects>>
ghostVars  == <<waived, orphaned, quiet, late>>
vars == <<chatVars, claimVars, replies, phase, turnVars, fenced, ctlVars,
          toolVars, ghostVars, spent>>

-----------------------------------------------------------------------------
(* The active turn                                                         *)

Phases == {"none", "started", "tool_requested", "tool_completed",
           "answer_ready", "stopped", "unknown"}
Turn == [phase: Phases, msg: Messages, session: 1..MaxSession, step: 0..MaxSteps]

NoTurn == [phase |-> "none", msg |-> CHOOSE m \in Messages : TRUE,
           session |-> 1, step |-> 0]

\* the row as the store calls of the current session see it
Current == IF active.session = session THEN active.phase ELSE "none"

\* no tool of the turn is under way and nothing has ended it
Resumable == {"started", "tool_completed"}

\* a tool batch may begin: the turn has a step left
StepLeft == step < MaxSteps

\* the handler or recovery owns the execution a /stop addresses
Owned     == {"prepare", "begin", "model", "tools", "after", "answer",
              "discard", "stopped", "finish"}
Preparing == {"prepare", "begin"}
Executing == turn \in Owned

\* Mutation: a stop during the preparation does not end the turn.
LiveUnlessStaged == outcome \notin {"stopped", "unknown"}

\* _require_live_execution: no stop has been published
Live == outcome \notin {"stopped", "dropped", "unknown"}

\* a /stop holds the transition lock
Unlocked == control # "publish"

Go(place) == /\ turn' = place
             /\ UNCHANGED <<msg, step, outcome, fence>>

\* after its turn the handler acknowledges its claims, the startup goes on
Settled == IF phase = "startup" THEN "open" ELSE "mark"

-----------------------------------------------------------------------------
(* The inbound queue.  Completed claims are only acknowledged again.       *)

Accept(m) ==
  /\ phase = "up"
  /\ stage[m] = "sent" /\ m \notin completed
  /\ stage' = [stage EXCEPT ![m] = "queued"]
  /\ UNCHANGED <<chatVars, completed, replies, phase, turnVars, fenced, ctlVars,
                 toolVars, ghostVars, spent>>

\* _run_turn_queue starts a handler; no turn starts under a control command
Take(m) ==
  /\ phase \in {"up", "closing"}
  /\ turn = "free" /\ control = "none"
  /\ stage[m] = "queued"
  /\ stage' = [stage EXCEPT ![m] = "taken"]
  /\ turn' = IF fenced THEN "warn" ELSE "prepare"
  /\ msg' = m
  /\ step' = 0
  /\ outcome' = "none"
  /\ UNCHANGED <<chatVars, completed, replies, phase, fence, fenced, ctlVars,
                 toolVars, ghostVars, spent>>

-----------------------------------------------------------------------------
(* The turn                                                                *)

\* Mutation: the automatic reset ignores unfinished turns.
ResetAnytime == TRUE

\* an automatic reset must not abandon an unfinished turn
Resettable == Current = "none"

\* prepare_turn and the preprocessing: the session may be reset by the clock
Prepare ==
  /\ turn = "prepare" /\ Live
  /\ \/ session' = session
     \/ Resettable /\ session < MaxSession /\ session' = session + 1
  /\ Go("begin")
  /\ UNCHANGED <<active, history, claimVars, replies, phase, fenced, ctlVars,
                 toolVars, ghostVars, spent>>

Started == [phase |-> "started", msg |-> msg, session |-> session, step |-> 0]

\* begin_turn under the transition lock
Begin ==
  /\ turn = "begin" /\ Unlocked /\ Live
  /\ IF Current = "none"
     THEN active' = Started /\ Go("model")
     ELSE active' = active /\ Go("fail")
  /\ UNCHANGED <<session, history, claimVars, replies, phase, fenced, ctlVars,
                 toolVars, ghostVars, spent>>

\* the row in its next phase, when the store call finds it in one of phases
Advance(phases, next) ==
  IF Current \in phases
  THEN active' = [phase |-> next, msg |-> active.msg, session |-> active.session,
                  step |-> step']
  ELSE active' = active

\* the model asked for tools: checkpoint tool_requested, then run_calls
Request ==
  /\ turn = "model" /\ Unlocked /\ Live /\ StepLeft
  /\ IF Current \in Resumable
     THEN /\ turn' = "tools"
          /\ step' = step + 1
          /\ running' = running \union {<<msg, step + 1>>}
     ELSE /\ turn' = "discard"
          /\ UNCHANGED <<step, running>>
  /\ Advance(Resumable, "tool_requested")
  /\ UNCHANGED <<session, history, claimVars, replies, phase, msg, outcome, fence,
                 fenced, ctlVars, effects, ghostVars, spent>>

\* a tool call ends, with or without its side effect; one that was cancelled
\* in a worker thread ends all the same
ToolEnds(m, i) ==
  /\ <<m, i>> \in running
  /\ running' = running \ {<<m, i>>}
  /\ \/ effects' = effects
     \/ effects' = [effects EXCEPT ![m][i] = IF @ < 2 THEN @ + 1 ELSE @]
  /\ UNCHANGED <<chatVars, claimVars, replies, phase, turnVars, fenced, ctlVars,
                 ghostVars, spent>>

\* run_calls has all results
Gathered ==
  /\ turn = "tools" /\ Live
  /\ <<msg, step>> \notin running
  /\ Go("after")
  /\ UNCHANGED <<chatVars, claimVars, replies, phase, fenced, ctlVars,
                 toolVars, ghostVars, spent>>

\* checkpoint tool_completed
Complete ==
  /\ turn = "after" /\ Unlocked /\ Live
  /\ Go(IF Current = "tool_requested" THEN "model" ELSE "discard")
  /\ Advance({"tool_requested"}, "tool_completed")
  /\ UNCHANGED <<session, history, claimVars, replies, phase, fenced, ctlVars,
                 toolVars, ghostVars, spent>>

\* the model has answered, or the turn ends with a failure text
Answer ==
  /\ turn = "model" /\ Live
  /\ Go("answer")
  /\ UNCHANGED <<chatVars, claimVars, replies, phase, fenced, ctlVars,
                 toolVars, ghostVars, spent>>

\* checkpoint_answer behind a new completion fence; the execution ends
Stage ==
  /\ turn = "answer" /\ Unlocked /\ Live
  /\ IF ~fence /\ Current \in Resumable
     THEN turn' = "deliver" /\ fence' = TRUE
     ELSE turn' = "discard" /\ fence' = fence
  /\ UNCHANGED <<msg, step, outcome>>
  /\ IF fence THEN active' = active ELSE Advance(Resumable, "answer_ready")
  /\ UNCHANGED <<session, history, claimVars, replies, phase, fenced, ctlVars,
                 toolVars, ghostVars, spent>>

-----------------------------------------------------------------------------
(* The reply and the claims                                                *)

Reply(m, kind) == replies' = [replies EXCEPT ![m] = @ \union {kind}]
Settle(m) == completed' = completed \union {m}

\* the exchange of the active turn becomes history
CompleteReadyTurn ==
  /\ history' = [history EXCEPT ![active.msg] = IF @ < 2 THEN @ + 1 ELSE @]
  /\ active' = NoTurn

\* deliver_final and the check that its exact obligation is recorded
Deliver ==
  /\ turn = "deliver"
  /\ Reply(msg, "answer")
  /\ Go("persist")
  /\ UNCHANGED <<chatVars, claimVars, phase, fenced, ctlVars, toolVars,
                 ghostVars, spent>>

\* persist_completed_claims before the turn becomes history
Persist ==
  /\ turn = "persist"
  /\ Settle(msg)
  /\ Go("finalize")
  /\ UNCHANGED <<chatVars, stage, replies, phase, fenced, ctlVars, toolVars,
                 ghostVars, spent>>

\* finalize_ready_turn: the fence opens only when the commit succeeds
Finalize ==
  /\ turn = "finalize"
  /\ IF Current = "answer_ready"
     THEN CompleteReadyTurn /\ turn' = Settled /\ fence' = FALSE
     ELSE UNCHANGED <<active, history, fence>> /\ turn' = "fail"
  /\ UNCHANGED <<session, claimVars, replies, phase, msg, step, outcome, fenced,
                 ctlVars, toolVars, ghostVars, spent>>

\* the message of a fenced session, or the input of a turn with an unknown
\* outcome, gets the warning of an interrupted turn instead of an answer
Warn ==
  /\ turn = "warn"
  /\ Reply(msg, "warning")
  /\ Go(IF phase = "startup" THEN "retire" ELSE "mark")
  /\ UNCHANGED <<chatVars, claimVars, phase, fenced, ctlVars, toolVars,
                 ghostVars, spent>>

\* the handler has returned: its claims are complete
Mark ==
  /\ turn = "mark"
  /\ Settle(msg)
  /\ stage' = [stage EXCEPT ![msg] = "sent"]
  /\ Go("free")
  /\ UNCHANGED <<chatVars, replies, phase, fenced, ctlVars, toolVars,
                 ghostVars, spent>>

-----------------------------------------------------------------------------
(* A published stop                                                        *)

\* the owner meets the outcome at a barrier or through its cancelled child
Stopped ==
  /\ turn \in {"prepare", "begin", "model", "tools", "after", "answer"}
  /\ ~Live
  /\ Go("stopped")
  /\ UNCHANGED <<chatVars, claimVars, replies, phase, fenced, ctlVars,
                 toolVars, ghostVars, spent>>

\* an unknown outcome fences the session
Fences == outcome = "unknown"

\* the stopped handler retires its input, before its tombstone
StopClaims ==
  /\ turn = "stopped"
  /\ Settle(msg)
  /\ fenced' = (fenced \/ Fences)
  /\ Go("finish")
  /\ UNCHANGED <<chatVars, stage, replies, phase, ctlVars, toolVars,
                 ghostVars, spent>>

\* finalize_stop
FinishStop ==
  /\ turn = "finish"
  /\ IF outcome # "stopped" THEN Go("mark") /\ UNCHANGED <<active, history>>
     ELSE IF active.phase = "stopped" THEN Go("mark") /\ CompleteReadyTurn
     ELSE Go("fail") /\ UNCHANGED <<active, history>>
  /\ UNCHANGED <<session, claimVars, replies, phase, fenced, ctlVars,
                 toolVars, ghostVars, spent>>

-----------------------------------------------------------------------------
(* Failures                                                                *)

\* Mutation: a handler whose reply was not recorded carries on.
AbortedUnlessDelivering(place) ==
  CASE place = "deliver" -> "persist"
    [] phase # "startup" /\ place \in {"model", "tools", "after", "answer"} -> "discard"
    [] OTHER -> "fail"

\* once the turn has begun respond_result first discards a checkpoint without
\* tool work; a failing recovery leaves its checkpoint alone
Aborted(place) ==
  IF phase # "startup" /\ place \in {"model", "tools", "after", "answer"}
  THEN "discard" ELSE "fail"

Breakable == turn \notin {"free", "fail", "list", "open"}

\* a call of the handler or of the recovery raises
Raise ==
  /\ Breakable
  /\ spent < Budget
  /\ spent' = spent + 1
  /\ Go(Aborted(turn))
  /\ UNCHANGED <<chatVars, claimVars, replies, phase, fenced, ctlVars, toolVars,
                 ghostVars>>

\* the drain of a shutdown expires: stop() cancels every task of the channel
Cancelled == control' = IF control = "publish" THEN control ELSE "none"

Cancel ==
  /\ phase = "closing"
  /\ Breakable
  /\ Go(Aborted(turn))
  /\ Cancelled
  /\ UNCHANGED <<chatVars, claimVars, replies, phase, fenced, staged, asked, toolVars,
                 ghostVars, spent>>

\* a cancelled begin_turn whose transaction commits behind its caller
TornBegin ==
  /\ phase = "closing"
  /\ turn = "begin" /\ Unlocked /\ Live
  /\ Current = "none"
  /\ active' = Started
  /\ Go("fail")
  /\ Cancelled
  /\ UNCHANGED <<session, history, claimVars, replies, phase, fenced, staged, asked,
                 toolVars, ghostVars, spent>>

\* discard_unstarted_turn
Discard ==
  /\ turn = "discard"
  /\ active' = IF Current = "started" THEN NoTurn ELSE active
  /\ Go("fail")
  /\ UNCHANGED <<session, history, claimVars, replies, phase, fenced, ctlVars,
                 toolVars, ghostVars, spent>>

\* the channel fails and drops its queue: the bridge keeps those claims
Fail ==
  /\ turn = "fail"
  /\ phase' = "closing"
  /\ stage' = [m \in Messages |-> "sent"]
  /\ Go("free")
  /\ UNCHANGED <<chatVars, completed, replies, fenced, ctlVars, toolVars,
                 ghostVars, spent>>

-----------------------------------------------------------------------------
(* Control commands.  Accepting one drops what is queued but not taken.    *)

Queued == {m \in Messages : stage[m] = "queued"}

Ask(command) ==
  /\ phase = "up" /\ control = "none"
  /\ asked < MaxControls
  /\ asked' = asked + 1
  /\ control' = command
  /\ completed' = completed \union Queued
  /\ waived' = waived \union Queued
  /\ stage' = [m \in Messages |-> IF m \in Queued THEN "sent" ELSE stage[m]]
  /\ UNCHANGED <<chatVars, replies, phase, turnVars, fenced, staged, toolVars,
                 orphaned, quiet, late, spent>>

\* Mutation: a stop among running tools is reported as stopped.
VerdictSure(found) ==
  CASE found \in Resumable \union {"tool_requested"} -> "stopped"
    [] found = "answer_ready"     -> "late"
    [] found = "none"             -> "gone"
    [] OTHER                      -> found

\* what request_stop answers for the phase it finds
Verdict(found) ==
  CASE found \in Resumable        -> "stopped"
    [] found = "tool_requested"   -> "unknown"
    [] found = "answer_ready"     -> "late"
    [] found = "none"             -> "gone"
    [] OTHER                      -> found

\* nothing runs, the answer is on its way, or the stop was already published
StopReply ==
  /\ control = "stop"
  /\ ~Executing \/ outcome # "none"
  /\ control' = "none"
  /\ late' = IF ~Executing /\ fence THEN late \union {msg} ELSE late
  /\ UNCHANGED <<chatVars, claimVars, replies, phase, turnVars, fenced, staged, asked,
                 toolVars, waived, orphaned, quiet, spent>>

\* the stop transition persists: the claims of a turn still in preparation,
\* or the phase of the active turn
StopPersist ==
  /\ control = "stop"
  /\ Executing /\ outcome = "none"
  /\ control' = "publish"
  /\ IF turn \in Preparing
     THEN /\ Settle(msg)
          /\ staged' = "dropped"
          /\ active' = active
     ELSE /\ completed' = completed
          /\ staged' = Verdict(Current)
          /\ active' = IF Current \in Resumable \union {"tool_requested"}
                       THEN [phase |-> Verdict(Current), msg |-> active.msg,
                             session |-> active.session, step |-> active.step]
                       ELSE active
  /\ waived' = IF staged' \in {"dropped", "stopped", "unknown"}
               THEN waived \union {msg} ELSE waived
  /\ UNCHANGED <<session, history, stage, replies, phase, turnVars, fenced, asked,
                 toolVars, orphaned, quiet, late, spent>>

\* the outcome is published, the child cancelled, the user told
StopPublish ==
  /\ control = "publish"
  /\ control' = "none"
  /\ staged' = "none"
  /\ outcome' = IF Executing THEN staged ELSE outcome
  /\ quiet' = IF staged \in {"dropped", "stopped"} THEN quiet \union {msg} ELSE quiet
  /\ late' = IF staged = "late" THEN late \union {msg} ELSE late
  /\ UNCHANGED <<chatVars, claimVars, replies, phase, turn, msg, step, fence, fenced,
                 asked, toolVars, waived, orphaned, spent>>

\* new_session: a new session, and the checkpoint of the one it leaves goes
NewSession ==
  /\ session' = session + 1
  /\ active' = IF active.session = session THEN NoTurn ELSE active

\* forget: refused while a turn or its delivery owns the conversation;
\* otherwise a new session starts and the old checkpoint goes
New ==
  /\ control = "new"
  /\ control' = "none"
  /\ IF Executing \/ fence \/ session = MaxSession
     THEN UNCHANGED <<session, active, fenced, orphaned>>
     ELSE /\ NewSession
          /\ fenced' = FALSE
          /\ orphaned' = IF Current # "none" /\ active.msg \notin completed
                         THEN orphaned \union {active.msg} ELSE orphaned
  /\ UNCHANGED <<history, claimVars, replies, phase, turnVars, staged, asked,
                 toolVars, waived, quiet, late, spent>>

\* /effort honours an elapsed session boundary unless a turn is executing
Effort ==
  /\ phase # "startup" /\ control = "none"
  /\ asked < MaxControls
  /\ asked' = asked + 1
  /\ ~Executing
  /\ Resettable
  /\ session < MaxSession
  /\ session' = session + 1
  /\ UNCHANGED <<active, history, claimVars, replies, phase, turnVars, fenced, control,
                 staged, toolVars, ghostVars, spent>>

\* the store call of a control command raises, or a shutdown cancels it
ControlFails ==
  /\ control \in {"stop", "new"}
  /\ IF phase = "closing" /\ ~Breakable THEN spent' = spent
     ELSE spent < Budget /\ spent' = spent + 1
  /\ control' = "none"
  /\ UNCHANGED <<chatVars, claimVars, replies, phase, turnVars, fenced, staged, asked,
                 toolVars, ghostVars>>

-----------------------------------------------------------------------------
(* Shutdown, crash and startup                                             *)

Shutdown ==
  /\ phase = "up"
  /\ spent < Budget
  /\ phase' = "closing"
  /\ spent' = spent + 1
  /\ UNCHANGED <<chatVars, claimVars, replies, turnVars, fenced, ctlVars,
                 toolVars, ghostVars>>

\* Mutation: what was queued or taken is lost with the process.
ReplayedNever == stage

\* the bridge hands every claim out again that was not acknowledged
Replayed == [m \in Messages |-> "sent"]

\* the process is gone at any point and another one starts
Restart ==
  /\ phase = "closing" \/ spent < Budget
  /\ spent' = IF phase = "closing" THEN spent ELSE spent + 1
  /\ phase' = "startup"
  /\ stage' = Replayed
  /\ turn' = "list"
  /\ step' = 0
  /\ outcome' = "none"
  /\ fence' = FALSE
  /\ fenced' = FALSE
  /\ control' = "none"
  /\ staged' = "none"
  /\ running' = {}
  /\ UNCHANGED <<chatVars, completed, replies, msg, effects, asked, ghostVars>>

\* Mutation: a resumed turn starts over.
ResumeFirst == 0

\* the resumed turn goes on behind its last checkpointed tool step
ResumeStep == active.step

\* the phases whose turn the startup resumes
Recoverable == {"started", "tool_completed"}

\* what becomes of the turn list_active_turns finds
Recovery ==
  CASE active.phase = "none"       -> "open"
    [] active.phase # "none" /\ active.session # session -> "fail"
    [] Current \in Recoverable     -> "model"
    [] Current = "answer_ready"    -> "deliver"
    [] Current = "stopped"         -> "unclaim"
    [] OTHER                       -> "warn"

\* the tool outcome of the active turn cannot be known any more
Distrust ==
  /\ active' = [phase |-> "unknown", msg |-> active.msg,
                session |-> active.session, step |-> active.step]
  /\ fenced' = TRUE

\* recover_turn: on from the checkpoint, or a stored answer behind its fence
RecoverTurn(place) ==
  /\ step' = IF place = "model" THEN ResumeStep ELSE step
  /\ fence' = (fence \/ place = "deliver")

List ==
  /\ turn = "list"
  /\ turn' = Recovery
  /\ msg' = IF active.phase = "none" THEN msg ELSE active.msg
  /\ RecoverTurn(turn')
  /\ IF turn' = "warn" THEN Distrust ELSE UNCHANGED <<active, fenced>>
  /\ UNCHANGED <<session, history, claimVars, replies, phase, outcome, ctlVars, toolVars,
                 ghostVars, spent>>

\* _validate_completed_tool_trajectory: which checkpoints can no longer be interpreted
\* is left open; each rejection counts against the bound of the faults
Rejected == Current \in Recoverable /\ spent < Budget

\* TurnRecoveryRejected: the turn of that checkpoint is not recovered
Reject ==
  /\ turn = "list"
  /\ Rejected
  /\ spent' = spent + 1
  /\ Distrust
  /\ turn' = "warn"
  /\ msg' = active.msg
  /\ UNCHANGED <<session, history, claimVars, replies, phase, step, outcome, fence,
                 ctlVars, toolVars, ghostVars>>

\* _retire_unknown_turn_claims, behind its warning
Retire ==
  /\ turn = "retire"
  /\ Settle(msg)
  /\ Go("open")
  /\ UNCHANGED <<chatVars, stage, replies, phase, fenced, ctlVars, toolVars,
                 ghostVars, spent>>

\* _retire_stopped_turns: first the claims, then the tombstone
Unclaim ==
  /\ turn = "unclaim"
  /\ Settle(msg)
  /\ Go("entomb")
  /\ UNCHANGED <<chatVars, stage, replies, phase, fenced, ctlVars, toolVars,
                 ghostVars, spent>>

Entomb ==
  /\ turn = "entomb"
  /\ IF active.phase = "stopped" THEN CompleteReadyTurn /\ Go("open")
     ELSE UNCHANGED <<active, history>> /\ Go("fail")
  /\ UNCHANGED <<session, claimVars, replies, phase, fenced, ctlVars, toolVars,
                 ghostVars, spent>>

\* the intake is released
Open ==
  /\ turn = "open"
  /\ phase' = "up"
  /\ Go("free")
  /\ UNCHANGED <<chatVars, claimVars, replies, fenced, ctlVars, toolVars,
                 ghostVars, spent>>

-----------------------------------------------------------------------------
Init ==
  /\ session = 1
  /\ active = NoTurn
  /\ history = [m \in Messages |-> 0]
  /\ completed = {}
  /\ replies = [m \in Messages |-> {}]
  /\ stage = [m \in Messages |-> "sent"]
  /\ phase = "startup"
  /\ turn = "list"
  /\ msg = CHOOSE m \in Messages : TRUE
  /\ step = 0
  /\ outcome = "none"
  /\ fence = FALSE
  /\ fenced = FALSE
  /\ control = "none"
  /\ staged = "none"
  /\ running = {}
  /\ effects = [m \in Messages |-> [i \in Steps |-> 0]]
  /\ waived = {} /\ orphaned = {} /\ quiet = {} /\ late = {}
  /\ asked = 0
  /\ spent = 0

\* _run_turn: the model is asked and the tools are run, until there is an answer
Working == Request \/ Gathered \/ Complete \/ Answer

\* respond_result
Answering == Prepare \/ Begin \/ Working \/ Stage

\* the channel's handler: the answer is sent and the turn closed
Replying == Deliver \/ Persist \/ Finalize \/ Warn \/ Mark

TurnStep ==
  \/ Answering \/ Replying
  \/ Stopped \/ StopClaims \/ FinishStop
  \/ Discard \/ Fail

StartupStep == List \/ Retire \/ Unclaim \/ Entomb \/ Open

ControlStep == StopReply \/ StopPersist \/ StopPublish \/ New

Next ==
  \/ \E m \in Messages : Accept(m) \/ Take(m) \/ \E i \in Steps : ToolEnds(m, i)
  \/ TurnStep \/ StartupStep \/ ControlStep
  \/ Ask("stop") \/ Ask("new") \/ Effort
  \/ Raise \/ Cancel \/ TornBegin \/ ControlFails \/ Shutdown \/ Restart \/ Reject

Spec == Init /\ [][Next]_vars

\* started coroutines and worker threads run on, the bridge hands out its
\* claims, model and tool calls end, a supervisor restarts the service
Fairness ==
  /\ WF_vars(TurnStep) /\ WF_vars(StartupStep) /\ WF_vars(ControlStep)
  /\ \A m \in Messages : WF_vars(Accept(m)) /\ WF_vars(Take(m))
  /\ WF_vars(\E m \in Messages, i \in Steps : ToolEnds(m, i))
  /\ WF_vars(phase = "closing" /\ Restart)

FairSpec == Spec /\ Fairness

-----------------------------------------------------------------------------
(* What the conversation promises                                          *)

Places == Owned \union {"free", "list", "deliver", "persist", "finalize", "warn",
                        "mark", "fail", "retire", "unclaim", "entomb", "open"}

\* Every variable has its type; in particular a turn never takes more tool
\* steps than max_tool_iterations, also when a restart resumes it.
TypeOK ==
  /\ session \in 1..MaxSession
  /\ active \in Turn
  /\ history \in [Messages -> 0..2]
  /\ completed \subseteq Messages
  /\ replies \in [Messages -> SUBSET {"answer", "warning"}]
  /\ stage \in [Messages -> {"sent", "queued", "taken"}]
  /\ phase \in {"startup", "up", "closing"}
  /\ turn \in Places
  /\ msg \in Messages
  /\ step \in 0..MaxSteps
  /\ outcome \in {"none", "stopped", "dropped", "unknown", "late", "gone"}
  /\ fence \in BOOLEAN
  /\ fenced \in BOOLEAN
  /\ control \in {"none", "stop", "new", "publish"}
  /\ staged \in {"none", "stopped", "dropped", "unknown", "late", "gone"}
  /\ running \subseteq Messages \X Steps
  /\ effects \in [Messages -> [Steps -> 0..2]]
  /\ waived \subseteq Messages /\ orphaned \subseteq Messages
  /\ quiet \subseteq Messages /\ late \subseteq Messages
  /\ asked \in 0..MaxControls
  /\ spent \in 0..Budget

\* The unfinished turn belongs to the chat's current session, whatever resets
\* it: list_active_turns refuses to start on a detached one.
NeverDetached == active.phase # "none" => active.session = session

\* No tool step of a message runs twice: not after a crash, a stop, a replay
\* of the bridge or a resumed turn.  (A message whose checkpoint /new has
\* deleted is the exception: see AbandonedStaysAbandoned.)
ToolsOnce ==
  \A m \in Messages \ orphaned : \A i \in Steps : effects[m][i] <= 1

\* A settled message was answered or warned about, or the user has waived it
\* with a control command: no accepted message disappears.
NoSilentDrop ==
  \A m \in completed : replies[m] # {} \/ m \in waived

\* An exchange enters the history once, and only after its input claims are
\* settled: a replay can never add it again.
ClaimBeforeHistory ==
  \A m \in Messages : history[m] <= 1 /\ (history[m] = 1 => m \in completed)

\* Who was told that the turn is stopped never gets its answer.
OneVerdict ==
  \A m \in quiet \ orphaned : "answer" \notin replies[m]

\* Nor does a tool of a turn reported as stopped take effect afterwards: what
\* may still happen is reported as unknown.
QuietAfterStop ==
  [][\A m \in quiet \ orphaned : effects'[m] = effects[m]]_vars

\* Only /new clears an unknown tool outcome.
UnknownIsSticky ==
  [][active.phase = "unknown" =>
       active' = active \/ (session' > session /\ control = "new")]_vars

\* An idle conversation can take its next message: no checkpoint stands in
\* its way but an unknown one, and that one is fenced.
IdleIsClean ==
  phase = "up" /\ turn = "free" /\ control = "none" =>
    /\ ~fence
    /\ active.phase = "none" \/ (active.phase = "unknown" /\ fenced)

\* A message whose unfinished turn /new has abandoned is not worked on again.
AbandonedStaysAbandoned ==
  \A m \in orphaned : active.phase = "none" \/ active.msg # m

\* Every message is settled at last, and a stop that came too late came too
\* late because the answer does come.
EventuallyCompleted ==
  []<>(Messages \subseteq completed /\ \A m \in late : "answer" \in replies[m])

-----------------------------------------------------------------------------
(* The same, grouped as the runs check them                                *)

\* Every variable has its type, and no reset and no end of a turn leaves a
\* checkpoint that stands in the way of the conversation.
CleanConversation == TypeOK /\ NeverDetached /\ IdleIsClean

\* Settling a message and keeping its exchange are one.
SettledOnce == NoSilentDrop /\ ClaimBeforeHistory

\* What was reported as stopped or as unknown stays so.
StopIsFinal == QuietAfterStop /\ UnknownIsSticky
=============================================================================
