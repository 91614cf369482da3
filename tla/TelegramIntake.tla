---------------------------- MODULE TelegramIntake ----------------------------
(***************************************************************************)
(* The way of one Telegram conversation's updates from the server's queue  *)
(* through the durable spool (_TelegramInboundStore, _DurableUpdateQueue), *)
(* python-telegram-bot's dispatcher, the startup gate, the quiet period,   *)
(* the turn queue and the commands of channels/telegram.py to an answer,   *)
(* and the startup of main.py that resumes what a crash interrupted.       *)
(*                                                                         *)
(* The server hands over every update from the offset the last request     *)
(* confirmed.  The spool, the checkpoint of the turn and the outcomes of   *)
(* commands survive a restart; everything else is the process's memory.    *)
(* What one coroutine does between two awaits is one step.                 *)
(***************************************************************************)
EXTENDS Integers, Sequences, FiniteSets, SequencesExt

CONSTANTS
    N,        \* the updates are 1 .. N, in the order the server numbers them
    Scripts,  \* what the updates may be
    Budget    \* bound, for each script, on crashes, failures and operator changes

Updates == 1 .. N

(* A text, a media message, an edit of the update before it (its message   *)
(* has the same identity), a command (/stop, /new and /effort are ordered, *)
(* /approve is not), something the handler finds nothing to answer in, or  *)
(* the message of somebody who is not allowed, or something no handler     *)
(* takes, as a contact.  "none" is not sent.                               *)
Kinds == {"text", "media", "edit", "stop", "new", "effort", "approve",
          "ignored", "stranger", "other", "none"}
ASSUME TelegramAssumption ==
    /\ N \in Nat \ {0}
    /\ Scripts \subseteq [Updates -> Kinds]
    /\ Budget \in [Scripts -> Nat]

VARIABLES
    kind,       \* what each update is
    allowed,    \* whether the sender is in TELEGRAM_ALLOWED_USERS
    confirmed,  \* the server's offset: updates below it are gone from there
    offset,     \* the offset of the process's next getUpdates
    fetched,    \* the rest of a response, being put into the queue
    putting,    \* the update whose put waits for the spool, and what it said
    spool,      \* telegram_updates
    queue,      \* _DurableUpdateQueue
    enqueued,   \* _enqueued_claims
    slot,       \* the update the dispatcher and release_inbound handle
    startup,    \* _startup_updates
    heldClaims, \* _startup_held_claims
    mode,       \* the runtime
    failed,     \* TelegramChannel.failure
    seen,       \* _seen
    cached,     \* _completed_claims
    batch,      \* _pending
    late,       \* _held_inbound
    queued,     \* _queued
    turn,       \* _turn_tasks: its claims and where it stands
    cmd,        \* the command tasks
    after,      \* the ordered commands each command waits for
    dropped,    \* the claims each /stop and /new made void, to be completed
    checkpoint, \* the turn history keeps: its claims and its phase
    outcome,    \* command_outcomes
    answers,    \* how many answers were chosen for each update
    waived,     \* updates made void: refused, stopped, or of unknown outcome
    spent       \* faults so far

server == <<confirmed, offset, fetched, putting>>
durable == <<spool, checkpoint, outcome>>
inflow == <<queue, enqueued, slot, startup, heldClaims, seen, cached>>
work == <<batch, late, queued, turn, cmd, after, dropped>>
ghosts == <<answers, waived>>
vars == <<kind, allowed, server, durable, inflow, mode, failed, work, ghosts, spent>>

NoTurn == [claims |-> <<>>, at |-> "none"]
NoCheckpoint == [claims |-> {}, phase |-> "none"]
Nobody == [m |-> 0, said |-> "none"]
Idle == [m |-> 0, at |-> "idle"]
Handlers == {"dispatcher", "release"}
Texts == {"text", "media", "edit"}
Ordered == {"stop", "new", "effort"}
Control == {"stop", "new"}

Sent == {m \in Updates : kind[m] # "none"}

Init ==
    /\ kind \in Scripts /\ allowed = TRUE
    /\ confirmed = 1 /\ offset = 1 /\ fetched = <<>> /\ putting = Nobody
    /\ spool = [m \in Updates |-> "none"]
    /\ queue = <<>> /\ enqueued = {}
    /\ slot = [h \in Handlers |-> Idle]
    /\ startup = <<>> /\ heldClaims = {}
    /\ mode = "off" /\ failed = FALSE
    /\ seen = {} /\ cached = {}
    /\ batch = <<>> /\ late = <<>> /\ queued = <<>> /\ turn = NoTurn
    /\ cmd = [m \in Updates |-> "none"]
    /\ after = [m \in Updates |-> {}]
    /\ dropped = [m \in Updates |-> {}]
    /\ checkpoint = NoCheckpoint
    /\ outcome = [m \in Updates |-> "none"]
    /\ answers = [m \in Updates |-> 0]
    /\ waived = {} /\ spent = 0

Fault == spent < Budget[kind] /\ spent' = spent + 1

(* "held" until interrupted turns are recovered, "releasing" what was held *)
(* meanwhile, "up"; stop_intake: "closing" releases what is held still,    *)
(* "draining" lets the dispatcher end; stop: "leaving" lets turns end.     *)
Gated == mode \in {"held", "recovered", "releasing"}
Stopping == mode \in {"closing", "draining", "leaving"}
Dispatching == mode \notin {"off", "leaving"}

(* release_inbound goes from one held update to the next without an await. *)
Busy ==
    /\ mode \in {"releasing", "closing"}
    /\ startup # <<>> /\ slot["release"] = Idle
Running == mode # "off" /\ ~Busy

-----------------------------------------------------------------------------
(* Long polling, and _DurableUpdateQueue.put for each update of a response *)
(* before the offset moves past it.                                        *)

Interval(a, b) == [i \in 1 .. (b - a + 1) |-> a + i - 1]

Poll ==
    /\ Running /\ ~Stopping /\ ~failed /\ fetched = <<>>
    /\ confirmed' = IF offset > confirmed THEN offset ELSE confirmed
    /\ \E last \in confirmed' - 1 .. N :
           /\ last >= confirmed' \/ offset > confirmed
           /\ confirmed' .. last \subseteq Sent
           /\ fetched' = Interval(confirmed', last)
    /\ UNCHANGED <<kind, allowed, offset, putting, durable, inflow, mode,
                   failed, work, ghosts, spent>>

Passed ==
    /\ fetched' = Tail(fetched)
    /\ offset' = IF Tail(fetched) = <<>> THEN Head(fetched) + 1 ELSE offset

(* _durable_update_required *)
Wanted(m) == kind[m] # "other"

Trusted(m) == allowed /\ kind[m] # "stranger"

(* An update without a handler goes to the queue as it is; the message of  *)
(* somebody who is not allowed is dropped; anything else is recorded.      *)
Record ==
    /\ Running /\ fetched # <<>> /\ putting = Nobody
    /\ LET m == Head(fetched) IN
       \/ /\ ~Wanted(m) /\ queue' = Append(queue, m)
          /\ Passed /\ UNCHANGED <<putting, spool, waived>>
       \/ /\ Wanted(m) /\ ~Trusted(m) /\ waived' = waived \cup {m}
          /\ Passed /\ UNCHANGED <<putting, spool, queue>>
       \/ /\ Wanted(m) /\ Trusted(m)
          /\ spool' = [spool EXCEPT ![m] =
                 IF @ \in {"none", "gone"} THEN "pending" ELSE @]
          /\ putting' = [m |-> m, said |-> spool'[m]]
          /\ UNCHANGED <<fetched, offset, queue, waived>>
    /\ UNCHANGED <<kind, allowed, confirmed, checkpoint, outcome, enqueued,
                   slot, startup, heldClaims, seen, cached, mode, failed, work,
                   answers, spent>>

Put ==
    /\ Running /\ putting # Nobody
    /\ putting' = Nobody /\ Passed
    /\ IF putting.said = "completed" \/ putting.m \in enqueued
       THEN UNCHANGED <<queue, enqueued>>
       ELSE /\ enqueued' = enqueued \cup {putting.m}
            /\ queue' = Append(queue, putting.m)
    /\ UNCHANGED <<kind, allowed, confirmed, durable, slot, startup, heldClaims,
                   seen, cached, mode, failed, work, ghosts, spent>>

(* The spool fails, and with it the channel: the offset stays.             *)
RecordFails ==
    /\ Running /\ fetched # <<>> /\ putting = Nobody
    /\ Fault
    /\ failed' = TRUE /\ fetched' = <<>>
    /\ UNCHANGED <<kind, allowed, confirmed, offset, putting, durable, inflow,
                   mode, work, ghosts>>

(* Polling conflicts, loses its authorization or stalls (_polling_watchdog). *)
PollingFails ==
    /\ Running /\ mode = "up" /\ ~failed
    /\ Fault
    /\ failed' = TRUE
    /\ UNCHANGED <<kind, allowed, server, durable, inflow, mode, work, ghosts>>

-----------------------------------------------------------------------------
(* The handlers.  An update is handled by the dispatcher, one at a time,   *)
(* and what was held at startup by release_inbound.                        *)

Active == {m \in Updates : cmd[m] # "none"}
Gate == {m \in Active : kind[m] \in Ordered}

\* Mutation: remembered by this process only.
CompletesInMemory(claims) ==
    cached' = cached \cup claims /\ enqueued' = enqueued \ claims /\ UNCHANGED spool

(* complete, and _complete_claims around it.                               *)
Completes(claims) ==
    /\ spool' = [m \in Updates |-> IF m \in claims THEN "completed" ELSE spool[m]]
    /\ cached' = cached \cup claims
    /\ enqueued' = enqueued \ claims

Found(claims) == \A m \in claims : spool[m] \in {"pending", "completed"}

NewTurn(claims) == [claims |-> claims, at |-> "working"]

(* _queue_turn: behind a command or a turn the batch waits, merged with    *)
(* what waits already.                                                     *)
QueueTurn(claims) ==
    IF Gate # {} \/ turn # NoTurn
    THEN queued' = queued \o claims /\ UNCHANGED turn
    ELSE turn' = NewTurn(claims) /\ UNCHANGED queued

MessageKey(m) == IF kind[m] = "edit" THEN m - 1 ELSE m

(* _enqueue: held back once the intake stops; else into the batch of the   *)
(* quiet period, after the batch whose hard cap has passed was sent on.    *)
Collect(m) ==
    /\ kind[m] \in Texts
    /\ \/ /\ Stopping /\ late' = Append(late, m)
          /\ UNCHANGED <<batch, queued, turn>>
       \/ /\ ~Stopping /\ batch' = Append(batch, m)
          /\ UNCHANGED <<late, queued, turn>>
       \/ /\ ~Stopping /\ batch # <<>> /\ QueueTurn(batch) /\ batch' = <<m>>
          /\ UNCHANGED late
    /\ UNCHANGED <<cmd, after, dropped>>

(* /stop and /new make void what waits to be answered (_drop_pending_      *)
(* session); an ordered command waits for those before it, but for a /stop *)
(* that comes while /effort is being checked.                              *)
WaitsFor(m) ==
    IF kind[m] = "stop" /\ \E e \in Gate : kind[e] = "effort" THEN {} ELSE Gate

Command(m) ==
    /\ kind[m] \in Ordered \cup {"approve"}
    /\ cmd' = [cmd EXCEPT ![m] = "waiting"]
    /\ after' = [after EXCEPT ![m] = IF kind[m] \in Ordered THEN WaitsFor(m) ELSE {}]
    /\ IF kind[m] \in Control
       THEN /\ dropped' = [dropped EXCEPT ![m] = ToSet(batch \o queued)]
            /\ batch' = <<>> /\ queued' = <<>>
       ELSE UNCHANGED <<dropped, batch, queued>>
    /\ UNCHANGED <<late, turn>>

(* _accept_message: a message seen before has only its claim completed.    *)
Accept(m, h) ==
    \/ /\ MessageKey(m) \in seen
       /\ slot' = [slot EXCEPT ![h] = [m |-> m, at |-> "settling"]]
       /\ UNCHANGED <<seen, work>>
    \/ /\ MessageKey(m) \notin seen
       /\ seen' = seen \cup {MessageKey(m)}
       /\ slot' = [slot EXCEPT ![h] = Idle]
       /\ Collect(m) \/ Command(m)

(* _claims_are_completed *)
Completed(m) == m \in cached

\* Mutation: anything passes once turns are resumed.
AnyBypasses(m) == checkpoint.phase \in {"started", "ready"}

(* While the gate is closed only /approve passes, once turns are resumed.  *)
Bypasses(m) == kind[m] = "approve" /\ checkpoint.phase \in {"started", "ready"}

\* Mutation: the gate opens before what was held is released.
OpensFirst == mode \in {"held", "recovered"}

Closed ==
    Gated \/ (mode = "closing" /\ (startup # <<>> \/ slot["release"] # Idle))

(* _authorized: also a group message must call the bot.                    *)
Authorized(m) == kind[m] # "ignored"

(* _handle_text, _handle_command, _handle_location, _handle_media.         *)
Handle(m, h) ==
    \/ /\ Completed(m)
       /\ enqueued' = enqueued \ {m}
       /\ slot' = [slot EXCEPT ![h] = Idle]
       /\ UNCHANGED <<heldClaims, seen, work>>
    \/ /\ ~Completed(m) /\ ~Authorized(m)
       /\ slot' = [slot EXCEPT ![h] = [m |-> m, at |-> "settling"]]
       /\ UNCHANGED <<enqueued, heldClaims, seen, work>>
    \/ /\ ~Completed(m) /\ kind[m] = "media"
       /\ slot' = [slot EXCEPT ![h] = [m |-> m, at |-> "downloading"]]
       /\ UNCHANGED <<enqueued, heldClaims, seen, work>>
    \/ /\ kind[m] = "other"
       /\ UNCHANGED <<slot, enqueued, heldClaims, seen, work>>
    \/ /\ ~Completed(m) /\ Authorized(m) /\ kind[m] \notin {"media", "other"}
       /\ Accept(m, h)
       /\ UNCHANGED <<enqueued, heldClaims>>

(* _hold_startup_update *)
Hold(m) ==
    /\ startup' = IF m \in heldClaims THEN startup ELSE Append(startup, m)
    /\ heldClaims' = heldClaims \cup {m}
    /\ UNCHANGED <<enqueued, slot, seen, work>>

Held(m) ==
    /\ Closed /\ ~Bypasses(m)
    /\ ~Completed(m) /\ Authorized(m) /\ kind[m] # "other"

Dispatch ==
    /\ Running /\ Dispatching
    /\ slot["dispatcher"] = Idle /\ queue # <<>>
    /\ queue' = Tail(queue)
    /\ LET m == Head(queue) IN
       \/ Held(m) /\ Hold(m)
       \/ ~Held(m) /\ Handle(m, "dispatcher") /\ UNCHANGED startup
    /\ UNCHANGED <<kind, allowed, server, durable, cached, mode, failed, ghosts,
                   spent>>

(* release_inbound: the gate stays closed until nothing is held.           *)
ReleaseNext ==
    /\ Busy
    /\ startup' = Tail(startup)
    /\ Handle(Head(startup), "release")
    /\ UNCHANGED <<kind, allowed, server, durable, queue, cached, mode, failed,
                   ghosts, spent>>

(* The download ends; one that failed leaves a note in its place.          *)
Download(h) ==
    /\ Running /\ slot[h].at = "downloading"
    /\ Accept(slot[h].m, h)
    /\ UNCHANGED <<kind, allowed, server, durable, queue, enqueued, startup,
                   heldClaims, cached, mode, failed, ghosts, spent>>

SettleUpdate(h) ==
    /\ Running /\ slot[h].at = "settling"
    /\ Completes({slot[h].m})
    /\ slot' = [slot EXCEPT ![h] = Idle]
    /\ UNCHANGED <<kind, allowed, server, checkpoint, outcome, queue, startup,
                   heldClaims, seen, mode, failed, work, ghosts, spent>>

(* The handler raises: _handle_update_error.                               *)
UpdateFails(h) ==
    /\ Running /\ slot[h].at = "settling"
    /\ Fault
    /\ failed' = TRUE
    /\ slot' = [slot EXCEPT ![h] = Idle]
    /\ UNCHANGED <<kind, allowed, server, durable, queue, enqueued, startup,
                   heldClaims, seen, cached, mode, work, ghosts>>

(* _flush_after_quiet; the grace for a download only delays it.            *)
Flush ==
    /\ Running /\ ~Stopping /\ batch # <<>>
    /\ QueueTurn(batch)
    /\ batch' = <<>>
    /\ UNCHANGED <<kind, allowed, server, durable, inflow, mode, failed, late,
                   cmd, after, dropped, ghosts, spent>>

-----------------------------------------------------------------------------
(* _run_turn_queue and the handler it calls (handle_telegram).             *)

Claims == ToSet(turn.claims)
At(phase) == turn' = [turn EXCEPT !.at = phase]
Fenced == checkpoint.phase = "unknown"

Counted(S) ==
    answers' = [m \in Updates |->
        IF m \in S /\ answers[m] < 2 THEN answers[m] + 1 ELSE answers[m]]

(* respond: the turn is checkpointed with its claims, then answered.       *)
Begin ==
    /\ Running /\ turn.at = "working" /\ checkpoint = NoCheckpoint
    /\ checkpoint' = [claims |-> Claims, phase |-> "started"]
    /\ At("model")
    /\ UNCHANGED <<kind, allowed, server, spool, outcome, inflow, mode, failed,
                   batch, late, queued, cmd, after, dropped, ghosts, spent>>

(* A conversation whose last outcome is unknown is only told so, in the    *)
(* same words whenever this is repeated: one obligation.                   *)
Notify ==
    /\ Running /\ turn.at = "working" /\ Fenced
    /\ waived' = waived \cup Claims
    /\ At("returned")
    /\ UNCHANGED <<kind, allowed, server, durable, inflow, mode, failed, batch,
                   late, queued, cmd, after, dropped, answers, spent>>

Answer ==
    /\ Running /\ turn.at = "model"
    /\ checkpoint' = [checkpoint EXCEPT !.phase = "ready"]
    /\ Counted(Claims)
    /\ At("ready")
    /\ UNCHANGED <<kind, allowed, server, spool, outcome, inflow, mode, failed,
                   batch, late, queued, cmd, after, dropped, waived, spent>>

(* TurnStopped: the claims are completed, then the checkpoint goes, or     *)
(* stays when a tool's outcome is not known.                               *)
Stopped ==
    /\ Running /\ turn.at = "model"
    /\ \E c \in Active : kind[c] \in Control /\ cmd[c] = "executing"
    /\ Completes(Claims)
    /\ waived' = waived \cup Claims
    /\ \/ checkpoint' = NoCheckpoint
       \/ checkpoint' = [checkpoint EXCEPT !.phase = "unknown"]
    /\ At("returned")
    /\ UNCHANGED <<kind, allowed, server, outcome, queue, slot, startup,
                   heldClaims, seen, mode, failed, batch, late, queued, cmd,
                   after, dropped, answers, spent>>

(* persist_completed_claims once the reply is owed, finalize_ready_turn.   *)
Fence ==
    /\ Running /\ turn.at = "ready"
    /\ Found(Claims) /\ Completes(Claims)
    /\ At("answered")
    /\ UNCHANGED <<kind, allowed, server, checkpoint, outcome, queue, slot,
                   startup, heldClaims, seen, mode, failed, batch, late, queued,
                   cmd, after, dropped, ghosts, spent>>

Finalize ==
    /\ Running /\ turn.at = "answered"
    /\ checkpoint' = NoCheckpoint
    /\ At("returned")
    /\ UNCHANGED <<kind, allowed, server, spool, outcome, inflow, mode, failed,
                   batch, late, queued, cmd, after, dropped, ghosts, spent>>

(* The task's end, or its next round unless a command is under way.        *)
Continue ==
    IF failed THEN queued' = <<>> /\ turn' = NoTurn
    ELSE IF Gate # {} \/ queued = <<>> THEN turn' = NoTurn /\ UNCHANGED queued
    ELSE turn' = NewTurn(queued) /\ queued' = <<>>

(* The handler returned: claims not yet completed are.                     *)
Return ==
    /\ Running /\ turn.at = "returned"
    /\ Completes(Claims)
    /\ Continue
    /\ UNCHANGED <<kind, allowed, server, checkpoint, outcome, queue, slot,
                   startup, heldClaims, seen, mode, failed, batch, late, cmd,
                   after, dropped, ghosts, spent>>

(* Whatever the handler raises fails the channel: the spool has the claims. *)
HandlerFails ==
    /\ failed' = TRUE
    /\ queued' = <<>> /\ turn' = NoTurn
    /\ UNCHANGED <<kind, allowed, server, durable, inflow, mode, batch, late,
                   cmd, after, dropped, ghosts>>

Raise ==
    /\ Running /\ turn.at \in {"working", "model", "ready", "answered", "returned"}
    /\ HandlerFails /\ Fault

(* begin_turn refuses while the conversation's last turn is incomplete.    *)
Refuse ==
    /\ Running /\ turn.at = "working" /\ checkpoint # NoCheckpoint /\ ~Fenced
    /\ HandlerFails /\ UNCHANGED spent

(* handle_telegram, from a batch to its claims. *)
HandlerStep ==
    Begin \/ Notify \/ Answer \/ Stopped \/ Fence \/ Finalize \/ Refuse

-----------------------------------------------------------------------------
(* Commands: _run_control_command_after_fence, _run_command and, as one    *)
(* step each, the execution and the recording of _durable_command_result.  *)

Step(m, phase) == cmd' = [cmd EXCEPT ![m] = phase]
Ready(m) == cmd[m] = "waiting" /\ after[m] \cap Active = {}

(* What the command made void is completed before it is executed.          *)
Clear(m) ==
    /\ Running /\ Ready(m) /\ dropped[m] # {}
    /\ Completes(dropped[m])
    /\ waived' = waived \cup dropped[m]
    /\ dropped' = [dropped EXCEPT ![m] = {}]
    /\ UNCHANGED <<kind, allowed, server, checkpoint, outcome, queue, slot,
                   startup, heldClaims, seen, mode, failed, batch, late, queued,
                   turn, cmd, after, answers, spent>>

Reserve(m) ==
    /\ Running /\ Ready(m) /\ dropped[m] = {}
    /\ IF outcome[m] = "none"
       THEN outcome' = [outcome EXCEPT ![m] = "started"] /\ Step(m, "executing")
       ELSE Step(m, "executed") /\ UNCHANGED outcome
    /\ UNCHANGED <<kind, allowed, server, spool, checkpoint, inflow, mode,
                   failed, batch, late, queued, turn, after, dropped, ghosts, spent>>

(* The command's effect: /new forgets an unknown outcome.                  *)
Execute(m) ==
    /\ Running /\ cmd[m] = "executing"
    /\ checkpoint' = IF kind[m] = "new" /\ Fenced THEN NoCheckpoint ELSE checkpoint
    /\ Step(m, "executed")
    /\ UNCHANGED <<kind, allowed, server, spool, outcome, inflow, mode, failed,
                   batch, late, queued, turn, after, dropped, ghosts, spent>>

Complete(m) ==
    /\ Running /\ cmd[m] = "executed"
    /\ outcome' = [outcome EXCEPT ![m] = "completed"]
    /\ Step(m, "saved")
    /\ UNCHANGED <<kind, allowed, server, spool, checkpoint, inflow, mode,
                   failed, batch, late, queued, turn, after, dropped, ghosts, spent>>

\* Mutation: only /stop and /new let the input go.
ControlLetsGo(m) ==
    /\ kind[m] \in Control /\ Gate = {m}
    /\ ~Stopping /\ turn = NoTurn /\ queued # <<>>

(* _finish_control_task: the last of the ordered commands lets the input   *)
(* go that waited for it, unless the intake is stopped.                    *)
LetsGo(m) ==
    /\ kind[m] \in Ordered /\ Gate = {m}
    /\ ~Stopping /\ turn = NoTurn /\ queued # <<>>

TaskEnds(m) ==
    /\ Step(m, "none")
    /\ after' = [after EXCEPT ![m] = {}]
    /\ dropped' = [dropped EXCEPT ![m] = {}]
    /\ IF LetsGo(m)
       THEN /\ queued' = <<>>
            /\ turn' = IF failed' THEN NoTurn ELSE NewTurn(queued)
       ELSE UNCHANGED <<queued, turn>>

(* The reply is owed: the claim is completed.                              *)
CommandEnds(m) ==
    /\ Running /\ cmd[m] = "saved"
    /\ Completes({m})
    /\ UNCHANGED failed /\ TaskEnds(m)
    /\ UNCHANGED <<kind, allowed, server, checkpoint, outcome, queue, slot,
                   startup, heldClaims, seen, mode, batch, late, ghosts, spent>>

CommandFails(m) ==
    /\ Running
    /\ \/ cmd[m] \in {"executing", "executed", "saved"}
       \/ Ready(m) /\ dropped[m] # {}
    /\ Fault
    /\ failed' = TRUE
    /\ TaskEnds(m)
    /\ UNCHANGED <<kind, allowed, server, durable, inflow, mode, batch, late, ghosts>>

CommandStep(m) ==
    Clear(m) \/ Reserve(m) \/ Execute(m) \/ Complete(m) \/ CommandEnds(m)

-----------------------------------------------------------------------------
(* The process.                                                            *)

Pending == {m \in Updates : spool[m] = "pending"}

(* ORDER BY rowid: the rows were inserted in the order of the updates.      *)
Ascending(S) ==
    {q \in [1 .. Cardinality(S) -> S] :
        /\ ToSet(q) = S
        /\ \A i, j \in 1 .. Cardinality(S) : i < j => q[i] < q[j]}

(* discard_pending *)
Discard(S) ==
    /\ spool' = [m \in Updates |-> IF m \in S THEN "gone" ELSE spool[m]]
    /\ waived' = waived \cup S

(* replay_pending: what is pending is queued again, but for the updates of *)
(* somebody who is not allowed any more.                                   *)
Replay ==
    IF allowed
    THEN /\ queue' \in Ascending(Pending) /\ enqueued' = Pending
         /\ UNCHANGED <<spool, waived>>
    ELSE Discard(Pending) /\ UNCHANGED <<queue, enqueued>>

(* start, behind a closed gate.  The turn a tool was running in has no     *)
(* known outcome.                                                          *)

Start ==
    /\ mode = "off"
    /\ mode' = "held"
    /\ Replay
    /\ \/ UNCHANGED checkpoint
       \/ /\ checkpoint.phase = "started"
          /\ checkpoint' = [checkpoint EXCEPT !.phase = "unknown"]
    /\ UNCHANGED <<kind, allowed, server, outcome, slot, startup, heldClaims,
                   seen, cached, failed, work, answers, spent>>

(* _recover_interrupted_turns: the turn is resumed and its answer owed, its *)
(* claims are completed, its checkpoint goes.                              *)
Resume ==
    /\ Running /\ mode = "held" /\ ~failed /\ checkpoint.phase = "started"
    /\ checkpoint' = [checkpoint EXCEPT !.phase = "ready"]
    /\ Counted(checkpoint.claims)
    /\ UNCHANGED <<kind, allowed, server, spool, outcome, inflow, mode, failed,
                   work, waived, spent>>

RecordRecovered ==
    /\ Running /\ mode = "held" /\ ~failed /\ checkpoint.phase = "ready"
    /\ ~(checkpoint.claims \subseteq cached)
    /\ Found(checkpoint.claims) /\ Completes(checkpoint.claims)
    /\ UNCHANGED <<kind, allowed, server, checkpoint, outcome, queue, slot,
                   startup, heldClaims, seen, mode, failed, work, ghosts, spent>>

Retire ==
    /\ Running /\ mode = "held" /\ ~failed /\ checkpoint.phase = "ready"
    /\ checkpoint.claims \subseteq cached
    /\ checkpoint' = NoCheckpoint
    /\ UNCHANGED <<kind, allowed, server, spool, outcome, inflow, mode, failed,
                   work, ghosts, spent>>

(* _retire_unknown_turn_claims: the user is told, the claims are completed, *)
(* the fence stays until /new.                                             *)
RetireUnknown ==
    /\ Running /\ mode = "held" /\ ~failed /\ Fenced
    /\ Found(checkpoint.claims) /\ Completes(checkpoint.claims)
    /\ waived' = waived \cup checkpoint.claims
    /\ mode' = "recovered"
    /\ UNCHANGED <<kind, allowed, server, checkpoint, outcome, queue, slot,
                   startup, heldClaims, seen, failed, work, answers, spent>>

(* Recovery fails closed: the inbound stays held.  complete raises when an *)
(* update has no row any more.                                             *)
FailsClosed ==
    /\ Running /\ mode = "held" /\ ~failed
    /\ checkpoint.phase \in {"started", "ready"}
    /\ failed' = TRUE
    /\ UNCHANGED <<kind, allowed, server, durable, inflow, mode, work, ghosts>>

RecoveryFails == FailsClosed /\ Fault

RecoveryBlocked ==
    /\ FailsClosed /\ UNCHANGED spent
    /\ checkpoint.phase = "ready" /\ ~Found(checkpoint.claims)

Release ==
    /\ Running /\ ~failed
    /\ mode = "recovered" \/ (mode = "held" /\ checkpoint = NoCheckpoint)
    /\ mode' = "releasing"
    /\ UNCHANGED <<kind, allowed, server, durable, inflow, failed, work, ghosts, spent>>

Released ==
    /\ mode = "releasing" /\ startup = <<>> /\ slot["release"] = Idle
    /\ mode' = "up" /\ heldClaims' = {}
    /\ UNCHANGED <<kind, allowed, server, durable, queue, enqueued, slot,
                   startup, seen, cached, failed, work, ghosts, spent>>

(* stop_intake, of a failed channel or on request: polling ends, held      *)
(* updates are released into the stopping channel, ...                     *)
StopIntake ==
    /\ Running
    /\ \/ failed /\ (mode = "up" \/ Gated) /\ UNCHANGED spent
       \/ ~failed /\ mode = "up" /\ Fault
    /\ mode' = "closing"
    /\ fetched' = <<>> /\ putting' = Nobody
    /\ confirmed' = IF offset > confirmed THEN offset ELSE confirmed
    /\ UNCHANGED <<kind, allowed, offset, durable, inflow, failed, work, ghosts>>

(* ... the batch is sent on, ...                                           *)
SendOn(claims) ==
    IF claims = <<>> THEN UNCHANGED <<queued, turn>> ELSE QueueTurn(claims)

IntakeClosed ==
    /\ mode = "closing" /\ startup = <<>> /\ slot["release"] = Idle
    /\ mode' = "draining" /\ heldClaims' = {}
    /\ SendOn(late \o batch)
    /\ late' = <<>> /\ batch' = <<>>
    /\ UNCHANGED <<kind, allowed, server, durable, queue, enqueued, slot,
                   startup, seen, cached, failed, cmd, after, dropped, ghosts, spent>>

(* ... and the dispatcher ends what it was given, or is cut short.         *)
Drained ==
    /\ mode = "draining"
    /\ mode' = "leaving"
    /\ queue' = <<>> /\ slot' = [h \in Handlers |-> Idle]
    /\ SendOn(late)
    /\ late' = <<>>
    /\ UNCHANGED <<kind, allowed, server, durable, enqueued, startup, heldClaims,
                   seen, cached, failed, batch, cmd, after, dropped, ghosts, spent>>

Gone ==
    /\ mode' = "off" /\ failed' = FALSE
    /\ offset' = confirmed /\ fetched' = <<>> /\ putting' = Nobody
    /\ queue' = <<>> /\ enqueued' = {} /\ slot' = [h \in Handlers |-> Idle]
    /\ startup' = <<>> /\ heldClaims' = {} /\ seen' = {} /\ cached' = {}
    /\ batch' = <<>> /\ late' = <<>> /\ queued' = <<>> /\ turn' = NoTurn
    /\ cmd' = [m \in Updates |-> "none"]
    /\ after' = [m \in Updates |-> {}]
    /\ dropped' = [m \in Updates |-> {}]
    /\ UNCHANGED <<kind, allowed, confirmed, durable, ghosts>>

(* stop: once everything ended, or at the deadline.                        *)
Exit ==
    /\ mode = "leaving"
    /\ Gone /\ UNCHANGED spent

(* abort_startup: what the startup cannot retire keeps it from starting.   *)
Abort ==
    /\ Running /\ mode = "held" /\ Fenced /\ ~Found(checkpoint.claims)
    /\ Gone /\ UNCHANGED spent

(* A crash, or a startup that fails and is aborted.                        *)
Crash ==
    /\ mode # "off"
    /\ Gone /\ Fault

(* The operator takes the sender off the list, while nothing runs.         *)
Revoke ==
    /\ mode = "off" /\ allowed
    /\ Fault
    /\ allowed' = FALSE
    /\ UNCHANGED <<kind, server, durable, inflow, mode, failed, work, ghosts>>

(* A week later completed rows are pruned.                                 *)
Prune ==
    /\ \E m \in Updates : spool[m] = "completed" /\ m < confirmed
    /\ mode = "off"
    /\ Fault
    /\ spool' = [m \in Updates |->
           IF spool[m] = "completed" /\ m < confirmed THEN "gone" ELSE spool[m]]
    /\ UNCHANGED <<kind, allowed, server, checkpoint, outcome, inflow, mode,
                   failed, work, ghosts>>

-----------------------------------------------------------------------------
Progress ==
    \/ Poll \/ Record \/ Put
    \/ Dispatch \/ ReleaseNext \/ Flush
    \/ \E h \in Handlers : Download(h) \/ SettleUpdate(h)
    \/ HandlerStep \/ Return
    \/ \E m \in Updates : CommandStep(m)
    \/ Start \/ Resume \/ RecordRecovered \/ Retire \/ RetireUnknown \/ Release
    \/ RecoveryBlocked \/ Released \/ StopIntake \/ IntakeClosed \/ Drained \/ Exit \/ Abort

Trouble ==
    \/ RecordFails \/ PollingFails \/ Raise \/ RecoveryFails \/ Crash \/ Revoke
    \/ Prune
    \/ \E h \in Handlers : UpdateFails(h)
    \/ \E m \in Updates : CommandFails(m)

Next == Progress \/ Trouble

Spec == Init /\ [][Next]_vars

(* The event loop and the dispatcher keep going, a handler ends (every     *)
(* wait in it is bounded), the supervisor starts the process again.        *)
FairSpec == Spec /\ WF_vars(Progress)

-----------------------------------------------------------------------------
TypeOK ==
    /\ kind \in Scripts /\ allowed \in BOOLEAN /\ failed \in BOOLEAN
    /\ confirmed \in 1 .. N + 1 /\ offset \in 1 .. N + 1
    /\ spool \in [Updates -> {"none", "pending", "completed", "gone"}]
    /\ ToSet(queue) \cup enqueued \cup ToSet(startup) \subseteq Updates
    /\ mode \in {"off", "held", "recovered", "releasing", "up", "closing",
                 "draining", "leaving"}
    /\ ToSet(batch \o late \o queued) \cup Claims \subseteq Updates
    /\ cmd \in [Updates -> {"none", "waiting", "executing", "executed", "saved"}]
    /\ outcome \in [Updates -> {"none", "started", "completed"}]
    /\ answers \in [Updates -> 0 .. 2] /\ spent \in 0 .. Budget[kind]

(* The server forgets an update only once the spool has it, or nothing is  *)
(* owed for it any more (_DurableUpdateQueue, "Commit Telegram work before *)
(* PTB can advance its server offset"): and the spool keeps it pending     *)
(* until it was answered, executed, refused or made void.                  *)
Cause(m) ==
    \/ answers[m] > 0 \/ m \in checkpoint.claims \/ outcome[m] = "completed"
    \/ m \in waived \/ kind[m] \in {"ignored", "edit", "other"}

NothingLost ==
    \A m \in Updates : m < confirmed \/ spool[m] \in {"completed", "gone"} =>
        spool[m] = "pending" \/ Cause(m)

(* No update is answered twice: not when the server sends it again while   *)
(* it is handled, when a crash replays it, nor when its turn is resumed.   *)
AnsweredOnce == \A m \in Updates : answers[m] <= 1

(* "A recovered answer and a replayed inbound message must never race for  *)
(* the same chat" (main.py): no turn runs before the gate opens.           *)
RecoveryUndisturbed == mode \in {"off", "held", "recovered"} => turn = NoTurn

(* The messages of a conversation are answered in the order they were sent *)
(* in: no turn is begun while an earlier message is still owed an answer,  *)
(* unless it is the turn's own or a command is about to make it void.  (A  *)
(* channel that failed or is stopping may send a later batch on first.)    *)
InOrder ==
    [][turn' # turn /\ turn'.at = "working" /\ ~failed /\ ~Stopping =>
        \A m \in Updates : \A n \in ToSet(turn'.claims) :
            m < n /\ kind[m] \in Texts /\ spool'[m] = "pending" =>
                \/ m \in ToSet(turn'.claims)
                \/ \E c \in Updates : m \in dropped[c]]_vars

(* The startup cannot retire the interrupted turn: a claim has no row.     *)
Blocked == ~Found(checkpoint.claims)

(* Every update is taken from the server and settled in the end.           *)
EveryUpdateSettles ==
    []<>(Blocked \/ (Sent \subseteq 1 .. confirmed - 1 /\ Pending = {}))

(* The runtime comes up again after every failure: an interrupted          *)
(* conversation is fenced alone and /new stays reachable (main.py, "Fence  *)
(* only this session, retire its accepted input, and keep /new reachable"). *)
ComesUpAgain == []<>(mode = "up")

(* The same, grouped as the run checks them                                *)

(* No update is lost between the server and its answer, and none begins a  *)
(* turn while an earlier process's turn is being recovered.                *)
UpdatesKept == TypeOK /\ NothingLost /\ RecoveryUndisturbed
=============================================================================
