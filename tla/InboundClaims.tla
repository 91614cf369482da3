---------------------------- MODULE InboundClaims ----------------------------
(***************************************************************************)
(* The way of one WhatsApp conversation's messages from the bridge's spool *)
(* (src/bridge/bridge_helpers.js) through the channel's poll loop, quiet   *)
(* period, turn queue and commands (channels/whatsapp.py) to an answer and *)
(* back to a settled claim, with the startup that resumes what a crash     *)
(* interrupted (main.py).  The spool, the ledger of completed claims, the  *)
(* outcomes of commands and the checkpoint of the turn survive a restart.  *)
(*                                                                         *)
(* The channel runs on one event loop: what it does between two awaits is  *)
(* one step, and while it accepts the events of one response (inbox) no    *)
(* other task of the loop runs.                                            *)
(***************************************************************************)
EXTENDS Integers, Sequences, FiniteSets, SequencesExt

CONSTANTS
    Messages,   \* claim identities, numbered in the order WhatsApp sends them
    Scripts,    \* what the messages may be
    ClaimBatch, \* claimBatchSize of the spool
    MaxDone,    \* doneMaxEntries of the spool
    MaxLedger,  \* COMPLETED_CLAIM_MAX_ENTRIES
    Attempts,   \* CLAIM_SETTLE_ATTEMPTS
    Budget      \* bound, for each script, on crashes, failures, losses,
                \* expiries and replays

ASSUME InboundAssumption ==
    /\ Messages \subseteq Nat \ {0} /\ IsFiniteSet(Messages)
    /\ ClaimBatch \in Nat \ {0} /\ MaxDone \in Nat \ {0}
    /\ MaxLedger \in Nat \ {0} /\ Attempts \in Nat \ {0}

(* A message is a text, one of the commands /stop, /new and /effort that   *)
(* later input waits for, /approve, which nothing waits for, or ignored:   *)
(* an untriggered group message, an unknown sender, an empty text.         *)
(* "none" is not sent.                                                     *)
Kinds == {"text", "stop", "new", "effort", "approve", "ignored", "none"}
ASSUME ScriptAssumption ==
    /\ Scripts \subseteq [Messages -> Kinds]
    /\ Budget \in [Scripts -> Nat]

VARIABLES
    kind,       \* what each message is
    next,       \* the messages WhatsApp has not sent yet
    accepted,   \* pending/ and claimed/ of the spool, by acceptedAt
    claimed,    \* those in claimed/
    done,       \* done/, by completedAt
    bridge,     \* whether the bridge process runs
    response,   \* the claims of a /messages response on its way
    mode,       \* the runtime: "off", "holding" its inbound until the
                \* interrupted turn is resumed, and its claims "recorded",
                \* "up", "stopping"
    failed,     \* WhatsAppChannel.failure
    held,       \* _startup_events
    inbox,      \* the events the loop is accepting
    seen,       \* _seen
    cached,     \* _completed_claims
    ledger,     \* _CompletedClaimStore, oldest first
    batch,      \* _pending
    queued,     \* _queued
    turn,       \* _turn_tasks: its claims and where it stands
    cmd,        \* the command tasks
    after,      \* the ordered commands each command waits for
    settling,   \* the running _settle_claims
    checkpoint, \* the turn history keeps: its claims, and whether answered
    outcome,    \* command_outcomes
    answers,    \* how many answers were chosen for each message
    runs,       \* how often each command was executed
    waived,     \* messages a /stop or /new made void, but for those of a turn
                \* that is checkpointed: the next start resumes it
    lapsed,     \* messages whose identity a cache or the ledger let go too early
    spent       \* faults so far

spool == <<next, accepted, claimed, done>>
store == <<ledger, checkpoint, outcome>>
intake == <<held, inbox, seen, cached>>
work == <<batch, queued, turn, cmd, after, settling>>
ghosts == <<answers, runs, waived, lapsed>>
vars == <<kind, spool, bridge, response, mode, failed, intake, store, work,
          ghosts, spent>>

NoTurn == [claims |-> <<>>, at |-> "none"]
NoCheckpoint == [claims |-> {}, ready |-> FALSE]
Turn == 0
Later == -1
Ordered == {"stop", "new", "effort"}
Control == {"stop", "new"}

Init ==
    /\ kind \in Scripts
    /\ next = {m \in Messages : kind[m] # "none"}
    /\ accepted = <<>> /\ claimed = {} /\ done = <<>>
    /\ bridge = FALSE /\ response = <<>>
    /\ mode = "off" /\ failed = FALSE
    /\ held = <<>> /\ inbox = <<>> /\ seen = {} /\ cached = {}
    /\ ledger = <<>> /\ checkpoint = NoCheckpoint
    /\ outcome = [m \in Messages |-> "none"]
    /\ batch = <<>> /\ queued = <<>> /\ turn = NoTurn
    /\ cmd = [m \in Messages |-> "none"]
    /\ after = [m \in Messages |-> {}]
    /\ settling = {}
    /\ answers = [m \in Messages |-> 0]
    /\ runs = [m \in Messages |-> 0]
    /\ waived = {} /\ lapsed = {} /\ spent = 0

Fault == spent < Budget[kind] /\ spent' = spent + 1

-----------------------------------------------------------------------------
(* The spool: every operation is one step of its serialized chain.         *)

(* What is left of s without the members of S, in its order.               *)
Without(s, S) ==
    LET kept == {i \in DOMAIN s : s[i] \notin S}
        Place(i) == Cardinality({j \in kept : j <= i})
    IN  [n \in 1 .. Cardinality(kept) |-> s[CHOOSE i \in kept : Place(i) = n]]

Pending == ToSet(accepted) \ claimed

(* pruneDoneUnlocked: past the bound, down to nine tenths of it.           *)
LowWater == IF (MaxDone * 9) \div 10 < 1 THEN 1 ELSE (MaxDone * 9) \div 10
PrunedDone(d) ==
    IF Len(d) <= MaxDone THEN d
    ELSE SubSeq(d, Len(d) - LowWater + 1, Len(d))

(* enqueue: the event of an identity the spool does not hold.              *)
Enqueue(m) ==
    /\ bridge
    /\ \/ m \in next /\ (\A n \in next : m <= n) /\ UNCHANGED spent
       \/ m \notin next /\ kind[m] # "none" /\ Fault
    /\ m \notin ToSet(accepted) \cup ToSet(done)
    /\ next' = next \ {m}
    /\ accepted' = Append(accepted, m)
    /\ UNCHANGED <<kind, claimed, done, bridge, response, mode, failed, intake,
                   store, work, ghosts>>

(* claim, for the poll loop: the oldest pending events move to claimed/,   *)
(* what is done already leaves pending/.                                   *)
Oldest(s) == SubSeq(s, 1, IF Len(s) < ClaimBatch THEN Len(s) ELSE ClaimBatch)

Claim ==
    LET live == Without(accepted, ToSet(done) \ claimed)
        out == Oldest(Without(live, claimed))
    IN  /\ bridge /\ mode \notin {"off", "stopping"} /\ ~failed
        /\ response = <<>> /\ inbox = <<>> /\ live \o out # accepted
        /\ accepted' = live
        /\ claimed' = claimed \cup ToSet(out)
        /\ response' = out
        /\ UNCHANGED <<kind, next, done, bridge, mode, failed, intake, store,
                       work, ghosts, spent>>

(* ack: an identity the spool knows becomes done; release: a claimed one   *)
(* becomes pending again.                                                  *)
Settled(r) ==
    IF r.act = "ack"
    THEN LET known == (ToSet(accepted) \cap r.claims) \ ToSet(done)
         IN  /\ done' = PrunedDone(done \o SetToSeq(known))
             /\ accepted' = Without(accepted, known)
             /\ claimed' = claimed \ known
    ELSE /\ claimed' = claimed \ (r.claims \ ToSet(done))
         /\ UNCHANGED <<accepted, done>>

(* initialize: what was claimed is pending again, unless it was done.      *)
Restored ==
    /\ accepted' = Without(accepted, claimed \cap ToSet(done))
    /\ claimed' = {}
    /\ done' = PrunedDone(done)

-----------------------------------------------------------------------------
(* The channel's books.                                                    *)

(* The loop is in the middle of a step: it accepts the events of one       *)
(* response, or stop_intake sends the batches on.                          *)
Busy == inbox # <<>> \/ (mode = "stopping" /\ batch # <<>>)
Running == mode # "off" /\ ~Busy
Holding == mode \in {"holding", "recorded"}
Active == {m \in Messages : cmd[m] # "none"}
Gate == {m \in Active : kind[m] \in Ordered}

Settling(act, claims, by) ==
    [act |-> act, claims |-> claims, tries |-> 1, by |-> by]

(* mark: the claims become the newest entries, the oldest beyond the bound *)
(* go.                                                                     *)
Marked(claims) ==
    LET l == Without(ledger, ToSet(claims)) \o claims
    IN  IF Len(l) <= MaxLedger THEN l ELSE SubSeq(l, Len(l) - MaxLedger + 1, Len(l))

Mark(claims) ==
    /\ ledger' = Marked(claims)
    /\ cached' = cached \cup ToSet(claims)
    /\ lapsed' = lapsed \cup ((ToSet(ledger) \cup ToSet(claims)) \ ToSet(Marked(claims)))

\* Mutation: the memory of this process only.
CachedOnly(m) == m \in cached

Completed(m) == m \in cached \/ m \in ToSet(ledger)

NewTurn(claims) == [claims |-> claims, at |-> "working"]

(* _queue_turn of a batch: behind a command or a turn it waits, merged     *)
(* with what waits already.                                                *)
QueueTurn(claims) ==
    IF Gate # {} \/ turn # NoTurn
    THEN queued' = queued \o claims /\ UNCHANGED turn
    ELSE turn' = NewTurn(claims) /\ UNCHANGED queued

-----------------------------------------------------------------------------
(* _accept of the first event of the inbox.                                *)

Rest == inbox' = Tail(inbox)

(* _ack_later: remembered by this process, then acknowledged.              *)
AckLater(claims) ==
    /\ cached' = cached \cup claims
    /\ settling' = settling \cup {Settling("ack", claims, Later)}

(* While the startup holds its inbound, only /approve passes, and only     *)
(* once interrupted turns are being resumed.                               *)
Bypasses(m) == kind[m] = "approve" /\ checkpoint # NoCheckpoint

Hold(m) ==
    /\ Holding /\ ~Bypasses(m)
    /\ held' = IF m \in ToSet(held) THEN held ELSE Append(held, m)
    /\ UNCHANGED <<seen, cached, store, work, ghosts, failed>>

(* A sender who is not allowed, or a group message not meant for the agent. *)
Ignored(m) == kind[m] = "ignored"

(* Settled before, or nothing to answer: acknowledged, never run.          *)
Void(m) ==
    /\ \/ Completed(m) /\ UNCHANGED seen
       \/ ~Completed(m) /\ m \notin seen /\ Ignored(m)
          /\ seen' = seen \cup {m}
    /\ AckLater({m})
    /\ UNCHANGED <<held, store, batch, queued, turn, cmd, after, ghosts, failed>>

(* is_duplicate: on its way already, and left to the task that has it.     *)
Duplicate(m) ==
    /\ ~Completed(m) /\ m \in seen
    /\ UNCHANGED <<held, seen, cached, store, work, ghosts, failed>>

(* _enqueue: into the batch of the quiet period, after the batch whose     *)
(* hard cap has passed was sent on.                                        *)
Collect(m) ==
    /\ kind[m] = "text"
    /\ \/ batch' = Append(batch, m) /\ UNCHANGED <<queued, turn>>
       \/ batch # <<>> /\ QueueTurn(batch) /\ batch' = <<m>>
    /\ UNCHANGED <<cached, store, cmd, after, settling, ghosts, failed>>

\* Mutation: the batch whose quiet period runs is left alone.
QueuedOnly == queued

(* /stop and /new make void what waits to be answered ...                  *)
Superseded == batch \o queued

(* ... and an ordered command waits for those before it, but for a /stop   *)
(* that comes while /effort is being checked.                              *)
WaitsFor(m) ==
    IF kind[m] = "stop" /\ \E e \in Gate : kind[e] = "effort" THEN {} ELSE Gate

Command(m) ==
    /\ kind[m] \notin {"text", "ignored"}
    /\ cmd' = [cmd EXCEPT ![m] = "waiting"]
    /\ after' = [after EXCEPT ![m] = IF kind[m] \in Ordered THEN WaitsFor(m) ELSE {}]
    /\ IF kind[m] \in Control /\ batch \o queued # <<>>
       THEN /\ Mark(Superseded)
            /\ settling' = settling \cup {Settling("ack", ToSet(Superseded), Later)}
            /\ waived' = waived \cup (ToSet(batch \o queued) \ checkpoint.claims)
            /\ batch' = Without(batch, ToSet(Superseded))
            /\ queued' = Without(queued, ToSet(Superseded))
       ELSE UNCHANGED <<ledger, cached, lapsed, settling, waived, batch, queued>>
    /\ UNCHANGED <<turn, checkpoint, outcome, answers, runs, failed>>

(* A failing ledger ends the channel: when it is read, and when the claims *)
(* a command makes void are recorded.  The poll loop breaks off then,      *)
(* release_inbound goes on.                                                *)
LedgerFails(m) ==
    /\ \/ UNCHANGED <<seen, batch, queued>>
       \/ /\ ~Completed(m) /\ m \notin seen /\ kind[m] \in Control
          /\ Superseded # <<>>
          /\ seen' = seen \cup {m} /\ batch' = <<>> /\ queued' = <<>>
    /\ failed' = TRUE
    /\ UNCHANGED <<held, cached, store, turn, cmd, after, settling, ghosts>>

Accept ==
    /\ mode # "off" /\ inbox # <<>>
    /\ LET m == Head(inbox) IN
       \/ /\ \/ Hold(m)
             \/ /\ ~Holding \/ Bypasses(m)
                /\ \/ Void(m)
                   \/ Duplicate(m)
                   \/ /\ ~Completed(m) /\ m \notin seen
                      /\ seen' = seen \cup {m} /\ UNCHANGED held
                      /\ Collect(m) \/ Command(m)
          /\ Rest /\ UNCHANGED spent
       \/ /\ ~Holding \/ Bypasses(m)
          /\ LedgerFails(m) /\ Fault
          /\ inbox' \in {<<>>, Tail(inbox)}
    /\ UNCHANGED <<kind, spool, bridge, response, mode>>

(* The response of a poll arrives, or is lost on its way.                  *)
Receive ==
    /\ Running /\ ~failed /\ response # <<>>
    /\ inbox' = response /\ response' = <<>>
    /\ UNCHANGED <<kind, spool, bridge, mode, failed, held, seen, cached, store,
                   work, ghosts, spent>>

Lose ==
    /\ Running /\ response # <<>>
    /\ Fault
    /\ response' = <<>>
    /\ UNCHANGED <<kind, spool, bridge, mode, failed, intake, store, work, ghosts>>

(* _flush_after_quiet: the batch's timer fires.                            *)
Flush ==
    /\ mode # "off" /\ inbox = <<>> /\ batch # <<>>
    /\ QueueTurn(batch)
    /\ batch' = <<>>
    /\ UNCHANGED <<kind, spool, bridge, response, mode, failed, intake, store,
                   cmd, after, settling, ghosts, spent>>

-----------------------------------------------------------------------------
(* _run_turn_queue and the handler it calls (handle_whatsapp).             *)

Claims == ToSet(turn.claims)

At(phase) == turn' = [turn EXCEPT !.at = phase]

(* respond: the turn is checkpointed with its claims, then answered.       *)
Begin ==
    /\ Running /\ turn.at = "working" /\ checkpoint = NoCheckpoint
    /\ checkpoint' = [claims |-> Claims, ready |-> FALSE]
    /\ At("model")
    /\ UNCHANGED <<kind, spool, bridge, response, mode, failed, intake, ledger,
                   outcome, batch, queued, cmd, after, settling, ghosts, spent>>

Counted(S) ==
    answers' = [m \in Messages |->
        IF m \in S /\ answers[m] < 2 THEN answers[m] + 1 ELSE answers[m]]

Answer ==
    /\ Running /\ turn.at = "model"
    /\ checkpoint' = [checkpoint EXCEPT !.ready = TRUE]
    /\ Counted(Claims)
    /\ At("ready")
    /\ UNCHANGED <<kind, spool, bridge, response, mode, failed, intake, ledger,
                   outcome, batch, queued, cmd, after, settling, runs, waived,
                   lapsed, spent>>

(* TurnStopped: a command that stops turns is being executed.              *)
Stopped ==
    /\ Running /\ turn.at = "model"
    /\ \E c \in Active : kind[c] \in Control /\ cmd[c] = "executing"
    /\ Mark(turn.claims)
    /\ waived' = waived \cup Claims
    /\ checkpoint' = NoCheckpoint
    /\ At("fenced")
    /\ UNCHANGED <<kind, spool, bridge, response, mode, failed, held, inbox,
                   seen, outcome, batch, queued, cmd, after, settling, answers,
                   runs, spent>>

(* persist_completed_claims once the reply is owed, finalize_ready_turn.   *)
Fence ==
    /\ Running /\ turn.at = "ready"
    /\ Mark(turn.claims)
    /\ At("answered")
    /\ UNCHANGED <<kind, spool, bridge, response, mode, failed, held, inbox,
                   seen, checkpoint, outcome, batch, queued, cmd, after,
                   settling, answers, runs, waived, spent>>

Finalize ==
    /\ Running /\ turn.at = "answered"
    /\ checkpoint' = NoCheckpoint
    /\ At("fenced")
    /\ UNCHANGED <<kind, spool, bridge, response, mode, failed, intake, ledger,
                   outcome, batch, queued, cmd, after, settling, ghosts, spent>>

(* The handler returned: its claims are recorded and acknowledged.         *)
Return ==
    /\ Running /\ turn.at = "fenced"
    /\ Mark(turn.claims)
    /\ settling' = settling \cup {Settling("ack", Claims, Turn)}
    /\ At("settling")
    /\ UNCHANGED <<kind, spool, bridge, response, mode, failed, held, inbox,
                   seen, checkpoint, outcome, batch, queued, cmd, after, answers,
                   runs, waived, spent>>

\* Mutation: what failed is acknowledged.
Disowned(claims, by) == Settling("ack", claims, by)

HandedBack(claims, by) == Settling("release", claims, by)

(* Whatever the handler raises fails the channel, and releases the claims. *)
HandlerFails ==
    /\ failed' = TRUE
    /\ seen' = seen \ Claims
    /\ settling' = settling \cup {HandedBack(Claims, Turn)}
    /\ At("settling")
    /\ UNCHANGED <<kind, spool, bridge, response, mode, held, inbox, cached,
                   store, batch, queued, cmd, after, ghosts>>

Raise ==
    /\ Running /\ turn.at \in {"working", "model", "ready", "answered"}
    /\ HandlerFails /\ Fault

(* begin_turn refuses while the conversation's last turn is incomplete.    *)
Refuse ==
    /\ Running /\ turn.at = "working" /\ checkpoint # NoCheckpoint
    /\ HandlerFails /\ UNCHANGED spent

(* The ledger fails when the handler has returned: nothing is settled.     *)
Unrecorded ==
    /\ Running /\ turn.at = "fenced"
    /\ Fault
    /\ failed' = TRUE
    /\ queued' = <<>> /\ turn' = NoTurn
    /\ UNCHANGED <<kind, spool, bridge, response, mode, intake, store, batch,
                   cmd, after, settling, ghosts>>

SettledBy(who) == \A r \in settling : r.by # who

NextTurn ==
    /\ Running /\ turn.at = "settling" /\ SettledBy(Turn)
    /\ IF failed THEN queued' = <<>> /\ turn' = NoTurn
       ELSE IF Gate # {} \/ queued = <<>> THEN turn' = NoTurn /\ UNCHANGED queued
       ELSE turn' = NewTurn(queued) /\ queued' = <<>>
    /\ UNCHANGED <<kind, spool, bridge, response, mode, failed, intake, store,
                   batch, cmd, after, settling, ghosts, spent>>

-----------------------------------------------------------------------------
(* Commands: _run_command and the at-most-once ledger under it             *)
(* (_durable_command_result, begin_command, complete_command).             *)

Step(m, phase) == cmd' = [cmd EXCEPT ![m] = phase]

MayExecute(m) == outcome[m] = "none"

Reserve(m) ==
    /\ Running /\ cmd[m] = "waiting" /\ after[m] \cap Active = {}
    /\ IF MayExecute(m)
       THEN outcome' = [outcome EXCEPT ![m] = "started"] /\ Step(m, "executing")
       ELSE /\ Step(m, IF outcome[m] = "completed" THEN "saved" ELSE "executed")
            /\ UNCHANGED outcome
    /\ UNCHANGED <<kind, spool, bridge, response, mode, failed, intake, ledger,
                   checkpoint, batch, queued, turn, after, settling, ghosts, spent>>

Execute(m) ==
    /\ Running /\ cmd[m] = "executing"
    /\ runs' = [runs EXCEPT ![m] = @ + 1]
    /\ Step(m, "executed")
    /\ UNCHANGED <<kind, spool, bridge, response, mode, failed, intake, store,
                   batch, queued, turn, after, settling, answers, waived, lapsed,
                   spent>>

Complete(m) ==
    /\ Running /\ cmd[m] = "executed"
    /\ outcome' = [outcome EXCEPT ![m] = "completed"]
    /\ Step(m, "saved")
    /\ UNCHANGED <<kind, spool, bridge, response, mode, failed, intake, ledger,
                   checkpoint, batch, queued, turn, after, settling, ghosts, spent>>

(* The reply is owed: the claim is recorded and acknowledged.              *)
Reply(m) ==
    /\ Running /\ cmd[m] = "saved"
    /\ Mark(<<m>>)
    /\ settling' = settling \cup {Settling("ack", {m}, m)}
    /\ Step(m, "settling")
    /\ UNCHANGED <<kind, spool, bridge, response, mode, failed, held, inbox,
                   seen, checkpoint, outcome, batch, queued, turn, after, answers,
                   runs, waived, spent>>

(* A failure ends the channel; the claim is released, but not when it was  *)
(* the ledger of claims that failed.                                       *)
CommandFails(m) ==
    /\ Running /\ cmd[m] \in {"executing", "executed", "saved"}
    /\ Fault
    /\ failed' = TRUE
    /\ \/ /\ seen' = seen \ {m}
          /\ settling' = settling \cup {HandedBack({m}, m)}
       \/ cmd[m] = "saved" /\ UNCHANGED <<seen, settling>>
    /\ Step(m, "settling")
    /\ UNCHANGED <<kind, spool, bridge, response, mode, held, inbox, cached,
                   store, batch, queued, turn, after, ghosts>>

\* Mutation: only /stop and /new let the input go.
ControlLetsGo(m) ==
    /\ kind[m] \in Control /\ Gate = {m}
    /\ mode # "stopping" /\ turn = NoTurn /\ queued # <<>>

(* _finish_control_task: the last of the ordered commands lets the input   *)
(* go that waited for it.                                                  *)
LetsGo(m) ==
    /\ kind[m] \in Ordered /\ Gate = {m}
    /\ mode # "stopping" /\ turn = NoTurn /\ queued # <<>>

CommandEnds(m) ==
    /\ Running /\ cmd[m] = "settling" /\ SettledBy(m)
    /\ Step(m, "none") /\ after' = [after EXCEPT ![m] = {}]
    /\ IF LetsGo(m)
       THEN /\ queued' = <<>>
            /\ turn' = IF failed THEN NoTurn ELSE NewTurn(queued)
       ELSE UNCHANGED <<queued, turn>>
    /\ UNCHANGED <<kind, spool, bridge, response, mode, failed, intake, store,
                   batch, settling, ghosts, spent>>

CommandStep(m) ==
    \/ Reserve(m) \/ Execute(m) \/ Complete(m) \/ Reply(m) \/ CommandEnds(m)

-----------------------------------------------------------------------------
(* _settle_claims: one attempt, answered, its answer lost, or failed.      *)

Again(r) ==
    settling' = (settling \ {r}) \cup
        (IF r.tries < Attempts THEN {[r EXCEPT !.tries = @ + 1]} ELSE {})

Settle(r) ==
    /\ Running /\ bridge
    /\ \/ Settled(r) /\ settling' = settling \ {r} /\ UNCHANGED spent
       \/ Settled(r) /\ Again(r) /\ Fault
       \/ UNCHANGED <<accepted, claimed, done>> /\ Again(r) /\ Fault
    /\ UNCHANGED <<kind, next, bridge, response, mode, failed, intake, store,
                   batch, queued, turn, cmd, after, ghosts>>

SettleFails(r) ==
    /\ Running /\ ~bridge
    /\ Again(r)
    /\ UNCHANGED <<kind, spool, bridge, response, mode, failed, intake, store,
                   batch, queued, turn, cmd, after, ghosts, spent>>

-----------------------------------------------------------------------------
(* The bridge process dies, also between the two files of an               *)
(* acknowledgement; the poll loop brings it back or gives up.              *)

BridgeDies ==
    /\ bridge /\ mode # "off"
    /\ Fault
    /\ bridge' = FALSE /\ response' = <<>>
    /\ \/ UNCHANGED done
       \/ \E r \in settling : \E m \in r.claims \cap ToSet(accepted) :
              r.act = "ack" /\ done' = Append(done, m)
    /\ UNCHANGED <<kind, next, accepted, claimed, mode, failed, intake, store,
                   work, ghosts>>

BridgeBack ==
    /\ ~bridge /\ Running /\ mode # "stopping" /\ ~failed
    /\ bridge' = TRUE
    /\ Restored
    /\ UNCHANGED <<kind, next, response, mode, failed, intake, store, work,
                   ghosts, spent>>

GiveUp ==
    /\ ~bridge /\ Running /\ mode # "stopping" /\ ~failed
    /\ Fault
    /\ failed' = TRUE
    /\ UNCHANGED <<kind, spool, bridge, response, mode, intake, store, work, ghosts>>

-----------------------------------------------------------------------------
(* The process: startup holds the inbound until the interrupted turn was   *)
(* resumed, answered and its claims recorded.                              *)

Start ==
    /\ mode = "off"
    /\ mode' = "holding" /\ bridge' = TRUE
    /\ Restored
    /\ UNCHANGED <<kind, next, response, failed, intake, store, work, ghosts, spent>>

Resume ==
    /\ Running /\ mode = "holding" /\ ~failed
    /\ checkpoint # NoCheckpoint /\ ~checkpoint.ready
    /\ checkpoint' = [checkpoint EXCEPT !.ready = TRUE]
    /\ Counted(checkpoint.claims)
    /\ UNCHANGED <<kind, spool, bridge, response, mode, failed, intake, ledger,
                   outcome, work, runs, waived, lapsed, spent>>

Record ==
    /\ Running /\ mode = "holding" /\ ~failed /\ checkpoint.ready
    /\ Mark(SetToSeq(checkpoint.claims))
    /\ mode' = "recorded"
    /\ UNCHANGED <<kind, spool, bridge, response, failed, held, inbox, seen,
                   checkpoint, outcome, work, answers, runs, waived, spent>>

Retire ==
    /\ Running /\ mode = "recorded" /\ ~failed
    /\ checkpoint' = NoCheckpoint
    /\ mode' = "holding"
    /\ UNCHANGED <<kind, spool, bridge, response, failed, intake, ledger,
                   outcome, work, ghosts, spent>>

(* Recovery fails closed: the inbound stays held.                          *)
RecoveryFails ==
    /\ Running /\ Holding /\ ~failed /\ checkpoint # NoCheckpoint
    /\ Fault
    /\ failed' = TRUE
    /\ UNCHANGED <<kind, spool, bridge, response, mode, intake, store, work, ghosts>>

Release ==
    /\ Running /\ Holding /\ checkpoint = NoCheckpoint /\ ~failed
    /\ mode' = "up"
    /\ inbox' = held /\ held' = <<>>
    /\ UNCHANGED <<kind, spool, bridge, response, failed, seen, cached, store,
                   work, ghosts, spent>>

(* stop_intake, of a failed channel or on request: the poll ends, held     *)
(* events are accepted and batches sent on.                                *)
StopIntake ==
    /\ Running
    /\ \/ failed /\ mode # "stopping" /\ UNCHANGED spent
       \/ ~failed /\ mode = "up" /\ Fault
    /\ mode' = "stopping" /\ response' = <<>>
    /\ inbox' = held /\ held' = <<>>
    /\ UNCHANGED <<kind, spool, bridge, failed, seen, cached, store, work, ghosts>>

(* stop: what has not ended by the deadline is cancelled and released; a   *)
(* command that only waits has nothing to release.                         *)
Cancelled == Claims \cup {m \in Active : cmd[m] # "waiting"}

NoWork ==
    /\ batch' = <<>> /\ queued' = <<>> /\ turn' = NoTurn
    /\ cmd' = [m \in Messages |-> "none"]
    /\ after' = [m \in Messages |-> {}]

Cancel ==
    /\ Running /\ mode = "stopping"
    /\ turn # NoTurn \/ Active # {}
    /\ NoWork
    /\ seen' = seen \ Cancelled
    /\ settling' = {HandedBack(Cancelled, Later)}
    /\ UNCHANGED <<kind, spool, bridge, response, mode, failed, held, inbox,
                   cached, store, ghosts, spent>>

(* The process ends: stopped, or at any time by a crash.                   *)
Gone ==
    /\ mode' = "off" /\ bridge' = FALSE /\ failed' = FALSE
    /\ response' = <<>> /\ held' = <<>> /\ inbox' = <<>>
    /\ seen' = {} /\ cached' = {} /\ settling' = {}
    /\ NoWork
    /\ UNCHANGED <<kind, spool, store, ghosts>>

Exit ==
    /\ Running /\ mode = "stopping"
    /\ turn = NoTurn /\ Active = {} /\ settling = {}
    /\ Gone /\ UNCHANGED spent

Crash ==
    /\ mode # "off"
    /\ Gone /\ Fault

(* Time: a turn may outlast the 300 s of _seen, and the hour of            *)
(* _completed_claims may pass.                                             *)
Expire(m) ==
    /\ Running
    /\ Fault
    /\ \/ /\ m \in seen /\ kind[m] = "text"
          /\ seen' = seen \ {m}
          /\ lapsed' = IF Completed(m) THEN lapsed ELSE lapsed \cup {m}
          /\ UNCHANGED cached
       \/ m \in cached /\ cached' = cached \ {m} /\ UNCHANGED <<seen, lapsed>>
    /\ UNCHANGED <<kind, spool, bridge, response, mode, failed, held, inbox,
                   store, work, answers, runs, waived>>

-----------------------------------------------------------------------------
Progress ==
    \/ Claim \/ Receive \/ Accept \/ Flush
    \/ Begin \/ Refuse \/ Answer \/ Stopped \/ Fence \/ Finalize \/ Return \/ NextTurn
    \/ \E m \in Messages : CommandStep(m)
    \/ \E r \in settling : Settle(r) \/ SettleFails(r)
    \/ BridgeBack \/ Start \/ Resume \/ Record \/ Retire \/ Release \/ StopIntake
    \/ Cancel \/ Exit

Trouble ==
    \/ Lose \/ Raise \/ Unrecorded \/ BridgeDies \/ GiveUp \/ RecoveryFails
    \/ Crash
    \/ \E m \in Messages : CommandFails(m) \/ Expire(m)

Next == (\E m \in Messages : Enqueue(m)) \/ Progress \/ Trouble

Spec == Init /\ [][Next]_vars

(* The event loop and the bridge keep going, a handler ends (every wait in *)
(* it is bounded), the supervisor starts the process again.                *)
FairSpec == Spec /\ WF_vars(Progress)

-----------------------------------------------------------------------------
TypeOK ==
    /\ kind \in Scripts /\ next \subseteq Messages
    /\ ToSet(accepted) \cup claimed \cup ToSet(done) \subseteq Messages
    /\ bridge \in BOOLEAN /\ failed \in BOOLEAN
    /\ ToSet(response) \cup ToSet(held) \cup ToSet(inbox) \subseteq Messages
    /\ mode \in {"off", "holding", "recorded", "up", "stopping"}
    /\ seen \cup cached \cup ToSet(ledger) \subseteq Messages
    /\ ToSet(batch) \cup ToSet(queued) \cup Claims \subseteq Messages
    /\ turn.at \in {"none", "working", "model", "ready", "answered", "fenced",
                    "settling"}
    /\ cmd \in [Messages -> {"none", "waiting", "executing", "executed",
                             "saved", "settling"}]
    /\ after \in [Messages -> SUBSET Messages]
    /\ \A r \in settling : r.claims \subseteq Messages /\ r.tries \in 1 .. Attempts
    /\ checkpoint.claims \subseteq Messages /\ checkpoint.ready \in BOOLEAN
    /\ outcome \in [Messages -> {"none", "started", "completed"}]
    /\ answers \in [Messages -> 0 .. 2] /\ runs \in [Messages -> Nat]
    /\ waived \cup lapsed \subseteq Messages /\ spent \in 0 .. Budget[kind]

(* No message is answered twice, whatever crashes, is lost, replayed or    *)
(* fails: unless its identity lapsed in _seen while its turn still ran, or *)
(* the ledger of completed claims let it go.                               *)
AnsweredOnce == \A m \in Messages : answers[m] > 1 => m \in lapsed

(* A command has its effect once: not when a crash or a release brings it  *)
(* back before its outcome was recorded (_durable_command_result).         *)
ExecutedOnce == \A m \in Messages : runs[m] <= 1

Cause(m) ==
    \/ answers[m] > 0 \/ m \in checkpoint.claims \/ outcome[m] = "completed"
    \/ m \in waived \/ kind[m] = "ignored"

(* A message leaves the spool only for a cause: an answer, or the          *)
(* checkpoint of a turn that owes one, a command's outcome, a /stop or     *)
(* /new that made it void, or nothing to answer.                           *)
NothingLost ==
    \A m \in Messages \ next :
        kind[m] = "none" \/ m \in ToSet(accepted) \ ToSet(done) \/ Cause(m)

(* What a /stop or /new made void is not answered any more, by no replay   *)
(* and after no restart.                                                   *)
VoidStaysVoid ==
    [][\A m \in waived : answers'[m] # answers[m] => m \in lapsed]_vars

(* Nobody in the process has the claim, and the bridge waits for it.       *)
Stranded(m) ==
    /\ m \in claimed /\ bridge /\ mode = "up" /\ ~failed
    /\ m \notin UNION {ToSet(response), ToSet(inbox), ToSet(held), ToSet(batch),
                       ToSet(queued), Claims, Active}
    /\ \A r \in settling : m \notin r.claims

(* Every message the spool accepted is settled in the end, but for one     *)
(* whose response or acknowledgement was lost on the way: that one waits   *)
(* for the next start of the bridge.  (Only Budget events arrive late, so  *)
(* "always again nothing waits" says it of every message.)                 *)
EveryClaimEnds == []<>(\A m \in ToSet(accepted) : Stranded(m))

(* The same, grouped as the run checks them                                *)

(* Nothing that was accepted has its effect twice.                         *)
OnceOnly == TypeOK /\ AnsweredOnce /\ ExecutedOnce
=============================================================================
