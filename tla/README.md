# Pilotage: models, checks and proofs

Pilotage is a resident chat agent. One Python process (`src/pilotage`) talks to
WhatsApp (through a Node bridge, `src/bridge`) and to Telegram, runs a model with
tools for every conversation, and keeps what must survive a crash in SQLite and
JSON files. This directory holds TLA+ models of its core, the TLC runs that check
them, and proofs for TLAPS.

The product's hard promise is at the seams: a message that was accepted is answered
once, its tools run once, its reply arrives once, and `/stop` and `/new` mean what
they say, whatever crashes, times out or is called at the same moment.

## 1. Inventory

| Component | State | Operations | Works with | What makes it correct |
|---|---|---|---|---|
| Final-response ledger, `delivery.py` | `delivery_obligations`, `delivery_units` (SQLite), `_active_recovery_claims` | `record`, `record_units`, `mark_unit_*`, `claim_live_failed`, `claim_recoverable`, `_prune` | both channels, main, cron | no unit sent twice, units in order, "delivered" is true, proven-unsent work is not stranded, evidence is not evicted |
| Conversation store, `history.py` | `chats`, `turns`, `active_turns` | `begin_turn`, `checkpoint_*`, `request_stop`, `complete_*`, `discard_unstarted_turn`, `new_session`, `prepare_session` | Agent, main | an unfinished turn belongs to the current session; an exchange is written once |
| Agent, `agent.py` | executions with their transition lock, completion fences, chat and session locks, client leases | `prepare_turn`, `respond_result`, `recover_turn`, `stop`, `forget`, `finalize_*` | store, tools, model client | a tool step runs once, a published stop ends the turn, locks never deadlock |
| Runtime assembly, `main.py` | `fenced_turn_sessions`, channel failures, tasks | message handlers, commands, startup recovery, shutdown | everything | reply, claims and history are settled in the one safe order; startup never blocks itself |
| WhatsApp channel, `channels/whatsapp.py` | `_pending`, `_queued`, turn and command tasks, `_seen`, `completed_claims`, the bridge process and its pid file | `_accept`, `_queue_turn`, `_run_turn_queue`, `_settle_claims`, `send`, `start`, `stop`, `_restart_bridge` | bridge, handlers | nothing executed twice or lost, controls void what is queued, one bridge at a time |
| Bridge, `src/bridge` | spool directories `pending`, `claimed`, `done`; socket, `creds.json` | enqueue, claim, ack, release; connect, save credentials, shutdown | WhatsApp channel | an inbound event is handed out until it is acknowledged; credentials are never undone |
| Telegram channel, `channels/telegram.py` | offset, update spool, queue, startup hold, batches, turn and command tasks | `put`, dispatch, `complete`, `replay_pending`, `release_inbound`, `stop` | handlers | an update is durable before the offset moves, answered once and in order |
| Command outcomes, `delivery.py`, `main._durable_command_result` | `command_outcomes` | `begin_command`, `complete_command` | channels | a command runs at most once, its replay repeats the recorded response |
| Scheduled jobs, `cron/` | `jobs.json` with claims | `claim_due_jobs`, `renew_claim`, `finish_job`, `trigger_job`; scheduler loop, heartbeat | Agent, delivery | an occurrence runs at most once, a stale run cannot finish a job, repeats are counted right |
| Persistence audit, `persistence.py`; memory and skills, `tools/` | prepared and committed events with file images; memory entries in every agent | `observe`, `recover_prepared`, `rollback` | memory and skill tools | a change without its event is undone; no session's entry is overwritten |
| File tools, `tools/files.py`, `file_state.py` | path locks, read and write stamps, backups | read, write, patch | Agent | a failed patch leaves nothing behind; no deadlock; stale writes are announced |
| Shell and code, `tools/shell.py`, `code_execution.py`, `process_tree.py` | session lock, snapshot file, directory, process trees | run, cancel, time out, terminate | Agent | a killed call leaves none of its tree behind, strangers are not signalled, snapshots are whole |
| Model client, `codex/`, `Agent._ensure_client` | credentials file and lock, shared client, leases | refresh, sign-in, stream, reconnect, close | Agent, image tool, doctor | a leased client is not closed, a refresh token is used once, a sign-in is kept |
| Approvals, `approvals.py` | FIFO queues of futures | `request`, `resolve`, `clear`, `block` | embedded callers only | one answer resolves one shown request |
| Runtime lock, deployment, service, settings, media, texts | lock file, configuration | acquire and release, parsing, formatting | all | one runtime per state directory |

The hard behaviours are: coroutines that interleave at every `await` (handlers, control
commands, two delivery sweeps, heartbeats), SQLite calls in worker threads that a
cancellation cannot take back, a process that may die between any two durable writes,
platform calls whose answer is lost, a bridge that replays, and clocks that reset
sessions and expire rows. `PROJECT.json` lists each hazard at its line with the
properties that watch it.

## 2. Modules and plan

| Module | Instance | What it is |
|---|---|---|
| `DeliveryLedger` with `ReplyDelivery`, `DeliveryRefinement` | `MCDeliveryLedger` | the ledger and everybody who works on it; the abstract promise to the chat and the refinement mapping; proofs in `DeliveryProofs` |
| `TurnLifecycle` | `MCTurnLifecycle` | one conversation from the accepted message to the settled claim, with `/stop`, `/new`, `/effort`, crash and recovery; proofs in `TurnProofs` |
| `CronJobs` | `MCCronJobs` | the job table, the scheduler with its workers and heartbeats, the user's commands; proofs in `CronProofs` |
| `InboundClaims` | `MCInboundClaims` | a WhatsApp message from the bridge's spool to its settled claim; proofs in `InboundProofs` |
| `TelegramIntake` | `MCTelegramIntake` | a Telegram update from the server's queue to its completed row; proofs in `TelegramProofs` |
| `BridgeLifecycle` | `MCBridgeLifecycle` | the service, its bridge processes, the WhatsApp session and the pairing command; proofs in `BridgeProofs` |
| `PersistenceAudit` | `MCPersistenceAudit` | memory and skill files, their journal, recovery and rollback; proofs in `ToolProofs` |
| `FileTools` | `MCFileTools` | reads, writes and patches of conversations that share files; proofs in `TurnProofs` |
| `ShellSession` | `MCShellSession` | one conversation's shell and scripts, and the end of their processes; proofs in `ToolProofs` |
| `ModelClient` | `MCModelClient` | credentials, the shared client and the calls of the model; proofs in `ModelProofs` |

How they meet. `TurnLifecycle` starts where `InboundClaims` and `TelegramIntake` hand a
batch to a turn, and treats their spool as claims that are handed out until they are
completed; those two treat a turn as a checkpoint with a phase. `TurnLifecycle`'s
`Deliver` stands for `DeliveryLedger`'s `Submit ... Check`: it adds the reply, durable, in
one step, or the turn fails; `DeliveryLedger`'s `closed[o]` stands for `TurnLifecycle`'s
`completed`, and `NoLostReply` is what the first promises to the second. A tool step of
`TurnLifecycle` is a call of `FileTools`, `ShellSession` or `PersistenceAudit`; its
`Request` needs a call of `ModelClient`. `BridgeLifecycle` says when the bridge of
`InboundClaims` runs.

## 3. DeliveryLedger

One row per obligation (a final reply) with `NUnits` delivery units, the two tables of
`delivery.py`. Every `DeliveryStore` method is one SQLite transaction, hence one step;
between two steps of a sender all the others run. Senders are the handlers inside
`deliver_final` (`Finals`), the startup redelivery task (`Startup`) and the resident
sweep `_recover_live_final_responses` (`Live`); `pc`, `job`, `pos`, `round`,
`activated`, `outcome` and `batch` are their local variables.

| Code | Actions |
|---|---|
| `record`, `deliver_final` | `Submit`, `RecordRow`, `RecordRefused`, `Retire` |
| plan: `record_units`, `discard_unplanned`, `quarantine_unplanned` | `Plan`, `PlanSkipped`, `Discard`, `Quarantine` |
| the unit sender of `DeliveryUnitLedger.run`, inline retry | `Look`, `Activate`, `ClaimUnit`, `Send`, `SettleDelivered`, `SettleFailed`, `SettleRefused` |
| `mark_delivered`, `mark_planned_failed` | `Finish`, `Fail` |
| `exact_obligation_exists` and the claim fence of the handlers | `Check` |
| `claim_live_failed`, `claim_recoverable`, `redeliver_claimed_deliveries` | `Wake`, `ClaimOwn`, `ClaimOthers`, `NextRow`, `NoMoreRows`, `Release`, with `ClaimOwnFails`, `ClaimOthersFails` |
| store errors, shutdown, crash and restart, clocks | `StoreFault`, `Shutdown`, `Restart`, `Age`, `Expire`, `Due` |

Abstractions. Clock readings are the comparisons the code makes: `age` (`updated_at`
against 60 s and 7 days), `stale` (`created_at` against 24 h), `deferred`
(`next_attempt_at`). `owner_token` is `mine`; `retry_safe` of a failed unit is the state
`safe` or `unsafe`. The order of rows in a batch is left open. A platform call answers
ok, lost (accepted or not), throttled or proven unsent; a throttled or unsent one never
reached the chat. Shutdown cancels both sweeps and drains the handlers; a crash and the
next start are one step. A cancelled `to_thread` transaction is a step before the cancel.
One runtime process is assumed (`runtime_lock.py`). All five callers of `deliver_final`
pass `ledger_send`, so senders without a ledger are left out, as are command outcomes,
attachment notices and disabled platforms. `accepted`, `forgotten` (retention or capacity
deleted the row: the promise has lapsed) and `spent` are ghosts.

Bounds. `Budget` counts restarts, shutdowns and failing calls; the run `delivery` allows
one beside a failing claim, `DeliveryOneReply.cfg` two, for a fault during the recovery
from a fault. Two units show every ordering question of a plan:
first, last, before and after. One handler with both sweeps gives every pair of senders
but two handlers of one reply, which `DeliveryTwoHandlers.cfg` adds. `MaxRows = 1` with two replies is a full ledger.

## 4. TurnLifecycle

| Code | State |
|---|---|
| `chats.session`, the row of `active_turns`, `turns` | `session`, `active`, `history` |
| `completed_claims`, bridge and queue | `completed`, `stage` |
| the handler or the startup recovery | `turn` (where it stands), `msg`, `step` |
| `_ActiveExecution.outcome`, the completion fence, `fenced_turn_sessions` | `outcome`, `fence`, `fenced` |
| the control command and the stop transition between its store call and its publication | `control`, `staged` |
| tool calls under way and their effects | `running`, `effects` |

| Code | Actions |
|---|---|
| `_accept`, `_queue_turn` | `Accept`, `Take` |
| `prepare_turn`, `begin_turn` | `Prepare`, `Begin` |
| the loop of `_run_turn`, `run_calls` | `Request`, `ToolEnds`, `Gathered`, `Complete`, `Answer` |
| `checkpoint_answer`, delivery, `persist_completed_claims`, `finalize_ready_turn` | `Stage`, `Deliver`, `Persist`, `Finalize`, `Mark` |
| a message behind an unknown tool outcome | `Warn` |
| `/stop`: `stop`, `_run_stop_transition`, `TurnStopped`, `finalize_stop` | `StopReply`, `StopPersist`, `StopPublish`, `Stopped`, `StopClaims`, `FinishStop` |
| `/new`, `/effort` | `New`, `Effort`; `Ask` accepts a control and drops the queue |
| exceptions, cancellation, `discard_unstarted_turn`, `_fail_channel` | `Raise`, `Cancel`, `TornBegin`, `Discard`, `Fail`, `ControlFails` |
| `list_active_turns` and the classification, `_recover_interrupted_turns`, `_retire_unknown_turn_claims`, `_retire_stopped_turns`, `release_inbound` | `List`, `Reject`, `Retire`, `Unclaim`, `Entomb`, `Open` |
| shutdown, crash, bridge replay | `Shutdown`, `Restart` |

A member of `Messages` is a batch of inbound messages merged into one turn, with its
claims. The sections the turn runs under its transition lock are one step; the stop
transition is two, since the lock is held while the turn waits and the result is
published only behind the commit. Controls of a conversation run one after the other, as
the channel runs them; no turn starts while one runs. The parallel calls of one tool step
are one effect; a cancelled tool that runs in a worker thread may still take effect, so
`running` outlives the turn. When startup fails (main returns 1) or a channel fails, the
supervisor's restart is `Restart` from `closing`. A shutdown that expires cancels the
turn and every control that is not yet in its store call.

Left out: turns whose
completion is not deferred (scheduled ones), startup branches for a disabled channel or a
row without a verified identity (they only fence), pruning of old sessions. Telegram's handler
follows the same protocol; `TelegramIntake` has its inbound side. The bound of the
completed-claim ledger is in `InboundClaims`.

Bounds. Two batches: one whose turn fails or is stopped, one behind it in the queue. Two
tool steps: a resumed turn has one behind it and one before it. Two controls: `/stop`
beside `/new`, or a `/stop` retried. Two faults: a crash during the recovery from a crash.
Two sessions: one reset or one `/new`.

`CHECK_DEADLOCK FALSE`: the workload is finite; when every batch is settled and the bounds
are used up, nothing is left to do.

## 5. CronJobs

| Code | State |
|---|---|
| a job of `jobs.json`: `state`, `enabled`, `paused_at`, `schedule.kind`, `repeat`, `next_run_at`, `missed_at`, `claim`, `last_status` | `state`, `enabled`, `held`, `kind`, `times` and `completed`, `next`, `missed`, `claim` and `stale`, `last` |
| `run_at` beyond its grace | `passed` |
| the scheduler's `_running`, the process | `proc` |
| worker tasks, `_ACTIVE_CLAIM_OWNERS`, `success` | `pc`, `work`, `ok` |

| Code | Actions |
|---|---|
| `claim_due_jobs`, job by job | `Retire`, `Settle`, `Miss`, `Claim` |
| `_run_loop` creating a task, `_run_claimed` | `Register`, `Begin`, `Respond`, `Check`, `Save`, `Verify`, `Deliver`, `Broken`, `Report`, `Notify`, `Finish` |
| `_heartbeat`, the drain of `stop` | `Heartbeat`, `RenewFails`, `Cancel` |
| failing store calls | `SaveFails`, `FinishFails` |
| `start`, `stop`, a crash | `Start`, `Stop`, `Stopped`, `Crash` |
| `create_job`, `pause_job`, `resume_job`, `trigger_job`, `update_job`, `remove_job` | `Create`, `Pause`, `Resume`, `Trigger`, `Reschedule`, `Recount`, `Remove` |
| the clock | `Tick`, `Age` |

Each method of `CronStore` holds the store's lock from its load to its atomic save and is
one step, except that `claim_due_jobs` is one step per job: between them the model lets
other commands in, which the code does not, so it has more behaviours than the code. The
order in which the jobs of the table are looked at is left open. A slot is `future`, `due`
or (a one-shot beyond its grace) `late`. Any claim may become stale at any time: the
heartbeat may be late, or the clock may jump. Interval and cron schedules are both
`recurring`: they differ in which slot comes next. A count given together with a new
schedule is read under the old schedule (`After`): a one-shot that becomes recurring gets 1
or no limit, never the count that was given.

Left out: `can_run` (jobs of a channel that is not configured are skipped), claims of
another host and owners of unknown liveness (they are never retired, so `ClaimEnds` does
not hold for them), malformed schedules and time stamps, which end in state `error`.

Ghosts: `starts` counts the runs begun under a repeat count, `told` the jobs whose claimed
run has reached the delivery with its saved answer, `silenced` those the user has paused.

Bounds. One job: jobs only share the capacity and the process, and the theorems hold for
any number. Two claim identities show a run beside a later one of the same job; an identity
is used again when nothing names it, as a random one never is. Two repeats: a last run and
one before it. Three commands: pause, reschedule and resume. Two faults: a crash and a
failing call. A removed job is not created again, so the run may stop
(`CHECK_DEADLOCK FALSE`).

## 6. InboundClaims

| Code | State |
|---|---|
| `pending/`, `claimed/`, `done/` of the bridge's spool, a `/messages` response on its way | `accepted`, `claimed`, `done`, `response` |
| `_startup_events`, the events the poll loop is accepting | `held`, `inbox` |
| `_seen`, `_completed_claims`, `_CompletedClaimStore` | `seen`, `cached`, `ledger` |
| `_pending`, `_queued`, `_turn_tasks`, the command tasks and what they wait for, `_settle_claims` | `batch`, `queued`, `turn`, `cmd` and `after`, `settling` |
| the checkpoint in `active_turns`, `command_outcomes` | `checkpoint`, `outcome` |

| Code | Actions |
|---|---|
| `enqueue`, `claim`, `ack` and `release`, `initialize` of the spool | `Enqueue`, `Claim`, `Settle`, `BridgeBack` |
| `_poll_loop`, `_accept`, `_hold`, `_queue_turn` | `Receive`, `Accept` (with `Hold`, `Ignored`, `Duplicate`, `Void`, `Collect`, `Command`), `Flush` |
| `handle_whatsapp`, `_run_turn_queue` | `Begin`, `Refuse`, `Answer`, `Stopped`, `Fence`, `Finalize`, `Return`, `NextTurn`, `Raise`, `Unrecorded` |
| the control and command tasks, `_durable_command_result` | `Reserve`, `Execute`, `Complete`, `Reply`, `CommandEnds`, `CommandFails` |
| startup recovery and `release_inbound` | `Start`, `Resume`, `Record`, `Retire`, `RecoveryFails`, `Release` |
| `stop_intake`, `stop` | `StopIntake`, `Cancel`, `Exit` |
| losses and ends | `Lose`, `SettleFails`, `BridgeDies`, `GiveUp`, `Crash`, `Expire` |

What the loop does between two awaits is one step; while it accepts the events of one
response nothing else of the loop runs (`Busy`). A message is what `_accept` distinguishes:
a text, a control, a command or something it ignores. The time to live of `_seen` is
`Expire`; it bites on texts only, whose turns may be long. A media fence delays `Flush`,
nothing else. Retention of command outcomes and the interplay of `/stop` with a running
turn (which is `TurnLifecycle`'s) are left out. Ghosts: `answers`, `runs`, `waived`,
`lapsed` (an identity that `_seen` or the ledger let go while its message was unsettled:
`OnceOnly` exempts exactly these).

Bounds. Two messages with two faults, three with one: a control behind a turn and a queued
text, a command behind a command. `MaxDone` and `MaxLedger` are one, so that both lists
forget at once. The scripts name the mixtures; the order and the moment of everything else
is free.

## 7. TelegramIntake

| Code | State |
|---|---|
| the server's offset, `getUpdates`, a put that waits for the spool | `confirmed`, `offset`, `fetched`, `putting` |
| `telegram_updates`, `_DurableUpdateQueue`, `_enqueued_claims` | `spool`, `queue`, `enqueued` |
| python-telegram-bot's handler, and `release_inbound` | `slot` |
| `_startup_updates`, `_startup_held_claims`, `_held_inbound` | `startup`, `heldClaims`, `late` |
| `_pending`, `_queued`, `_turn_tasks`, command tasks | `batch`, `queued`, `turn`, `cmd`, `after`, `dropped` |

| Code | Actions |
|---|---|
| polling, `record`, `put` | `Poll`, `Record`, `Put`, `RecordFails`, `PollingFails` |
| the handlers, `_dispatch`, `_accept` | `Dispatch`, `Download`, `SettleUpdate`, `UpdateFails`, `Flush` |
| `handle_telegram`, `_run_turn_queue` | `HandlerStep`, `Return`, `Raise`, `HandlerFails` |
| commands, `_durable_command_result` | `CommandStep`, `CommandFails` |
| `start`, `replay_pending`, recovery, `release_inbound` | `Start`, `Resume`, `RecordRecovered`, `Retire`, `RetireUnknown`, `RecoveryFails`, `RecoveryBlocked`, `Release`, `ReleaseNext`, `Released`, `Abort` |
| `stop_intake`, `stop`, crash, operator, retention | `StopIntake`, `IntakeClosed`, `Drained`, `Exit`, `Crash`, `Revoke`, `Prune` |

A webhook hands updates over like a poll. An edit has the identity of the message before
it. Albums are batches; the spool's capacity is only that `record` may fail. A turn that
was running a tool at the crash may be of unknown outcome. `EveryUpdateSettles` exempts the
state of finding 1, in which nothing comes up again. Notices (interrupted, fenced) are not
counted as answers; an edit that arrives after a restart is answered as a new message.

## 8. BridgeLifecycle

| Code | State |
|---|---|
| the bridge processes (`bridge.js`): their phase, socket, credentials in memory, queued saves | `life`, `pairing`, `link`, `mem`, `saves`, `unclean` |
| `creds.json`, the device's registration with the phone | `file`, `issued`, `linked` |
| `RuntimeLock`, `_process`, the pid file | `lock`, `child`, `pidfile` |
| the service and its use of the channel, the pairing command, `whatsapp.enabled` | `pc`, `tries`, `restarting`, `work`, `setup`, `partner`, `enabled` |

| Code | Actions |
|---|---|
| `bridge.js`: listen, `startSocket`, `creds.update`, connection events, `createCredentialSaveCoordinator`, `shutdown` | `Listen`, `ReadCreds`, `Open`, `Scan`, `Update`, `Close`, `Write`, `WriteFails`, `Drained`, `Leave`, `FlushTimesOut`, `BridgeCrashes`, `Unlink` |
| `WhatsAppChannel.start`: `_preflight`, `_stop_stale_bridge`, `_spawn_bridge`, `_wait_until_connected` | `Start`, `Preflight`, `StopStale`, `StaleUnverified`, `Spawn`, `Record`, `Connected`, `ChildExited`, `ReadyTimesOut` |
| `_poll_loop`, `_restart_bridge` | `BridgeDied` and the steps above again |
| recovery, work, `stop`, `_terminate_bridge` | `Recover`, `RecoverFails`, `Begin`, `End`, `Stop`, `Quiesce`, `Unrecord`, `Terminate`, `Reap`, `Kill`, `Dies` |
| `command_whatsapp_pair` | `SetUp`, `SetupEnds`, `Keep`, `Disable`, `Clear`, `SpawnPairing`, `Paired`, `Interrupt`, `Interrupted`, `HangUp` |

Credentials are the set of updates they contain; 0 stands for `initAuthCreds`. `supervised`,
chosen at the beginning, says whether systemd runs the service (`KillMode=mixed` takes the
bridges along); `BridgeOwned` and the session properties are stated for that case, because
without it a crash between `Popen` and the pid file leaves a bridge nobody knows, and
`_stop_stale_bridge` waits for the port only while the old bridge may still drain and save.
Only `creds.json` is modelled, not the key files; a network failure of `startSocket` is a
stutter; the managed setup, a service without WhatsApp and the wait of a bridge that "did
not stop" are left out. `ServiceReturns` exempts what waits for the operator: no pairing, a
logged-out device, a bridge of unknown owner on the port.

Bounds: three process slots (an old, a new, a pairing one; dead ones that nobody refers to
are used again), three updates of credentials, two restart attempts, two faults.

## 9. PersistenceAudit

`disk` is the files as sets of entries, `row` and `log` the journal
(`persistence_events`), `live` the entries each agent's `MemoryStore` holds, `auditLock`
the audit lock. A call goes `Preview` (dispatch in the registry), `Lock`, `Snapshot`, `Prepare`,
`InvokeMemory` or `InvokeSkill` (one step per file: a failure or a crash may come between),
`Compare`, then `Discard`, or `Flush` and `Commit` (which prunes to `MaxEvents`), or `Undo`,
file by file (`_recover_change_sync`); `Withdraw` is a prepare that fails. `Recover` and
`StartService` are the startup (`recover_prepared`), `Rollback` and `RollbackStep` the operator's
rollback, `StopTurn` a cancellation, `EditOutside` an editor. A snapshot, one file's write and a
transaction are one step each. Two conversations of two channels, hence two agents with a
store each, share one memory file; the entries are two, and one of somebody else's.
`base` is a ghost: what the journal says of each file. The lock of asyncio is handed on in
order (`SF` of `Lock`).

## 10. FileTools

A file is the stamp of its last write, which stands for bytes, inode and mtime alike.
`ReadBytes`, `RecordRead`/`ReadEnds` are a read with its stamp; `StartCall`, `TakeLock` (in
the order of the paths), `Check`, `TakeBackups`, `Validate` (`Present` is the
overlay of `_validate_operations` behind each operation), `ApplyOp` for each operation, `Succeed`, or `Restore`.
A restore may itself fail, for any of the paths (`Rollback also failed`): these go to
`unrestored`, and `AllOrNothing` exempts them alone, every other path of the call is back as it
was. `ReadStopped` and `StrayReadEnds` are a read whose turn was stopped while its thread goes on;
`EditOutside` is an editor. The content matching of an update succeeds or fails freely on a
file that exists. Caps of the registry and stamps of writes that change nothing are left
out. The five calls of `MCFileTools` meet on both paths, among them two patches that name
them in opposite orders. The same module with two calls each (`FileStale.cfg`) shows the
finding on stamps.

## 11. ShellSession

A call has a coroutine (`handler`), a thread that starts and watches (`worker`) and its
process (`script`) with the children it leaves (`kids`: in the group, in a session of their
own, orphaned members, late forks). `SpawnCommand` is the terminal, `SpawnScript`
`execute_code`; `Source`, `Eval`, `Dump`, `Move`, `Mark`, `Exit` are the wrapped script;
`TakeSnapshot`, `Term`, `GraceEnds`, `Kill` are `terminate_process_tree`. A round of signals goes
to the group by its number and then to the processes of the snapshot, each in two steps, as
`_signal_identity` does it: `LookAt` checks the identity, `Strike` is the `os.kill`. Meanwhile
processes end by themselves (`KidEnds`), the leader is reaped (`Reap`), by the grace period or by
the thread that drains a terminal's pipe, and the kernel may give what is free to a stranger
(`Reuse`): the pid of a process that has gone, or the number of the leader and its group once
the leader is reaped and the group is empty (`Freed`). `struck` records how a stranger was signalled; both
ways are reachable (finding 9). `Stop` and `StopAgain` are the two cancellations of a
`/stop`. Not modelled: output; of the thread that drains it only the reaping is. `CallEnds`
exempts a script that has left a process on its pipe (`Held`). `SessionKept` says that no
command starts from half a snapshot and that two workers share the shell only when the earlier
call was cancelled twice. It does not say that the snapshot and the directory are of one call: a
call killed between `Move` and `Mark` leaves its snapshot without its directory.

## 12. ModelClient

A token is a pair of access and refresh token, numbered as issued; the client bears its
number. `ReadFile`, `TakeLock`, `GiveUpLock`, `Exchange`, `ExchangeFails`, `WriteFile` are
`resolve_credentials` in its thread, which a cancelled caller leaves behind; `Login` is the
sign-in; `Ensure`, `Resolved`, `ResolveFailed` are `_ensure_client`; `Attempt`, `Finish`,
`Refused`, `ReplayRejected`, `Silence`, `Continue`, `Release` are the attempts of
`_call_model`; `Cancel`, `Close` and `Die` end them. The server uses a refresh token once
(external). A client's leases are a count, as in the code, which a cancelled call may leave
too high and nothing may leave too low. Closing a client is atomic; `Agent.close` runs when no call is under way. A
refresh whose answer is lost is a fault of its own: `SpentOnce` exempts its sign-in. Three
tokens: the first, its refresh, a sign-in.

## 13. Runs

| Run | Properties | Shows |
|---|---|---|
| `turn` | `ToolsOnce` `CleanConversation` `SettledOnce` `OneVerdict` `StopIsFinal` `EventuallyCompleted` | two batches, two steps, two controls, two faults: safety, and every batch is settled |
| `delivery` | `UnitsExact` `Fenced` `NothingMissing` `ClaimsKept` `ImplementsPromise` `EventuallySettled` | one reply of two units between a handler and both sweeps, a fault and failing claims |
| `delivery_capacity` | `RecordKept` | two replies, a ledger of one row |
| `cron_jobs` | `ClaimsMatch` `OkMeansDelivered` `RunsAllowed` `JobsProceed` | one job, two faults, three commands |
| `inbound` | `OnceOnly` `NothingLost` `VoidStaysVoid` `EveryClaimEnds` | three WhatsApp messages |
| `telegram` | `UpdatesKept` `AnsweredOnce` `InOrder` `EveryUpdateSettles` | three Telegram updates |
| `telegram_fence` | `ComesUpAgain` (violated) | finding 1 |
| `bridge` | `BridgeSingle` `SessionSafe` `ServiceReturns` | service, bridges and pairing |
| `files` | `AllOrNothing` `PatchGoesThrough` `CallEnds` | two conversations, two files, two faults, failing restores included |
| `learning` | `AuditTrue` `NothingLost` `LearningEnds` | one memory file, two skill files |
| `shell` | `TreeKilled` `SessionKept` `CallEnds` | two calls, four kinds of children, pids given away |
| `model` | `LeasedIsOpen` `SignInKept` `CallsEnd` | two turns and another process |

Every module's type invariant is a part of one of its run's properties (`UnitsExact`,
`CleanConversation`, `ClaimsMatch`, `OnceOnly`, `UpdatesKept`, `BridgeSingle`, `AllOrNothing`,
`AuditTrue`, `SessionKept`, `SignInKept`). Properties are grouped where one state space
answers for all of them; the parts are named definitions of their own. The mutants named in
the modules ("Mutation: ...") are small plausible bugs; each property has one that breaks it.

Further configurations, larger or of a single question, to be run by hand:
`DeliveryOneReply.cfg`, `DeliveryTwoHandlers.cfg`, `DeliveryNotices.cfg` (pass: two faults; two
handlers of one reply; notices and retention), and those of section 14, each of which ends
with a violated property: `TurnAbandoned.cfg`, `DeliveryLeak.cfg`, `CronResumable.cfg`,
`CronDoctor.cfg`, `FileStale.cfg`, `BridgeQr.cfg`, `ShellPid.cfg`, `ShellGroup.cfg`.

`CHECK_DEADLOCK FALSE` everywhere but in the ledger: a workload is finite, and when it is
settled and the bounds are used up nothing is left to do.

Fairness. Coroutines whose awaited calls return, and threads, are scheduled: weak fairness
per actor. Clocks advance, requests are answered or time out, a stream ends or is cut off by
its watchdogs. The bridge polls for claims. A process that is closing ends and a supervisor
starts the next one (`scripts/pilotage-agent.service` has `Restart=always`); the operator
ends a pairing he has begun. Nothing makes faults, users, children left behind, replies with
a lost answer, or the clock's session reset happen. In `CronJobs` the sweep of a job is fair
(the loop wakes every tick), a worker is fair (its agent's turn ends), heartbeats and
commands are not. In `InboundClaims` the loop and the bridge as a whole go on. Strong
fairness is used once, for the asyncio lock of `PersistenceAudit`, which is first come,
first served.

## 14. Findings

1. `telegram_fence`: `_TelegramInboundStore.complete` raises when a claim has no row in the
   spool. The row of an interrupted turn can be gone: its sender was taken off the list
   (`discard_pending`), or it was completed and pruned. Retiring the turn's claims then fails,
   startup fails with it, and so does every later start, although `main.py:397-399` says
   "Fence only this session, retire its accepted input, and keep /new reachable."

Shown by the further configurations, or by a property no configuration lists:

2. `DeliveryLeak.cfg` (`ClaimsHeld`): `claim_live_failed` adds a row to
   `_active_recovery_claims` before its transaction commits, and the live sweep gives up rows
   it holds when the second claim raises. The id stays in the set while the process lives, and
   a reply that is proven unsent is not sent before a restart. `EventuallySettled` exempts
   such rows (`Stranded`). `ClaimsKept` says that there is no other way: whatever else fails,
   crashes or is cancelled, a claim is released by who holds it, and only the step of a claim
   transaction that fails strands one.
3. `TurnAbandoned.cfg` (`AbandonedStaysAbandoned`): a turn fails behind a tool checkpoint while
   a `/new` is on its way. The checkpoint is deleted by the `/new`, the claim is not completed,
   and after the restart the abandoned message is answered in the new session and its tools
   run again. `ToolsOnce`, `OneVerdict` and `QuietAfterStop` exclude exactly these batches
   (`orphaned`).
4. `CronResumable.cfg` (`Resumable`): a recurring job is paused while it runs, and the process
   dies. The sweep makes the job `scheduled` again and leaves it disabled, where `finish_job`
   would have made it `paused`. It never runs, `resume` refuses it because it is not paused,
   and `run` refuses it with the advice to resume it. `PauseHolds` still holds.
5. `CronDoctor.cfg` (`ClaimedIsRunning`): a job that is paused while it runs has a claim under
   the state `paused`. A test makes that legal; `verify_health` takes it for a malformed claim.
6. `FileStale.cfg` (`SiblingIsWarned`): `record_read` takes the file's mtime after the bytes were
   read and outside the path lock. A sibling's write between the two is stamped as seen, and
   the next write of the reader overwrites it without the warning that
   `tools/file_state.py:4-8` promises.
7. `BridgeQr.cfg` (`QrIsShown`): a bridge that was started without a pairing and stopped before
   its QR code was scanned saves its fresh, unregistered credentials on the way out. The next
   `_preflight` finds an incomplete session and refuses to start, although its own comment says
   "A missing file is deliberate: the resident bridge must surface the first-connection QR
   flow required by the product contract."
8. `ShellSession!TimeoutIsHard`: after a script has ended, `stream.close()` of `execute_code`
   waits for a process that the script has left on its pipe, whatever the timeout says.
   `ShellSession!GroupKilled`: `terminate_process_tree` does not kill a member of the process
   group whose parent is gone and which ignores SIGTERM. And as `/stop` cancels twice, the
   session's lock can be free while the worker of the first call still runs; `OneAtATime`
   exempts these calls (`left`).
9. `ShellPid.cfg` (`PidIsItsOwn`): `_signal_identity` says "Signal only when PID still names the
   snapshotted process." (`process_tree.py:91`), but the check of `/proc` and the `os.kill` are two
   steps, between which the process may end and its pid be given away. `ShellGroup.cfg`
   (`GroupIsItsOwn`): the module calls itself "identity-aware" (`process_tree.py:1`), and the
   group is signalled by its number alone. `process.poll()` may have reaped the leader during
   the grace period, or the drain thread even before; when no process of the group is left
   while another one of the snapshot is, the second `os.killpg` goes to whoever has the number
   by then. Both need a reuse of the number within moments; a pidfd would rule the first out.
10. Met while modelling, without a property: the release of a client that is cancelled while it
   waits for the lock keeps its lease (`CallsEnd` exempts it, `dropped`); after a startup
   recovery that failed, `stop_intake` accepts the inbound it had held; `_restore_backups` over
   a hard link of the same inode is a no-op and leaves a backup file; when a restore fails,
   `_discard_backups` deletes the backup all the same, so that the error names the path and
   the old content is gone; `update_job` reads a
   count given together with a new schedule under the old one (section 5).

## 15. Proofs

All theorems are proved for every value of the constants that satisfies the named
assumptions of the module (`ConstantsAssumption`, `TurnAssumption`, `CronAssumption`,
`ModelAssumption`, `ShellAssumption`, `AuditAssumption`, `FileAssumption`, `CallsAssumption`,
`BridgeAssumption`, `InboundAssumption`, `TelegramAssumption`): any number of replies, units,
handlers, messages, updates, steps, jobs, repeats, turns, processes, calls, entries, paths,
operations of a patch, faults and restarts. The assumptions say that bounds are numbers, that
sets which stand for different things are disjoint, that inputs have the shape the parsers
hand on, and that the turns of `ModelClient`, whose leases are counted, are finitely many.
Two component models that meet in a proof module (`TurnLifecycle` and `FileTools`,
`ShellSession` and `PersistenceAudit`) share no name and no state.

In every module the property alone is not inductive, and most of the proof is the
invariant that is. Each was first checked with TLC on the instance of the safety run. A
step is taken apart by actor, then by action, then by conjunct of the invariant.

`DeliveryProofs`:

- `TypeCorrect`: `TypeOK`. It is not inductive alone: the attempt bound needs to know that a
  row that is counted again has a plan, hence `Backed`, which relates each row to its units
  (no row, no units; pending, nothing sent; delivered, every unit delivered).
  `TablesConsistent` proves both together.
- `Courier` says of each unit how the chat's count, its state and the senders in flight
  belong together: a unit that may still be claimed was never accepted, an accepted one is
  delivered, unsafe or attempting, and only one sender is in flight for an attempting one.
  `CouriersHold` proves it invariant, one lemma per kind of sender step.
- `NeverTwice` (`NoDuplicate`), `OneAtATime` (`OneCourier`), `DeliveredIsTrue`
  (`DeliveredInFull`) and `DiscardLosesNothing` (`DiscardIsUnsent`) follow from the three, and
  with them what the run checks: `UnitsAreExact` (`UnitsExact`), `SendersAreFenced` (`Fenced`).
- `Ordered`: a sender has passed only delivered units, and whoever has come to a unit has
  found those in front of it delivered. `OrderHolds` proves it, and with `Courier` it gives
  `PlanIsInOrder` (`InOrder`).
- `RepliesAreKept` (`NoLostReply`): `Remembered` is what one step owes to a settled claim, to
  close it only on an exact row and to leave exact rows exact; each sender does. With the
  order it is `NothingIsMissing` (`NothingMissing`).
- `SettledIsKept` (`SettledForGood`, `EvidenceKept`), about steps: `Respected` says what one step
  may do to a settled row. Only `_prune` touches one, and `PruneSpares` says which.
- `RoomIsKept` (`OpenBounded`) counts the open rows: a step that opens one has counted before
  it commits, so the bound holds for infinitely many possible replies too. `RecordIsKept`
  (`RecordKept`) is both.
- `ClaimsAreKept` (`ClaimsKept`), about steps and without any assumption on faults: a claim that
  nobody works on was stranded before the step, or the step is a claim transaction that
  fails (`ClaimOwnFails`, `ClaimOthersFails`), the leak of finding 2. `Keeps` is what each
  other step owes: a row that a sweep holds stays with it or leaves the active claims
  (`StaysHeld`). The step in which a handler asks whether its inbound claim may be settled is no
  sweep's (`NoneChecks`).
- `PromiseIsKept` (`ImplementsPromise`) is the refinement: with `Courier` and `Ordered` every
  step of the ledger is, for each reply whose record is not erased, a step of `ReplyDelivery`
  or none. `ReplyDelivery` states its step per reply, since one step of the ledger (a
  shutdown, a crash) can end calls of several replies at once.

`TurnProofs`, of `TurnLifecycle`, proves all safety properties of `turn`, part by part: `TypeCorrect` (`TypeOK`),
`NoDetachedTurn` (`NeverDetached`), `ToolStepsOnce` (`ToolsOnce`), `NothingDropped`
(`NoSilentDrop`), `HistoryOnce` (`ClaimBeforeHistory`), `StoppedIsStopped` (`OneVerdict`),
`IdleConversation` (`IdleIsClean`), `NothingAfterStop` (`QuietAfterStop`) and `UnknownStays`
(`UnknownIsSticky`); `ConversationStaysClean`, `SettledExactly` and `StopStaysFinal` put them
together as the run checks them. None is inductive alone; what is missing is how the durable row and
the place of the handler belong together. `IInv` says it in parts, each with a lemma that
a step keeps it, given the parts before it:

- `Steady`: who is past the startup holds a taken batch; a stop between its store call and
  its publication is not yet the outcome; only a stop settles a batch in preparation.
- `Held`: a handler at work has the row of its own batch.
- `ClaimsWritten`, `Accounted`: claims before history, a reply or the user's command before claims.
- `Underway`: a row that is not finished has unsettled claims, and somebody is at work on it.
- `StepsOnce`: every tool step that was ever requested lies at or before the row's step or
  belongs to a settled batch, so a request is always of a new step.
- `Clean`: a conversation without work has no row, or an unknown one behind its fence.
- `Spoken`: answers come from rows with a staged answer, "stopped" is said of stopped rows
  or settled preparations, and neither row ever becomes the other.
- `Silent`: a call still running belongs to a step reported as unknown, never to a batch
  reported as stopped.

`CronProofs` proves the safety properties of `cron_jobs`: `TypeCorrect` (`TypeOK`),
`OneRunAtATime` (`WorkerHoldsClaim`), `RunningHasClaim` (`RunningIsClaimed`),
`OkIsDelivered` (`OkMeansDelivered`), `RepeatsAreKept` (`WithinRepeats`) and `PauseIsKept`
(`PauseHolds`), and together `ClaimsAreTrue` (`ClaimsMatch`) and `RunsAreAllowed`
(`RunsAllowed`). The inductive invariant adds what they need:

- `Claims`: no two workers are at one job, and only running or paused jobs are claimed, so a
  job that may be claimed has neither claim nor worker.
- `Marks`: a job the user has paused keeps its mark whatever its state becomes; that is why
  a pause survives the crash of finding 4.
- `Successes`: a successful worker is past its verification, and past its delivery when it
  finishes.
- `Repeated`: the runs begun never exceed those counted and the one that is still claimed,
  and a worker that has not begun has a repeat left.

`ModelProofs`: `TypeCorrect` (`TypeOK`), `StreamsStayOpen` (`LeasedIsOpen`), `SignInIsKept`
(`SignInKept`).

- `Leasing`: the leases of a client are at least the turns that have it, and at most these
  and the cancelled turns that left one behind. The lower half is what keeps a client open,
  the upper half what bounds the count; both are about cardinalities (`Counted`).
- `Pooled`: what was retired or closed is older than the current client, and the one turn
  that resolves holds `authLock`, so that a client never becomes current twice.
- `Stored`: whoever exchanges or writes holds the lock of the file; a token read before the
  lock is read again behind it. The file's token is spent only while its successor is being
  written, or when an answer was lost.

`ToolProofs`, of `ShellSession`: `TreeIsKilled` (`TreeKilled`), `SessionIsKept`
(`SessionKept`).

- `Turns`: calls follow each other, and a worker outlives its coroutine only if that was
  cancelled twice.
- `Trees`: a script that has not run its command has left no process, and the snapshot of
  the tree is taken before the first signal; behind the `SIGKILL` of its group the leader has ended, and what is
  left of the snapshot is still to be looked at, or is signalled next. So nothing of it is left
  when the round is over, whoever else has been struck.

`ToolProofs`, of `PersistenceAudit`: `AuditIsTrue` (`AuditTrue`) and `NothingIsLost`
(`NothingLost`, about steps). The journal is compared with files that change one at a time
behind it, so the invariant `Learned` says what each stage of a call may count on:

- `OneByOne`: one call or one rollback at a time, behind the audit lock, and none while the
  service is down. `Asked`: the call is one of the model's and writes its own files only.
- `EventIsOurs`, `HeldIsBase`: the prepared event is that of the call or rollback under way,
  and holds what the journal says of its files; what a call has seen before it could prepare
  is that as well. So undoing the event, at once or at the next start, is always right.
- `Accounted`, the property's own part: a file nobody else edits is as the journal says,
  unless the prepared event covers it.
- `SeenIsTrue`: a call that changed nothing finds the files as the journal has them, and the
  second snapshot is what is on disk when the event is committed.
- `DoneIsTrue`: a memory call that did not fail has left its outcome, its operations applied
  in order to what the journal said, and not to what some store had in memory.
- `LastIsBase`, with `OneHistory`: the last event of a file says what the journal says of it,
  and each event continues the one before, also behind the pruning of the oldest.

`TurnProofs`, of `FileTools`: `PatchIsAllOrNothing` (`AllOrNothing`) and `PatchApplies`
(`ValidatedApplies`), both about steps, and `NobodyWaitsInACircle` (`NoCircle`), from the
invariant `FilesKept` (`FilesAreKept`); `PatchIsGoingThrough` puts the last two together as the
run checks them:

- `PathsLocked`: behind its locks a call has every path of its operations to itself, a
  move's destination included; so the paths of two calls are apart (`TouchedApart`).
- `StampsGiven`, `OwnPathsOnly`: stamps are given once; what a call has written is on its own
  paths, and in nobody's backup, because every backup is taken behind the locks.
- `BackupOfTouched`: a backup holds nothing but what the call may touch.
- `OverlayHolds`: while nothing has gone wrong, there is an overlay, consistent with the
  operations from the first to the last, whose files at the next operation exist.
- `LocksInOrder`, beside it: what a call holds comes before what it still misses. The call
  that wants the last of the wanted paths waits for one that would have to want a later one.

Two operators are recursive functions over the operations of a call, `Working` (what the
memory tool makes of its entries) and `Present` (the overlay of a validation). That they are
defined for a call of any length, and that their values are sets of entries and of paths,
is proved by the least counterexample: a set of natural numbers has a least element (`Least`,
`LeastNumber`), and a shortest prefix without a solution would extend the solution of the
prefix before it (`WorkingDefined`, `PresentDefined`).

`BridgeProofs`: `OneBridgeAtATime` (`BridgeSingle`), `SessionIsSafe` (`SessionSafe`), the second
about steps.

- `Sockets`: a bridge has read the credentials only behind all queued saves.
- `Roles`: the service or the pairing command holds the runtime lock, and the living bridges
  are the ones they have started.
- `Worked`: turns and jobs use the bridge only while it serves or is being brought back.
- `Creds`: what a bridge has in memory contains the file, and the file contains it when its
  saves are done; the pairing command clears the session only with the channel disabled.

`InboundProofs`: `AcceptedOnce` (`OnceOnly`), `AcceptedIsKept` (`NothingLost`), `VoidIsFinal`
(`VoidStaysVoid`, about steps). The bounded deduplicator forgets, so the invariant is said of
messages whose identity has not lapsed; of those the channel still knows what it did:

- `CacheBacked`, `WorkKnown`, `WorkApart`: what the process remembers as settled is recorded,
  what waits or runs would not be accepted again, and no message waits in two places.
- `TurnCheckpointed`, `AnswerRemembered`: an answer is in the ledger of completed claims, or the
  turn's checkpoint is ready and has its claim; the checkpoint is the running turn's.
- `WaitingUnanswered`, `UnreadyUnanswered`: what a turn may still ask the model about has no
  answer. With the above this is what a crash between checkpoint and ledger needs.
- `VoidIsOut`: what `/stop` or `/new` made void is recorded before anything else can see it,
  waits nowhere, and is in no turn that is still to be answered.
- `RunReserved`: a command executes behind its reservation in `command_outcomes`.
- `ReadyAnswered`, `SettledForCause`: what is recorded, remembered or acknowledged was
  answered, executed, made void or ignored; so what leaves the spool was.

`TelegramProofs`: `UpdatesAreKept` (`UpdatesKept`), `AnsweredAtMostOnce` (`AnsweredOnce`),
`AnsweredInOrder` (`InOrder`, about steps). The first needs only the half of the invariant about
the way from the server to the handlers, the second what was answered besides, the third also
where everything is that is still owed an answer.

- `KeptSoFar`: every update the process has come to is pending in the spool or has a
  `Warrant`, a cause that no step takes away. "Come to" (`Reached`) is said of the server's
  offset, the process's own, the rest of a response, and everything before a pending row.
- `PendingIsEnqueued`: a running process has each pending row in `_enqueued_claims`, so that an
  update that is repeated is refused by it.
- `PipeInOrder`, `PipeIsEnqueued`, `PipeIsUnseen`: an edit has the identity of its message, and
  is accepted in its place when it comes first. No edit that could take an unanswered message's
  identity is in front of it in the queue, in what is held, or in a download. `GateKept` says
  when the dispatcher and the release work beside each other at all.
- `HeldIsIdle`: before what was held is released nothing is accepted but `/approve`.
- `TurnCheckpointed`: the checkpoint is the running turn's, and ready when it was answered.
- `AnswerRemembered`: an answer is settled in the spool or in the checkpoint that is ready.
  `Lapse` names what one step leaves answered without a checkpoint: only the end of a turn and
  the end of a recovery do, behind the settlement.
- `SettledOnRecord`: what the process remembers as settled is completed in the spool; a row is
  gone only below the server's offset or after the sender was taken off the list. So no update
  comes back whose row is gone.
- `WaitingUnanswered`, `WorkKnown`, `WorkApart`, `PipeUnanswered`: what waits for a turn has no
  answer, what was accepted would not be accepted again, nothing waits in two places.
- `OnRecord` holds always: every update the process has come to has a row if it has to have one
  (`RecordedSoFar`), whatever is under way has one (`UnderWayIsRecorded`), and what a command
  made void waits for that command alone (`VoidWaits`). So a row that is new is the last.
- `Line` holds of a process that takes updates (`Taking`): a message that is `Owed` an answer is
  in `_enqueued_claims` or being put (`OwedIsEnqueued`) and in one of the places between the queue
  and the turn (`OwedIsKept`); nothing that is past it is ahead of it in the queue, in what is
  held, in a handler's hands, in the batch or behind the turn (`AheadIsFirst`); what waits behind
  a turn or a command has one to wait for (`QueuedWaits`); messages pass the dispatcher only
  behind the opened gate (`TextBehindGate`), which is what keeps it from overtaking the release.
- A channel that failed or stops is exempt from `Line`, as it is from the property: a message
  whose handler failed is owed an answer and nowhere but in the spool. Only a start makes a
  process take updates again (`TakingStays`), and it builds the line anew from the spool.

The models had to change in some places to be reasoned about, none of which changes a
behaviour: the least free process slot and the first session of `BridgeLifecycle` are said with
quantifiers in place of a minimum and a maximum of a set, the call of a reply in
`DeliveryRefinement` is decided by conditions in place of nested sets, what is left of a
sequence in `InboundClaims` (`Without`) is said by rank in place of a fold, the order of the
replayed rows in `TelegramIntake` (`Ascending`) is a condition in place of a sort. The
assumptions name what was tacit: finitely many turns in `ModelClient`; in `ShellSession` a free
lock that is no actor, and jobs within the directories and kinds of children; in
`PersistenceAudit` that a call names files and makes operations the tools know, and again a
free lock that is no conversation; in `FileTools` that a patch is a sequence of operations
it knows, and that only a move has a second path.

Every safety and action property of the runs that pass is proved. Only model-checked are the
liveness properties (`EventuallySettled`, `EventuallyCompleted`, `JobsProceed`,
`EveryClaimEnds`, `EveryUpdateSettles`, `ServiceReturns`, `LearningEnds`, `CallEnds`,
`CallsEnd`): liveness under fairness is out of the prover's reach. Where waiting in a circle is
what could prevent progress, in `FileTools`, its absence is a safety property (`NoCircle`) and
proved.

## 16. Not modelled

- Approvals: the registry keeps `approval_request` "for embedded callers"; no tool of the
  resident service asks for one.
- Web, vision, image, media and transcription: input checks and I/O without protocol state.
- Configuration, texts, logs, deployment, update, doctor: parsing, formatting, and sequences of
  external commands.
- Text work inside the modelled parts: parsing of the model's stream, compaction, schedules,
  fuzzy matching of patches, the classification of shell commands, search.
- The order of the job table under full capacity, history search and the pruning of sessions,
  key files of the WhatsApp session, typing indicators and polls.
