--------------------------- MODULE DeliveryLedger ---------------------------
(***************************************************************************)
(* The durable final-response ledger (delivery.py) and everybody who works *)
(* on it in one runtime process: the handlers that call deliver_final, the *)
(* startup redelivery task and the resident live sweep.                    *)
(*                                                                         *)
(* An obligation is one final reply; its plan is NUnits units (text chunks *)
(* and files) sent in order.  Every DeliveryStore method is one SQLite     *)
(* transaction and therefore one step here; every await between two of     *)
(* them is a place where the other senders, time and a crash interleave.   *)
(*                                                                         *)
(* Clock readings are abstracted to the three comparisons the code makes:  *)
(* age (updated_at against 60 s and 7 d), stale (created_at against 24 h)  *)
(* and deferred (next_attempt_at against now).                             *)
(***************************************************************************)
EXTENDS Naturals, FiniteSets

CONSTANTS
  Obligations,   \* obligation ids
  Obsolete,      \* obligations whose content is a notice of an earlier release
  NUnits,        \* units of every plan
  Finals,        \* coroutines running deliver_final
  Startup,       \* the startup redelivery task
  Live,          \* the resident sweep _recover_live_final_responses
  MaxAttempts,   \* MAX_ATTEMPTS
  MaxRetries,    \* inline retries of send_with_retry
  MaxRows,       \* MAX_ROWS
  BatchSize,     \* MAX_RECOVERY_BATCH
  Budget,        \* bound: restarts, shutdowns and failing calls of a run
  ClaimFaults,   \* bound: whether a sweep's claim transaction may fail
  Retention      \* bound: whether the 7 days of RETENTION_SECONDS may pass

Sweeps  == {Startup, Live}
Senders == Finals \union Sweeps
Units   == 1..NUnits

ASSUME ConstantsAssumption ==
  /\ Obligations # {}
  /\ Obsolete \subseteq Obligations
  /\ NUnits \in Nat \ {0}
  /\ Startup # Live
  /\ Startup \notin Finals
  /\ Live \notin Finals
  /\ MaxAttempts \in Nat \ {0}
  /\ MaxRetries \in Nat
  /\ MaxRows \in Nat \ {0}
  /\ BatchSize \in Nat \ {0}
  /\ Budget \in Nat
  /\ ClaimFaults \in BOOLEAN
  /\ Retention \in BOOLEAN

VARIABLES
  row,        \* delivery_obligations
  unit,       \* delivery_units: the state of each unit
  active,     \* _active_recovery_claims of the live process
  phase,      \* "up", or "closing" once a stop was requested
  upgraded,   \* the running release recognises the notices of Obsolete
  pc,         \* where each sender stands
  job,        \* the obligation a sender works on
  pos,        \* the unit its channel.send has reached
  round,      \* inline retries it has made
  activated,  \* DeliveryUnitLedger._activated
  outcome,    \* what the platform answered to its last call
  batch,      \* obligations a sweep has claimed and not yet processed
  accepted,   \* ghost: how often the chat received a unit (2 = twice or more)
  forgotten,  \* ghost: _prune has deleted a row of this obligation
  closed,     \* the inbound claim behind the obligation has been settled
  spent       \* how much of Budget is used

storeVars  == <<row, unit>>
senderVars == <<pc, job, pos, round, activated, outcome, batch>>
ghostVars  == <<accepted, forgotten>>
vars == <<row, unit, active, phase, upgraded, pc, job, pos, round, activated,
          outcome, batch, accepted, forgotten, closed, spent>>

-----------------------------------------------------------------------------
(* The two tables.  A failed unit is "safe" when its retry_safe is 1 and   *)
(* "unsafe" otherwise; owner_token is reduced to "is it this process's".   *)

RowStates  == {"none", "pending", "attempting", "failed", "delivered", "abandoned"}
UnitStates == {"none", "pending", "attempting", "delivered", "safe", "unsafe"}
Open       == {"pending", "attempting"}
Unresolved == {"pending", "attempting", "failed"}
Terminal   == {"delivered", "abandoned"}

Row == [state: RowStates, mine: BOOLEAN, attempts: 0..MaxAttempts,
        safe: BOOLEAN, deferred: BOOLEAN,
        age: {"fresh", "idle", "expired"}, stale: BOOLEAN]

Absent == [state |-> "none", mine |-> FALSE, attempts |-> 0, safe |-> FALSE,
           deferred |-> FALSE, age |-> "fresh", stale |-> FALSE]
NewRow == [state |-> "pending", mine |-> TRUE, attempts |-> 0, safe |-> FALSE,
           deferred |-> FALSE, age |-> "fresh", stale |-> FALSE]

\* a row with new state, retry_safe and next_attempt_at; every such write
\* also refreshes updated_at
Stamped(r, st, safe, deferred) ==
  [state |-> st, mine |-> r.mine, attempts |-> r.attempts, safe |-> safe,
   deferred |-> deferred, age |-> "fresh", stale |-> r.stale]

\* the row as _update leaves it
Written(r, st, safe) == Stamped(r, st, safe, FALSE)

NoPlan     == [u \in Units |-> "none"]
Planned(o) == \E u \in Units : unit[o][u] # "none"
OwnOpen(o) == row[o].mine /\ row[o].state \in Open

\* is_legacy_technical_reply: an earlier release has sent such notices itself
Recognised(o) == upgraded /\ o \in Obsolete

\* the units prove that no send of this plan is live or unknown
SafeUnits(o) == \A u \in Units : unit[o][u] \in {"pending", "delivered", "safe"}

\* the rows that count against MAX_ROWS
OpenWork(r) == r.state \in Unresolved

\* Mutation: any settled row makes room, an abandoned one too.
EvictableSettled(r) == r.state \in Terminal

\* the rows a full ledger may delete: abandoned ones stay, as evidence against
\* sending again
Evictable(r) == r.state = "delivered"

\* _prune as the end of a transaction that has turned the rows into rows:
\* stale sends are abandoned, old terminal rows and - past MAX_ROWS - some
\* delivered rows are deleted with their units, too much open work aborts.
Prune(rows) ==
  LET overdue  == {o \in Obligations : rows[o].state \in {"attempting", "failed"}
                                       /\ rows[o].stale}
      lapsed   == {o \in Obligations : rows[o].state \in Terminal
                                       /\ rows[o].age = "expired"}
      kept     == {o \in Obligations \ lapsed : rows[o].state # "none"}
      proved   == {o \in kept : Evictable(rows[o])}
      excess   == IF Cardinality(kept) > MaxRows
                  THEN Cardinality(kept) - MaxRows ELSE 0
  IN  /\ Cardinality({o \in kept \ overdue : OpenWork(rows[o])}) <= MaxRows
      /\ \E extra \in SUBSET proved :
           /\ Cardinality(extra) <= excess
           /\ Cardinality(extra) = excess \/ extra = proved
           /\ LET gone == lapsed \union extra IN
              /\ row' = [o \in Obligations |->
                           IF o \in gone THEN Absent
                           ELSE IF o \in overdue THEN Written(rows[o], "abandoned", FALSE)
                           ELSE rows[o]]
              /\ unit' = [o \in Obligations |-> IF o \in gone THEN NoPlan ELSE unit[o]]
              /\ forgotten' = [o \in Obligations |-> forgotten[o] \/ o \in gone]

-----------------------------------------------------------------------------
(* Senders.  Leaving an obligation: a handler then asks whether its inbound *)
(* claim may be settled, a sweep releases its recovery claim.               *)

After(s) == IF s \in Finals THEN "check" ELSE "release"

Goto(s, label) ==
  /\ pc' = [pc EXCEPT ![s] = label]
  /\ UNCHANGED <<job, pos, round, activated, outcome, batch>>

\* the same, with the variables of the send cleared
Clear(s, label) ==
  /\ pc' = [pc EXCEPT ![s] = label]
  /\ pos' = [pos EXCEPT ![s] = 1]
  /\ round' = [round EXCEPT ![s] = 0]
  /\ activated' = [activated EXCEPT ![s] = FALSE]
  /\ outcome' = [outcome EXCEPT ![s] = "none"]
  /\ UNCHANGED <<job, batch>>

Leave(s) == Clear(s, After(s))

\* the unit is in the chat: on to the next one, or to the end of the plan
Advance(s) ==
  /\ IF pos[s] < NUnits
     THEN pos' = [pos EXCEPT ![s] = @ + 1] /\ pc' = [pc EXCEPT ![s] = "look"]
     ELSE pos' = pos /\ pc' = [pc EXCEPT ![s] = "finish"]
  /\ outcome' = [outcome EXCEPT ![s] = "none"]
  /\ UNCHANGED <<job, round, activated, batch>>

\* a handler has a final answer for an obligation nobody has settled yet
Submit(f, o) ==
  /\ pc[f] = "idle"
  /\ pc[Startup] # "claimOthers"      \* intake is held until startup has claimed
  /\ ~closed[o]
  /\ pc' = [pc EXCEPT ![f] = "record"]
  /\ job' = [job EXCEPT ![f] = o]
  /\ UNCHANGED <<storeVars, active, phase, upgraded, pos, round, activated, outcome, batch,
                 ghostVars, closed, spent>>

\* DeliveryStore.record, and what deliver_final makes of the state it returns
RecordRow(f) ==
  LET o == job[f]
      rows == IF row[o].state = "none" THEN [row EXCEPT ![o] = NewRow] ELSE row
  IN  /\ pc[f] = "record"
      /\ Prune(rows)
      /\ Goto(f, IF Recognised(o) THEN "retire"
                 ELSE IF rows[o].state = "pending" THEN "plan" ELSE "check")
      /\ UNCHANGED <<active, phase, upgraded, accepted, closed, spent>>

\* the ledger has no room for another open obligation: record is rolled back
RecordRefused(f) ==
  /\ pc[f] = "record"
  /\ row[job[f]].state = "none"
  /\ Cardinality({o \in Obligations : OpenWork(row[o])
                    /\ ~(row[o].stale /\ row[o].state # "pending")}) >= MaxRows
  /\ Goto(f, "check")
  /\ UNCHANGED <<storeVars, active, phase, upgraded, ghostVars, closed, spent>>

\* no unit of the plan is missing in the chat
AllSent(o) == Planned(o) /\ \A u \in Units : unit[o][u] = "delivered"

\* retire_legacy_notice
Retire(s) ==
  LET o == job[s]
  IN  /\ pc[s] = "retire"
      /\ row' = IF /\ OwnOpen(o)
                   /\ IF Planned(o) THEN SafeUnits(o) ELSE row[o].state = "pending"
                THEN [row EXCEPT ![o] =
                        Written(@, IF AllSent(o) THEN "delivered" ELSE "abandoned", FALSE)]
                ELSE row
      /\ Leave(s)
      /\ UNCHANGED <<unit, active, phase, upgraded, ghostVars, closed, spent>>

\* DeliveryUnitLedger.prepare / record_units: the exact plan becomes durable
Plan(s) ==
  LET o == job[s]
  IN  /\ pc[s] = "plan"
      /\ IF OwnOpen(o)
         THEN /\ unit' = IF Planned(o) THEN unit
                         ELSE [unit EXCEPT ![o] = [u \in Units |-> "pending"]]
              /\ Goto(s, "look")
         ELSE /\ unit' = unit
              /\ Clear(s, IF s \in Finals THEN "discard" ELSE "release")
      /\ UNCHANGED <<row, active, phase, upgraded, ghostVars, closed, spent>>

\* channel.send gives up before it prepares a plan (no transport, no file)
PlanSkipped(s) ==
  /\ pc[s] = "plan"
  /\ spent < Budget
  /\ spent' = spent + 1
  /\ IF round[s] = 0 THEN Goto(s, "quarantine") ELSE Leave(s)
  /\ UNCHANGED <<storeVars, active, phase, upgraded, ghostVars, closed>>

\* a reservation no plan and no send depends on
Discardable(o) == row[o].mine /\ row[o].state = "pending" /\ ~Planned(o)

\* discard_unplanned after a failed preparation
Discard(f) ==
  LET o == job[f]
  IN  /\ pc[f] = "discard"
      /\ row' = IF Discardable(o)
                THEN [row EXCEPT ![o] = Absent] ELSE row
      /\ Goto(f, "check")
      /\ UNCHANGED <<unit, active, phase, upgraded, ghostVars, closed, spent>>

\* quarantine_unplanned: the callback may have sent without a plan
Quarantine(s) ==
  LET o == job[s]
  IN  /\ pc[s] = "quarantine"
      /\ row' = IF OwnOpen(o) THEN [row EXCEPT ![o] = Written(@, "failed", FALSE)]
                ELSE row
      /\ Leave(s)
      /\ UNCHANGED <<unit, active, phase, upgraded, ghostVars, closed, spent>>

-----------------------------------------------------------------------------
(* DeliveryUnitLedger.run, one unit                                        *)

\* Mutation: a unit another sender has claimed is taken for a sent one.
DoneOrClaimed(o, u) == unit[o][u] \in {"delivered", "attempting"}

Done(o, u) == unit[o][u] = "delivered"

\* unit_state: a delivered unit is skipped, a missing one ends the send
Look(s) ==
  LET o == job[s]
  IN  /\ pc[s] = "look"
      /\ CASE Done(o, pos[s])           -> Advance(s)
           [] unit[o][pos[s]] = "none" -> Leave(s)
           [] OTHER -> Goto(s, IF activated[s] THEN "claim" ELSE "activate")
      /\ UNCHANGED <<storeVars, active, phase, upgraded, ghostVars, closed, spent>>

\* activate_unit_plan
Activate(s) ==
  LET o == job[s]
      granted == OwnOpen(o) /\ Planned(o)
  IN  /\ pc[s] = "activate"
      /\ row' = IF granted /\ row[o].state = "pending"
                THEN [row EXCEPT ![o] = Written(@, "attempting", FALSE)] ELSE row
      /\ IF granted
         THEN /\ pc' = [pc EXCEPT ![s] = "claim"]
              /\ activated' = [activated EXCEPT ![s] = TRUE]
              /\ UNCHANGED <<job, pos, round, outcome, batch>>
         ELSE Leave(s)
      /\ UNCHANGED <<unit, active, phase, upgraded, ghostVars, closed, spent>>

\* Mutation: the fence also admits a unit whose last outcome is unknown.
SendableUnknown(o, u) == unit[o][u] \in {"pending", "safe", "unsafe"}

\* Mutation: the fence also admits a unit that is under way.
SendableTwice(o, u) == unit[o][u] \in {"pending", "safe", "attempting"}

\* the units mark_unit_attempting may claim
Sendable(o, u) == unit[o][u] \in {"pending", "safe"}

\* mark_unit_attempting: the fence in front of the network
ClaimUnit(s) ==
  LET o == job[s]
      granted == /\ Sendable(o, pos[s])
                 /\ row[o].mine /\ row[o].state = "attempting"
  IN  /\ pc[s] = "claim"
      /\ unit' = IF granted THEN [unit EXCEPT ![o][pos[s]] = "attempting"] ELSE unit
      /\ IF granted THEN Goto(s, "send") ELSE Leave(s)
      /\ UNCHANGED <<row, active, phase, upgraded, ghostVars, closed, spent>>

\* Whether the chat has received the unit.  "lost" covers every unclassified
\* failure: a rejection, a timeout or an exception that may have followed
\* acceptance.  "unsent" and "throttled" (with a retry_after) are the failures
\* a channel classifies as proven unsent.  A rejected formatting is repeated
\* as plain text within the same unit.
Arrives(out) ==
  {arrives \in BOOLEAN : (out = "ok" => arrives) /\ (arrives => out \in {"ok", "lost"})}

\* the platform call
Send(s) ==
  LET o == job[s]
      u == pos[s]
  IN  /\ pc[s] = "send"
      /\ \E out \in {"ok", "lost", "unsent", "throttled"} :
           /\ outcome' = [outcome EXCEPT ![s] = out]
           /\ \E arrives \in Arrives(out) :
                accepted' = IF arrives /\ accepted[o][u] < 2
                            THEN [accepted EXCEPT ![o][u] = @ + 1] ELSE accepted
      /\ pc' = [pc EXCEPT ![s] = "settle"]
      /\ UNCHANGED <<storeVars, active, phase, upgraded, job, pos, round, activated, batch,
                     forgotten, closed, spent>>

\* mark_unit_delivered and mark_unit_failed act only on a unit in flight
\* under an attempting obligation of this process
Settleable(s) ==
  /\ unit[job[s]][pos[s]] = "attempting"
  /\ row[job[s]].mine /\ row[job[s]].state = "attempting"

SettleDelivered(s) ==
  /\ pc[s] = "settle"
  /\ outcome[s] = "ok"
  /\ Settleable(s)
  /\ unit' = [unit EXCEPT ![job[s]][pos[s]] = "delivered"]
  /\ Advance(s)
  /\ UNCHANGED <<row, active, phase, upgraded, ghostVars, closed, spent>>

\* Mutation: every failure counts as proof that nothing was accepted.
AnyFailure(out) == out # "ok"

\* what the channels report as retryable: the platform call proved that the
\* unit was not accepted
ProvenUnsent(out) == out \in {"unsent", "throttled"}

\* send_with_retry: whether channel.send is run again for a handler.  A safe
\* failure is retried up to the limit, unless the server asks for a long wait.
Again(s) ==
  LET may == ProvenUnsent(outcome[s]) /\ s \in Finals /\ round[s] < MaxRetries
  IN  {again \in BOOLEAN : (again => may) /\ (may /\ outcome[s] = "unsent" => again)}

\* a failed unit
SettleFailed(s) ==
  LET o == job[s]
      safe == ProvenUnsent(outcome[s])
  IN  /\ pc[s] = "settle"
      /\ outcome[s] # "ok"
      /\ Settleable(s)
      /\ unit' = [unit EXCEPT ![o][pos[s]] = IF safe THEN "safe" ELSE "unsafe"]
      /\ row' = IF outcome[s] = "throttled"
                THEN [row EXCEPT ![o].deferred = TRUE] ELSE row
      /\ \E again \in Again(s) :
           /\ pc' = [pc EXCEPT ![s] = IF again THEN "plan" ELSE "fail"]
           /\ pos' = [pos EXCEPT ![s] = 1]
           /\ round' = IF again THEN [round EXCEPT ![s] = @ + 1] ELSE round
           /\ outcome' = [outcome EXCEPT ![s] = "none"]
      /\ UNCHANGED <<active, phase, upgraded, job, activated, batch, ghostVars, closed, spent>>

\* the ledger no longer lets this sender settle: the outcome stays unknown
SettleRefused(s) ==
  /\ pc[s] = "settle"
  /\ ~Settleable(s)
  /\ Leave(s)
  /\ UNCHANGED <<storeVars, active, phase, upgraded, ghostVars, closed, spent>>

-----------------------------------------------------------------------------
(* Settling the obligation                                                 *)

\* mark_delivered: every unit of the plan must be delivered
Finish(s) ==
  LET o == job[s]
  IN  /\ pc[s] = "finish"
      /\ row' = IF /\ row[o].mine /\ row[o].state = "attempting"
                   /\ Planned(o) => \A u \in Units : unit[o][u] = "delivered"
                THEN [row EXCEPT ![o] = Written(@, "delivered", FALSE)] ELSE row
      /\ Leave(s)
      /\ UNCHANGED <<unit, active, phase, upgraded, ghostVars, closed, spent>>

\* mark_planned_failed: only when the units prove that no send is live.  It
\* keeps next_attempt_at, and is safe unless some unit failed unsafely.
Fail(s) ==
  LET o == job[s]
  IN  /\ pc[s] = "fail"
      /\ row' = IF /\ row[o].mine /\ row[o].state = "attempting"
                   /\ \E u \in Units : unit[o][u] \in {"safe", "unsafe"}
                   /\ \A u \in Units : unit[o][u] # "attempting"
                THEN [row EXCEPT ![o] =
                        Stamped(@, "failed", \A u \in Units : unit[o][u] # "unsafe",
                                @.deferred)]
                ELSE row
      /\ Leave(s)
      /\ UNCHANGED <<unit, active, phase, upgraded, ghostVars, closed, spent>>

\* exact_obligation_exists
ExactObligation(o) == row[o].state # "none" /\ (row[o].state = "pending" => Planned(o))

\* exact_obligation_exists, then persist_completed_claims: the handler lets
\* go of its inbound claim once the ledger answers for the reply
Check(f) ==
  LET o == job[f]
  IN  /\ pc[f] = "check"
      /\ closed' = IF ExactObligation(o) THEN [closed EXCEPT ![o] = TRUE] ELSE closed
      /\ Goto(f, "idle")
      /\ UNCHANGED <<storeVars, active, phase, upgraded, ghostVars, spent>>

-----------------------------------------------------------------------------
(* The sweeps                                                              *)

\* what both claim loops do not pass over: due work whose acceptance is disproved
Claimable(o) ==
  /\ row[o].state \in Unresolved
  /\ ~row[o].deferred
  /\ row[o].state = "attempting" => Planned(o) /\ SafeUnits(o)
  /\ row[o].state = "failed" => row[o].safe

Foreign(o)   == ~row[o].mine /\ Claimable(o)
\* Mutation: the live sweep looks at failed rows only.
OwnFailed(o) == /\ row[o].mine /\ Claimable(o) /\ o \notin active
                /\ row[o].age # "fresh" /\ row[o].state = "failed"

OwnIdle(o)   == /\ row[o].mine /\ Claimable(o)
                /\ o \notin active
                /\ row[o].age # "fresh"

Counted(o)   == row[o].state = "failed"
                \/ \E u \in Units : unit[o][u] \in {"safe", "unsafe"}
Exhausted(o) == /\ row[o].state # "pending"
                /\ (Counted(o) /\ row[o].attempts >= MaxAttempts) \/ row[o].stale

ClaimedState(o) == IF row[o].state = "pending" \/ ~Planned(o)
                   THEN "pending" ELSE "attempting"
ClaimedRow(o) ==
  [state |-> ClaimedState(o), mine |-> TRUE,
   attempts |-> IF Counted(o) THEN row[o].attempts + 1 ELSE row[o].attempts,
   safe |-> FALSE, deferred |-> FALSE, age |-> "fresh", stale |-> row[o].stale]

\* One claim transaction of sweep s over the rows cand: up to BatchSize rows
\* are claimed, exhausted ones met on the way are abandoned.
ClaimRows(s, cand, claims) ==
  LET due  == {o \in cand : ~Exhausted(o)}
      over == cand \ due
  IN  /\ claims \subseteq due
      /\ Cardinality(claims) <= BatchSize
      /\ Cardinality(claims) = BatchSize \/ claims = due
      /\ \E drop \in SUBSET over :
           /\ claims = due /\ Cardinality(claims) < BatchSize => drop = over
           /\ Prune([o \in Obligations |->
                IF o \in claims THEN ClaimedRow(o)
                ELSE IF o \in drop
                     THEN Stamped(row[o], "abandoned", row[o].safe, row[o].deferred)
                     ELSE row[o]])
      /\ batch' = [batch EXCEPT ![s] = @ \union claims]
      /\ active' = active \union {o \in claims : ClaimedState(o) = "pending"}

\* the resident sweep wakes up
Wake ==
  /\ pc[Live] = "idle"
  /\ phase = "up"
  /\ Goto(Live, "claimOwn")
  /\ UNCHANGED <<storeVars, active, phase, upgraded, ghostVars, closed, spent>>

\* claim_live_failed
ClaimOwn ==
  /\ pc[Live] = "claimOwn"
  /\ \E claims \in SUBSET Obligations :
       ClaimRows(Live, {o \in Obligations : OwnIdle(o)}, claims)
  /\ pc' = [pc EXCEPT ![Live] = "claimOthers"]
  /\ UNCHANGED <<phase, upgraded, job, pos, round, activated, outcome, accepted, closed, spent>>

\* claim_recoverable, at startup and as the second half of a live sweep
ClaimOthers(s) ==
  /\ pc[s] = "claimOthers"
  /\ \E claims \in SUBSET Obligations :
       ClaimRows(s, {o \in Obligations : Foreign(o)}, claims)
  /\ pc' = [pc EXCEPT ![s] = "next"]
  /\ UNCHANGED <<phase, upgraded, job, pos, round, activated, outcome, accepted, closed, spent>>

\* claim_live_failed raises: the transaction is rolled back, but the ids it
\* had already added to _active_recovery_claims stay there
ClaimOwnFails ==
  /\ pc[Live] = "claimOwn"
  /\ ClaimFaults /\ spent < Budget
  /\ \E claims \in SUBSET {o \in Obligations : OwnIdle(o) /\ ~Exhausted(o)} :
       active' = active \union {o \in claims : ClaimedState(o) = "pending"}
  /\ spent' = spent + 1
  /\ Goto(Live, "claimOthers")
  /\ UNCHANGED <<storeVars, phase, upgraded, ghostVars, closed>>

\* claim_recoverable raises inside recover_live_deliveries: the rows that
\* claim_live_failed has returned are dropped with the exception.  (At startup
\* the process exits instead: Restart.)
ClaimOthersFails ==
  /\ pc[Live] = "claimOthers"
  /\ ClaimFaults /\ spent < Budget
  /\ \E claims \in SUBSET {o \in Obligations : Foreign(o) /\ ~Exhausted(o)} :
       active' = active \union {o \in claims : ClaimedState(o) = "pending"}
  /\ batch' = [batch EXCEPT ![Live] = {}]
  /\ pc' = [pc EXCEPT ![Live] = "idle"]
  /\ spent' = spent + 1
  /\ UNCHANGED <<storeVars, phase, upgraded, job, pos, round, activated, outcome,
                 ghostVars, closed>>

\* redeliver_claimed_deliveries takes the next claimed row
NextRow(s) ==
  /\ pc[s] = "next"
  /\ \E o \in batch[s] :
       /\ job' = [job EXCEPT ![s] = o]
       /\ batch' = [batch EXCEPT ![s] = @ \ {o}]
       /\ pc' = [pc EXCEPT ![s] = IF Recognised(o) THEN "retire" ELSE "plan"]
  /\ UNCHANGED <<storeVars, active, phase, upgraded, pos, round, activated, outcome,
                 ghostVars, closed, spent>>

NoMoreRows(s) ==
  /\ pc[s] = "next"
  /\ batch[s] = {}
  /\ Goto(s, "idle")
  /\ UNCHANGED <<storeVars, active, phase, upgraded, ghostVars, closed, spent>>

\* Mutation: the claim of a processed row is kept.
ReleaseNothing(s) ==
  /\ pc[s] = "release"
  /\ Goto(s, "next")
  /\ UNCHANGED <<storeVars, active, phase, upgraded, ghostVars, closed, spent>>

\* the finally clause of redeliver_claimed_deliveries
Release(s) ==
  /\ pc[s] = "release"
  /\ active' = active \ {job[s]}
  /\ Goto(s, "next")
  /\ UNCHANGED <<storeVars, phase, upgraded, ghostVars, closed, spent>>

-----------------------------------------------------------------------------
(* The environment                                                         *)

\* a store call of a sender raises; each caller's except clause ends its work
\* on the obligation, a failed preparation of a handler discards first
StoreFault(s) ==
  /\ pc[s] \in {"record", "retire", "plan", "look", "activate", "claim", "settle",
                "finish", "fail", "discard", "quarantine", "check"}
  /\ spent < Budget
  /\ spent' = spent + 1
  /\ Clear(s, CASE pc[s] = "plan" /\ s \in Finals -> "discard"
                [] pc[s] = "check" -> "idle"
                [] OTHER -> After(s))
  /\ UNCHANGED <<storeVars, active, phase, upgraded, ghostVars, closed>>

\* cancelled coroutines forget where they stood
StopSenders(stopped) ==
  /\ pos' = [s \in Senders |-> IF s \in stopped THEN 1 ELSE pos[s]]
  /\ round' = [s \in Senders |-> IF s \in stopped THEN 0 ELSE round[s]]
  /\ activated' = [s \in Senders |-> activated[s] /\ s \notin stopped]
  /\ outcome' = [s \in Senders |-> IF s \in stopped THEN "none" ELSE outcome[s]]
  /\ batch' = [s \in Senders |-> IF s \in stopped THEN {} ELSE batch[s]]
  /\ UNCHANGED job

\* a stop request cancels the startup task and the live sweep, then drains
Shutdown ==
  /\ phase = "up"
  /\ spent < Budget
  /\ phase' = "closing"
  /\ spent' = spent + 1
  /\ pc' = [s \in Senders |-> IF s \in Sweeps THEN "idle" ELSE pc[s]]
  /\ StopSenders(Sweeps)
  /\ UNCHANGED <<storeVars, active, upgraded, ghostVars, closed>>

\* the process ends anywhere - crash or exit - and a new one with a new owner
\* token starts, perhaps of the next release, claiming before it releases its
\* intake
Restart ==
  /\ phase = "closing" \/ spent < Budget
  /\ spent' = IF phase = "closing" THEN spent ELSE spent + 1
  /\ phase' = "up"
  /\ upgraded' \in {upgraded, Obsolete # {}}
  /\ row' = [o \in Obligations |-> [row[o] EXCEPT !.mine = FALSE]]
  /\ active' = {}
  /\ pc' = [s \in Senders |-> IF s = Startup THEN "claimOthers" ELSE "idle"]
  /\ StopSenders(Senders)
  /\ UNCHANGED <<unit, ghostVars, closed>>

\* 60 seconds, later 7 days, pass since updated_at
Age(o) ==
  /\ row[o].state # "none"
  /\ \/ row[o].age = "fresh" /\ row' = [row EXCEPT ![o].age = "idle"]
     \/ /\ Retention
        /\ row[o].age = "idle" /\ row[o].stale /\ row[o].state \in Terminal
        /\ row' = [row EXCEPT ![o].age = "expired"]
  /\ UNCHANGED <<unit, active, phase, upgraded, senderVars, ghostVars, closed, spent>>

\* 24 hours pass since created_at
Expire(o) ==
  /\ row[o].state # "none" /\ ~row[o].stale
  /\ row' = [row EXCEPT ![o].stale = TRUE]
  /\ UNCHANGED <<unit, active, phase, upgraded, senderVars, ghostVars, closed, spent>>

\* next_attempt_at passes
Due(o) ==
  /\ row[o].deferred
  /\ row' = [row EXCEPT ![o].deferred = FALSE]
  /\ UNCHANGED <<unit, active, phase, upgraded, senderVars, ghostVars, closed, spent>>

-----------------------------------------------------------------------------
Init ==
  /\ row = [o \in Obligations |-> Absent]
  /\ unit = [o \in Obligations |-> NoPlan]
  /\ active = {}
  /\ phase = "up"
  /\ upgraded = FALSE
  /\ pc = [s \in Senders |-> "idle"]
  /\ job = [s \in Senders |-> CHOOSE o \in Obligations : TRUE]
  /\ pos = [s \in Senders |-> 1]
  /\ round = [s \in Senders |-> 0]
  /\ activated = [s \in Senders |-> FALSE]
  /\ outcome = [s \in Senders |-> "none"]
  /\ batch = [s \in Senders |-> {}]
  /\ accepted = [o \in Obligations |-> [u \in Units |-> 0]]
  /\ forgotten = [o \in Obligations |-> FALSE]
  /\ closed = [o \in Obligations |-> FALSE]
  /\ spent = 0

\* the steps of a sender inside one obligation
\* one unit of the plan
RunUnit(s) ==
  \/ Look(s) \/ Activate(s) \/ ClaimUnit(s) \/ Send(s)
  \/ SettleDelivered(s) \/ SettleFailed(s) \/ SettleRefused(s)

\* channel.send: the plan, then its units one after the other
ChannelSend(s) == Plan(s) \/ RunUnit(s)

Work(s) == ChannelSend(s) \/ Quarantine(s) \/ Retire(s) \/ Finish(s) \/ Fail(s)

HandlerStep(f) == RecordRow(f) \/ RecordRefused(f) \/ Discard(f) \/ Check(f) \/ Work(f)
SweepStep(s)   == ClaimOthers(s) \/ NextRow(s) \/ NoMoreRows(s) \/ Release(s) \/ Work(s)

Fault == \/ Shutdown \/ Restart \/ ClaimOwnFails \/ ClaimOthersFails
         \/ \E s \in Senders : StoreFault(s) \/ PlanSkipped(s)

Next ==
  \/ \E f \in Finals : HandlerStep(f) \/ \E o \in Obligations : Submit(f, o)
  \/ \E s \in Sweeps : SweepStep(s)
  \/ Wake \/ ClaimOwn
  \/ Fault
  \/ \E o \in Obligations : Age(o) \/ Expire(o) \/ Due(o)

Spec == Init /\ [][Next]_vars

\* asyncio and the worker threads run every started coroutine on; the sweep
\* is an endless loop; clocks advance; a supervisor restarts a stopped service
Fairness ==
  /\ \A f \in Finals : WF_vars(HandlerStep(f))
  /\ \A s \in Sweeps : WF_vars(SweepStep(s))
  /\ WF_vars(Wake) /\ WF_vars(ClaimOwn)
  /\ WF_vars(phase = "closing" /\ Restart)
  /\ \A o \in Obligations : WF_vars(Due(o)) /\ WF_vars(row[o].age = "fresh" /\ Age(o))

FairSpec == Spec /\ Fairness

-----------------------------------------------------------------------------
(* What the ledger promises                                                *)

Labels == {"idle", "record", "retire", "plan", "discard", "quarantine", "look",
           "activate", "claim", "send", "settle", "finish", "fail", "check",
           "claimOwn", "claimOthers", "next", "release"}

StoreTypes ==
  /\ row \in [Obligations -> Row]
  /\ unit \in [Obligations -> [Units -> UnitStates]]

SenderTypes ==
  /\ pc \in [Senders -> Labels]
  /\ job \in [Senders -> Obligations]
  /\ pos \in [Senders -> Units]
  /\ round \in [Senders -> 0..MaxRetries]
  /\ activated \in [Senders -> BOOLEAN]
  /\ outcome \in [Senders -> {"none", "ok", "lost", "unsent", "throttled"}]
  /\ batch \in [Senders -> SUBSET Obligations]

\* Every variable has its type; in particular the attempts of an obligation
\* never exceed MAX_ATTEMPTS however often sweeps and restarts claim it.
TypeOK ==
  /\ StoreTypes
  /\ SenderTypes
  /\ active \subseteq Obligations
  /\ phase \in {"up", "closing"}
  /\ upgraded \in BOOLEAN
  /\ accepted \in [Obligations -> [Units -> 0..2]]
  /\ forgotten \in [Obligations -> BOOLEAN]
  /\ closed \in [Obligations -> BOOLEAN]
  /\ spent \in 0..Budget

InFlight(s, o, u) == pc[s] \in {"send", "settle"} /\ job[s] = o /\ pos[s] = u

\* No unit reaches the chat twice, whoever sends it: handlers, the startup
\* task and the live sweep, across lost answers, retries and restarts.  Only
\* retention (_prune deleting the row) may break the promise.
NoDuplicate ==
  \A o \in Obligations : forgotten[o] \/ \A u \in Units : accepted[o][u] <= 1

\* An obligation is reported delivered only when the chat has every unit.
DeliveredInFull ==
  \A o \in Obligations : row[o].state = "delivered" =>
    forgotten[o] \/ \A u \in Units : accepted[o][u] >= 1

\* The chat receives the units of a reply in the order of its plan, also when
\* several senders work on the same plan.
InOrder ==
  \A o \in Obligations : \A u, v \in Units :
    u < v /\ accepted[o][v] >= 1 => forgotten[o] \/ accepted[o][u] >= 1

\* Two senders are never in the platform call of one unit at once, and a unit
\* under way is fenced: it says attempting, so that nobody claims it again.
OneCourier ==
  \A s \in Senders : pc[s] \in {"send", "settle"} => LET o == job[s] IN
    \/ forgotten[o]
    \/ /\ unit[o][pos[s]] = "attempting"
       /\ \A t \in Senders \ {s} : ~InFlight(t, o, pos[s])

\* A reply whose inbound claim has been settled is not lost: its row, with a
\* plan or past it, stays until retention deletes it.
NoLostReply ==
  \A o \in Obligations : closed[o] =>
    \/ forgotten[o]
    \/ /\ row[o].state # "none"
       /\ row[o].state = "pending" => Planned(o)

\* Discarding an unplanned reservation never discards a reply of which
\* something was sent: no row means that nothing was sent or is under way.
DiscardIsUnsent ==
  \A o \in Obligations : row[o].state = "none" /\ ~forgotten[o] =>
    \A u \in Units : accepted[o][u] = 0 /\ \A s \in Senders : ~InFlight(s, o, u)

\* A settled obligation stays settled: a delivered or abandoned row never
\* changes again before retention deletes it, a failure with unknown
\* acceptance is never claimed, only abandoned.
SettledForGood ==
  [][\A o \in Obligations :
       /\ row[o].state \in Terminal => row'[o].state \in {row[o].state, "none"}
       /\ row[o].state = "failed" /\ ~row[o].safe =>
            row'[o].state \in {"failed", "abandoned"} /\ ~row'[o].safe]_vars

\* The open work of the ledger stays below MAX_ROWS, whatever is recorded,
\* claimed, retried or taken over after a restart.
OpenBounded == Cardinality({o \in Obligations : row[o].state \in Unresolved}) <= MaxRows

\* Making room never erases the record of a reply whose acceptance may be
\* unknown: only delivered rows, and settled ones after the retention, go.
EvidenceKept ==
  [][\A o \in Obligations : forgotten'[o] /\ ~forgotten[o] =>
       \/ row[o].state = "delivered"
       \/ row[o].state = "abandoned" /\ row[o].age = "expired"]_vars

\* A pending recovery claim keeps every other sweep away from the row, so it
\* must belong to a sweep that still has the row before it.
Stranded(o) ==
  /\ o \in active
  /\ \A s \in Sweeps :
       o \notin batch[s] /\ (job[s] = o => pc[s] \in {"idle", "claimOwn", "claimOthers", "next"})

ClaimsHeld == phase = "up" => \A o \in Obligations : ~Stranded(o)

\* Whatever fails or is cancelled in between, a sweep gives back the claim of
\* every row it has taken: a running service loses a claim only to a claim
\* transaction that fails itself, never to a store error or to a send that
\* gives up.
ClaimsKept ==
  [][\A o \in Obligations :
       phase' = "up" /\ Stranded(o)' =>
         Stranded(o) \/ ClaimOwnFails \/ ClaimOthersFails]_vars

\* Acceptance of the reply is open for good: a unit's outcome is unknown or
\* the parent failed unsafely.
Unknown(o) ==
  \/ row[o].state = "failed" /\ ~row[o].safe
  \/ /\ row[o].state = "attempting"
     /\ \E u \in Units :
          \/ unit[o][u] = "unsafe"
          \/ unit[o][u] = "attempting" /\ \A s \in Senders : ~InFlight(s, o, u)

\* Work that is proven unsent does not wait for ever: every recorded reply is
\* at last delivered, abandoned, discarded or known to have an unknown outcome,
\* unless the claim transaction of a sweep has failed (ClaimsKept).
EventuallySettled ==
  \A o \in Obligations :
    row[o].state # "none" ~>
      row[o].state \in Terminal \union {"none"} \/ Unknown(o) \/ Stranded(o)

-----------------------------------------------------------------------------
(* The same, grouped as the runs check them                                *)

\* Every variable has its type, the chat has every unit of a delivered reply,
\* and no unit twice.
UnitsExact == TypeOK /\ NoDuplicate /\ DeliveredInFull

\* Sending and discarding are fenced against each other and against
\* themselves.
Fenced == OneCourier /\ DiscardIsUnsent

\* The chat never sees a gap in a reply, and no settled claim loses one.
NothingMissing == InOrder /\ NoLostReply

\* The ledger keeps within its room; what was settled stays settled and is
\* not forgotten for want of it.
RecordKept == []OpenBounded /\ SettledForGood /\ EvidenceKept
=============================================================================
