------------------------------ MODULE CronJobs ------------------------------
(***************************************************************************)
(* Scheduled jobs: the durable job table of CronStore (jobs.json under its *)
(* lock), the scheduler that claims due jobs and runs each in a worker     *)
(* task, the heartbeats, and the user's commands beside them.              *)
(*                                                                         *)
(* Every CronStore method holds the store lock from its load to its atomic *)
(* save, hence is one step.  A run of claim_due_jobs over several jobs is  *)
(* a sequence of steps, one per job.  Clock readings are the comparisons   *)
(* the code makes with them: a slot is in the future, due, or (one-shots)  *)
(* beyond its grace; a claim is stale when its last renewal is older than  *)
(* the claim's time to live.                                               *)
(***************************************************************************)
EXTENDS Naturals, FiniteSets

CONSTANTS
  Jobs,           \* jobs of the table
  Owners,         \* claim identities; one is used again when nothing names it
  NoOwner,        \* no claim
  MaxConcurrent,  \* cron_max_concurrent
  MaxTimes,       \* bound: largest repeat count
  Budget,         \* bound: crashes, shutdowns and failing calls of a run
  MaxEdits        \* bound: user commands of a run

ASSUME CronAssumption ==
  /\ NoOwner \notin Owners
  /\ MaxConcurrent \in Nat /\ MaxTimes \in Nat \ {0}
  /\ Budget \in Nat /\ MaxEdits \in Nat

VARIABLES
  \* the job table
  state, enabled, held,  \* state, enabled, paused_at
  kind,                  \* schedule.kind
  times, completed,      \* repeat; times 0 is None
  next,                  \* next_run_at against the clock
  passed,                \* jobs whose run_at is beyond its grace
  missed,                \* missed_at
  claim, stale,          \* claim.by, claim.at against the time to live
  last,                  \* last_status
  \* the scheduler
  proc,                  \* "up", "stopping" or "down"
  pc, work,              \* where the worker of a claim stands, and its job
  ok,                    \* success of the workers
  \* ghosts and bounds
  starts,                \* runs begun under a repeat count since it was last reset
  told,                  \* jobs whose last claimed run saved and delivered its answer
  silenced,              \* jobs the user has paused and not resumed
  edits, spent

planVars   == <<kind, times, passed>>
stateVars  == <<state, enabled, held, completed, next, missed, last>>
claimVars  == <<claim, stale>>
workVars   == <<pc, work, ok>>
ghostVars  == <<starts, told, silenced>>
vars == <<planVars, stateVars, claimVars, proc, workVars, ghostVars, edits, spent>>

-----------------------------------------------------------------------------
(* Workers                                                                 *)

Running == {"agent", "check", "save", "verify", "deliver", "broken", "report", "notify"}
Places  == Running \union {"free", "claimed", "start", "finish"}

\* the worker is in _ACTIVE_CLAIM_OWNERS
Live(o) == pc[o] \in Running \union {"start", "finish"}

\* the durable claim is the worker's
Holds(o) == claim[work[o]] = o

Move(o, place) == pc' = [pc EXCEPT ![o] = place]

Spend == spent < Budget /\ spent' = spent + 1

Exists(j) == state[j] \notin {"new", "removed"}

Unused(o) == pc[o] = "free" /\ \A j \in Jobs : claim[j] # o

\* cron_max_concurrent less the tasks under way
Capacity == Cardinality({o \in Owners : pc[o] # "free"}) < MaxConcurrent

-----------------------------------------------------------------------------
(* claim_due_jobs, for one job                                             *)

Sweeping == proc = "up" /\ Capacity

Runnable(j) == j \in enabled /\ state[j] = "scheduled"
Exhausted(j) == times[j] # 0 /\ completed[j] >= times[j]

Count(j) == completed' = [completed EXCEPT ![j] = IF @ < MaxTimes THEN @ + 1 ELSE @]

\* the job can never run again
End(j, how) ==
  /\ state' = [state EXCEPT ![j] = how]
  /\ enabled' = enabled \ {j}
  /\ next' = [next EXCEPT ![j] = "none"]

\* Mutation: a stale claim is retired whoever holds it.
ExpiredByAge(j) == claim[j] # NoOwner /\ j \in stale

\* a stale claim whose exact worker is gone
Abandoned(j) ==
  /\ claim[j] # NoOwner /\ j \in stale
  /\ ~Live(claim[j])

\* Mutation: an abandoned run does not count.
CountNothing(j) == UNCHANGED completed

\* an abandoned run of a job with a repeat count uses one of its repeats
CountAbandoned(j) == IF times[j] # 0 THEN Count(j) ELSE UNCHANGED completed

\* whether the side effects of the lost run happened is unknown: it is never
\* retried, a recurring job goes on with its next slot
Retire(j) ==
  /\ Sweeping
  /\ \A o \in Owners : pc[o] # "claimed"
  /\ Abandoned(j)
  /\ last' = [last EXCEPT ![j] = "unknown"]
  /\ claim' = [claim EXCEPT ![j] = NoOwner]
  /\ stale' = stale \ {j}
  /\ IF kind[j] = "once"
     THEN End(j, "error") /\ UNCHANGED completed
     ELSE /\ CountAbandoned(j)
          /\ IF times[j] # 0 /\ completed'[j] >= times[j]
             THEN End(j, "completed")
             ELSE /\ state' = [state EXCEPT ![j] = "scheduled"]
                  /\ next' = [next EXCEPT ![j] = "future"]
                  /\ UNCHANGED enabled
  /\ UNCHANGED <<planVars, held, missed, proc, workVars, ghostVars, edits, spent>>

\* Mutation: a job whose last run has an unknown outcome waits for the user.
UnknownWaits(j) == Runnable(j) /\ j \notin held /\ ~Exhausted(j) /\ last[j] # "unknown"

\* the slot may be claimed, if it is due
Claimable(j) == Runnable(j) /\ j \notin held /\ ~Exhausted(j)

\* a job with a pause mark or without repeats left is not run
Settle(j) ==
  /\ Sweeping
  /\ Runnable(j)
  /\ \/ /\ j \in held
        /\ enabled' = enabled \ {j}
        /\ state' = [state EXCEPT ![j] = "paused"]
        /\ UNCHANGED next
     \/ /\ j \notin held /\ Exhausted(j)
        /\ End(j, "completed")
  /\ UNCHANGED <<planVars, held, completed, missed, last, claimVars, proc, workVars,
                 ghostVars, edits, spent>>

\* a one-shot beyond its grace is not run
Miss(j) ==
  /\ Sweeping
  /\ Claimable(j)
  /\ kind[j] = "once" /\ next[j] = "late"
  /\ End(j, "error")
  /\ last' = [last EXCEPT ![j] = "error"]
  /\ missed' = missed \union {j}
  /\ UNCHANGED <<planVars, held, completed, claimVars, proc, workVars, ghostVars, edits,
                 spent>>

\* a recurring job reserves its next slot with the claim
Reserve(j) ==
  next' = [next EXCEPT ![j] = IF kind[j] = "once" THEN @ ELSE "future"]

Claim(j, o) ==
  /\ Sweeping
  /\ Unused(o)
  /\ Claimable(j)
  /\ next[j] = "due"
  /\ Reserve(j)
  /\ IF kind[j] = "once" THEN Count(j) ELSE UNCHANGED completed
  /\ claim' = [claim EXCEPT ![j] = o]
  /\ stale' = stale \ {j}
  /\ state' = [state EXCEPT ![j] = "running"]
  /\ Move(o, "claimed")
  /\ work' = [work EXCEPT ![o] = j]
  /\ told' = told \ {j}
  /\ UNCHANGED <<planVars, enabled, held, missed, last, proc, ok, starts, silenced,
                 edits, spent>>

-----------------------------------------------------------------------------
(* A worker                                                                *)

\* the loop creates the task of a claimed job, also when it is about to stop
Register(o) ==
  /\ pc[o] = "claimed"
  /\ Move(o, "start")
  /\ UNCHANGED <<planVars, stateVars, claimVars, proc, work, ok, ghostVars, edits,
                 spent>>

\* the agent is run: the side effects of the job begin
Begin(o) ==
  /\ pc[o] = "start"
  /\ Move(o, "agent")
  /\ starts' = [starts EXCEPT ![work[o]] =
                   IF times[work[o]] # 0 /\ @ <= MaxTimes THEN @ + 1 ELSE @]
  /\ UNCHANGED <<planVars, stateVars, claimVars, proc, work, ok, told, silenced,
                 edits, spent>>

\* it ends with an answer, or without one
Respond(o) ==
  /\ pc[o] = "agent"
  /\ Move(o, "check") \/ Move(o, "broken")
  /\ UNCHANGED <<planVars, stateVars, claimVars, proc, work, ok, ghostVars, edits,
                 spent>>

\* the claim is another's: nothing is published any more
Lose(o) ==
  /\ ok' = ok \ {o}
  /\ Move(o, "finish")
  /\ UNCHANGED stale

\* retain_claim: the renewed claim is fresh again
Retain(o, place) ==
  IF Holds(o)
  THEN /\ stale' = stale \ {work[o]}
       /\ Move(o, place)
       /\ UNCHANGED ok
  ELSE Lose(o)

Check(o) ==
  /\ pc[o] = "check"
  /\ Retain(o, "save")
  /\ UNCHANGED <<planVars, stateVars, claim, proc, work, ghostVars, edits, spent>>

\* save_output, fenced by the claim
Save(o) ==
  /\ pc[o] = "save"
  /\ IF Holds(o) THEN Move(o, "verify") /\ UNCHANGED <<ok, stale>> ELSE Lose(o)
  /\ UNCHANGED <<planVars, stateVars, claim, proc, work, ghostVars, edits, spent>>

\* the claim once more, the saved artifact compared; then the run has succeeded
Verify(o) ==
  /\ pc[o] = "verify"
  /\ IF Holds(o)
     THEN /\ stale' = stale \ {work[o]}
          /\ Move(o, "deliver")
          /\ ok' = ok \union {o}
         
     ELSE Lose(o)
  /\ UNCHANGED <<planVars, stateVars, claim, proc, work, ghostVars, edits, spent>>

\* _deliver_text; its error is kept beside the success
Deliver(o) ==
  /\ pc[o] = "deliver"
  /\ Move(o, "finish")
  /\ told' = IF Holds(o) THEN told \union {work[o]} ELSE told
  /\ UNCHANGED <<planVars, stateVars, claimVars, proc, work, ok, starts, silenced,
                 edits, spent>>

\* a failed run saves its failure behind the same fence and reports it
Broken(o) ==
  /\ pc[o] = "broken"
  /\ IF Holds(o) THEN Move(o, "report") /\ UNCHANGED <<ok, stale>> ELSE Lose(o)
  /\ UNCHANGED <<planVars, stateVars, claim, proc, work, ghostVars, edits, spent>>

Report(o) ==
  /\ pc[o] = "report"
  /\ Retain(o, "notify")
  /\ UNCHANGED <<planVars, stateVars, claim, proc, work, ghostVars, edits, spent>>

Notify(o) ==
  /\ pc[o] = "notify"
  /\ Move(o, "finish")
  /\ UNCHANGED <<planVars, stateVars, claimVars, proc, work, ok, ghostVars, edits,
                 spent>>

\* finish_job for the job of a worker that holds its claim
FinishJob(j, success) ==
  /\ last' = [last EXCEPT ![j] = IF success THEN "ok" ELSE "error"]
  /\ claim' = [claim EXCEPT ![j] = NoOwner]
  /\ stale' = stale \ {j}
  /\ IF kind[j] = "once"
     THEN /\ End(j, IF success THEN "completed" ELSE "error")
          /\ missed' = missed \ {j}
          /\ UNCHANGED completed
     ELSE /\ Count(j)
          /\ UNCHANGED missed
          /\ IF times[j] # 0 /\ completed'[j] >= times[j]
             THEN End(j, "completed")
             ELSE IF j \notin enabled \/ state[j] = "paused"
             THEN /\ enabled' = enabled \ {j}
                  /\ state' = [state EXCEPT ![j] = "paused"]
                  /\ UNCHANGED next
             ELSE /\ state' = [state EXCEPT ![j] = "scheduled"]
                  /\ next' = [next EXCEPT ![j] = "future"]
                  /\ UNCHANGED enabled

\* the task is done and leaves the registry
Leave(o) == Move(o, "free") /\ ok' = ok \ {o}

Finish(o) ==
  /\ pc[o] = "finish"
  /\ IF Holds(o) THEN FinishJob(work[o], o \in ok)
     ELSE UNCHANGED <<state, enabled, completed, next, missed, last, claimVars>>
  /\ Leave(o)
  /\ UNCHANGED <<planVars, held, proc, work, ghostVars, edits, spent>>

-----------------------------------------------------------------------------
(* What interrupts a worker                                                *)

\* the heartbeat renews the claim, or cancels its worker
Heartbeat(o) ==
  /\ pc[o] \in Running
  /\ Retain(o, pc[o])
  /\ UNCHANGED <<planVars, stateVars, claim, proc, work, ghostVars, edits, spent>>

\* a renewal raises: the claim counts as lost
RenewFails(o) ==
  /\ pc[o] \in Running
  /\ Spend
  /\ Lose(o)
  /\ UNCHANGED <<planVars, stateVars, claim, proc, work, ghostVars, edits>>

\* saving or comparing the output raises; so may saving the failure, which is
\* only logged
SaveFails(o) ==
  /\ pc[o] \in {"save", "verify", "broken"}
  /\ Spend
  /\ Move(o, IF pc[o] = "broken" THEN "report" ELSE "broken")
  /\ UNCHANGED <<planVars, stateVars, claimVars, proc, work, ok, ghostVars, edits>>

\* finish_job raises: the claim stays
FinishFails(o) ==
  /\ pc[o] = "finish"
  /\ Spend
  /\ Leave(o)
  /\ UNCHANGED <<planVars, stateVars, claimVars, proc, work, ghostVars, edits>>

\* Mutation: a run cancelled during its delivery stays a success.
CancelledOk(o) == ok

\* a cancelled run has not succeeded
Cancelled(o) == ok \ {o}

\* the drain of a shutdown has expired.  A task that has not begun, or that
\* waits for its heartbeat to end, goes without finish_job
Cancel(o) ==
  /\ proc = "stopping"
  /\ \/ pc[o] \in Running /\ Move(o, "finish") /\ ok' = Cancelled(o)
     \/ pc[o] \in {"start", "finish"} /\ Leave(o)
  /\ UNCHANGED <<planVars, stateVars, claimVars, proc, work, ghostVars, edits, spent>>

-----------------------------------------------------------------------------
(* The process                                                             *)

\* a shutdown, or the scheduler's own failure
Stop ==
  /\ proc = "up"
  /\ Spend
  /\ proc' = "stopping"
  /\ UNCHANGED <<planVars, stateVars, claimVars, workVars, ghostVars, edits>>

Stopped ==
  /\ proc = "stopping"
  /\ \A o \in Owners : pc[o] = "free"
  /\ proc' = "down"
  /\ UNCHANGED <<planVars, stateVars, claimVars, workVars, ghostVars, edits, spent>>

Crash ==
  /\ proc # "down"
  /\ Spend
  /\ proc' = "down"
  /\ pc' = [o \in Owners |-> "free"]
  /\ ok' = {}
  /\ UNCHANGED <<planVars, stateVars, claimVars, work, ghostVars, edits>>

Start ==
  /\ proc = "down"
  /\ proc' = "up"
  /\ UNCHANGED <<planVars, stateVars, claimVars, workVars, ghostVars, edits, spent>>

-----------------------------------------------------------------------------
(* The clock                                                               *)

\* next_run_at comes; a one-shot leaves its grace
Tick(j) ==
  /\ Exists(j)
  /\ \/ /\ next[j] = "future"
        /\ next' = [next EXCEPT ![j] = "due"]
        /\ UNCHANGED passed
     \/ /\ kind[j] = "once" /\ next[j] # "future" /\ j \notin passed
        /\ passed' = passed \union {j}
        /\ UNCHANGED next
     \/ /\ kind[j] = "once" /\ next[j] = "due" /\ j \in passed
        /\ next' = [next EXCEPT ![j] = "late"]
        /\ UNCHANGED passed
  /\ UNCHANGED <<state, enabled, held, kind, times, completed, missed, last, claimVars, proc,
                 workVars, ghostVars, edits, spent>>

\* the claim has not been renewed within its time to live
Age(j) ==
  /\ claim[j] # NoOwner
  /\ stale' = stale \union {j}
  /\ UNCHANGED <<planVars, stateVars, claim, proc, workVars, ghostVars, edits, spent>>

-----------------------------------------------------------------------------
(* The user's commands                                                     *)

Kinds  == {"once", "recurring"}
Counts == 0..MaxTimes

Edit == edits < MaxEdits /\ edits' = edits + 1

\* one-shots run once; 0 stands for no repeat count
Repeats(k, n) == IF k = "once" THEN 1 ELSE n

Create(j, k, n) ==
  /\ state[j] = "new"
  /\ state' = [state EXCEPT ![j] = "scheduled"]
  /\ enabled' = enabled \union {j}
  /\ kind' = [kind EXCEPT ![j] = k]
  /\ times' = [times EXCEPT ![j] = Repeats(k, n)]
  /\ next' = [next EXCEPT ![j] = "future"]
  /\ UNCHANGED <<held, completed, passed, missed, last, claimVars, proc, workVars, ghostVars,
                 edits, spent>>

Pause(j) ==
  /\ Exists(j) /\ Edit
  /\ enabled' = enabled \ {j}
  /\ state' = [state EXCEPT ![j] = "paused"]
  /\ held' = held \union {j}
  /\ silenced' = silenced \union {j}
  /\ UNCHANGED <<planVars, completed, next, missed, last, claimVars, proc, workVars, starts,
                 told, spent>>

\* a paused job that still has its claim is running
Resumed(j) == IF claim[j] # NoOwner THEN "running" ELSE "scheduled"

\* next_run_at of a schedule that is started anew
Anew(j) == IF kind[j] = "once" THEN {"future", "due"} ELSE {"future"}

\* refused for a one-shot whose time has passed
Resume(j) ==
  /\ state[j] = "paused" /\ Edit
  /\ kind[j] = "once" => j \notin passed
  /\ enabled' = enabled \union {j}
  /\ held' = held \ {j}
  /\ state' = [state EXCEPT ![j] = Resumed(j)]
  /\ IF claim[j] # NoOwner THEN UNCHANGED next
     ELSE \E slot \in Anew(j) : next' = [next EXCEPT ![j] = slot]
  /\ silenced' = silenced \ {j}
  /\ UNCHANGED <<planVars, completed, missed, last, claimVars, proc, workVars, starts, told,
                 spent>>

\* run it now; of what is disabled only a missed one-shot
Trigger(j) ==
  /\ Exists(j) /\ Edit
  /\ \/ j \in enabled /\ state[j] # "paused"
     \/ j \in missed /\ kind[j] = "once" /\ state[j] = "error"
  /\ claim[j] = NoOwner /\ state[j] \notin {"running", "completed"}
  /\ enabled' = enabled \union {j}
  /\ state' = [state EXCEPT ![j] = "scheduled"]
  /\ next' = [next EXCEPT ![j] = "due"]
  /\ missed' = missed \ {j}
  /\ UNCHANGED <<planVars, held, completed, last, claimVars, proc, workVars, ghostVars,
                 spent>>

\* the timing of a running job cannot be changed
Changeable(j) == Exists(j) /\ claim[j] = NoOwner

\* repeat counts an update to schedule k may leave.  A count given with it is
\* read under the old schedule: of a one-shot it is 1 whatever was asked
After(j, k) ==
  IF k = "once" THEN {1} ELSE IF kind[j] = "once" THEN {0, 1} ELSE Counts

\* update_job with a new schedule, with or without a repeat count
Reschedule(j, k) ==
  /\ Changeable(j) /\ Edit
  /\ kind' = [kind EXCEPT ![j] = k]
  /\ \E n \in After(j, k) : times' = [times EXCEPT ![j] = n]
  /\ IF k # kind[j] \/ state[j] \in {"completed", "error"}
     THEN /\ completed' = [completed EXCEPT ![j] = 0]
          /\ starts' = [starts EXCEPT ![j] = 0]
          /\ missed' = missed \ {j}
     ELSE UNCHANGED <<completed, starts, missed>>
  /\ passed' = passed \ {j}
  /\ IF state[j] # "paused"
     THEN /\ next' = [next EXCEPT ![j] = "future"]
          /\ enabled' = enabled \union {j}
          /\ state' = [state EXCEPT ![j] = "scheduled"]
     ELSE UNCHANGED <<next, enabled, state>>
  /\ UNCHANGED <<held, last, claimVars, proc, workVars, told, silenced, spent>>

\* update_job with a new repeat count
Recount(j, n) ==
  /\ Changeable(j) /\ Edit
  /\ times' = [times EXCEPT ![j] = Repeats(kind[j], n)]
  /\ UNCHANGED <<stateVars, kind, passed, claimVars, proc, workVars, ghostVars, spent>>

\* the job goes, with its claim; its worker finds out
Remove(j) ==
  /\ Exists(j) /\ Edit
  /\ End(j, "removed")
  /\ claim' = [claim EXCEPT ![j] = NoOwner]
  /\ stale' = stale \ {j}
  /\ UNCHANGED <<planVars, held, completed, missed, last, proc, workVars, ghostVars, spent>>

-----------------------------------------------------------------------------
Init ==
  /\ state = [j \in Jobs |-> "new"]
  /\ enabled = {} /\ held = {} /\ passed = {} /\ missed = {} /\ stale = {}
  /\ kind = [j \in Jobs |-> "once"]
  /\ times = [j \in Jobs |-> 0]
  /\ completed = [j \in Jobs |-> 0]
  /\ next = [j \in Jobs |-> "none"]
  /\ claim = [j \in Jobs |-> NoOwner]
  /\ last = [j \in Jobs |-> "none"]
  /\ proc = "down"
  /\ pc = [o \in Owners |-> "free"]
  /\ work \in [Owners -> Jobs]
  /\ ok = {}
  /\ starts = [j \in Jobs |-> 0]
  /\ told = {} /\ silenced = {}
  /\ edits = 0 /\ spent = 0

Sweep(j) == Retire(j) \/ Settle(j) \/ Miss(j) \/ \E o \in Owners : Claim(j, o)

WorkerStep(o) ==
  \/ Register(o) \/ Begin(o) \/ Respond(o) \/ Check(o) \/ Save(o) \/ Verify(o)
  \/ Deliver(o) \/ Broken(o) \/ Report(o) \/ Notify(o) \/ Finish(o)

Interrupt(o) == Heartbeat(o) \/ RenewFails(o) \/ SaveFails(o) \/ FinishFails(o) \/ Cancel(o)

Command(j) ==
  \/ Pause(j) \/ Resume(j) \/ Trigger(j) \/ Remove(j)
  \/ \E k \in Kinds : Reschedule(j, k)
  \/ \E n \in Counts : Recount(j, n)
  \/ \E k \in Kinds, n \in Counts : Create(j, k, n)

Next ==
  \/ \E j \in Jobs : Sweep(j) \/ Tick(j) \/ Age(j) \/ Command(j)
  \/ \E o \in Owners : WorkerStep(o) \/ Interrupt(o)
  \/ Stop \/ Stopped \/ Crash \/ Start

Spec == Init /\ [][Next]_vars

\* tasks run on and the agent's turn ends, the loop wakes at every tick, time
\* passes, a supervisor restarts the service
Fairness ==
  /\ \A j \in Jobs : WF_vars(Sweep(j)) /\ WF_vars(Tick(j)) /\ WF_vars(Age(j))
  /\ \A o \in Owners : WF_vars(WorkerStep(o))
  /\ WF_vars(Stopped) /\ WF_vars(Start)

FairSpec == Spec /\ Fairness

-----------------------------------------------------------------------------
(* What the scheduler promises                                             *)

\* Every variable has its type.
TypeOK ==
  /\ state \in [Jobs -> {"new", "scheduled", "running", "paused", "completed", "error",
                         "removed"}]
  /\ enabled \subseteq Jobs /\ held \subseteq Jobs /\ passed \subseteq Jobs
  /\ missed \subseteq Jobs /\ stale \subseteq Jobs
  /\ kind \in [Jobs -> Kinds]
  /\ times \in [Jobs -> Counts]
  /\ completed \in [Jobs -> Counts]
  /\ next \in [Jobs -> {"none", "future", "due", "late"}]
  /\ claim \in [Jobs -> Owners \union {NoOwner}]
  /\ last \in [Jobs -> {"none", "ok", "error", "unknown"}]
  /\ proc \in {"up", "stopping", "down"}
  /\ pc \in [Owners -> Places]
  /\ work \in [Owners -> Jobs]
  /\ ok \subseteq Owners
  /\ starts \in [Jobs -> 0..(MaxTimes + 1)]
  /\ told \subseteq Jobs /\ silenced \subseteq Jobs
  /\ edits \in 0..MaxEdits /\ spent \in 0..Budget

\* A worker holds the claim of its job as long as it is in the registry,
\* unless the user has removed the job: no other run of the job begins beside
\* it, however late its heartbeat.
WorkerHoldsClaim ==
  \A o \in Owners : pc[o] # "free" => Holds(o) \/ state[work[o]] = "removed"

\* A run begins only while repeats are left, counting those whose end was
\* lost in a crash; a one-shot is never run a second time.
WithinRepeats ==
  [][\A j \in Jobs : starts'[j] > starts[j] /\ times[j] # 0 => starts[j] < times[j]]_vars

\* No run of a job is claimed between the user's pause and the resume.
PauseHolds ==
  [][\A j \in Jobs : claim[j] = NoOwner /\ claim'[j] # NoOwner => j \notin silenced]_vars

\* A run is reported as ok only when its answer was saved and handed to the
\* delivery.
OkMeansDelivered ==
  \A j \in Jobs : last[j] = "ok" /\ claim[j] = NoOwner => j \in told \/ state[j] = "removed"

\* A job said to be running has a claim (verify_health).
RunningIsClaimed ==
  \A j \in Jobs : state[j] = "running" => claim[j] # NoOwner

\* A claimed job that exists is running (verify_health).
ClaimedIsRunning ==
  \A j \in Jobs : claim[j] # NoOwner => state[j] = "running"

\* A job that is disabled, and has not ended, can be resumed.
Resumable ==
  \A j \in Jobs : Exists(j) /\ j \notin enabled => state[j] \in {"paused", "completed", "error"}

\* A claim does not outlive its run for ever, whatever failed.
ClaimEnds == \A j \in Jobs : claim[j] # NoOwner ~> claim[j] = NoOwner

\* A due job is not forgotten.
Due(j) == Runnable(j) /\ next[j] \in {"due", "late"}
DueIsHandled == \A j \in Jobs : Due(j) ~> ~Due(j)

(* The same, grouped as the runs check them                                *)

\* Every variable has its type; claims, runs and the state of a job tell one
\* story.
ClaimsMatch == TypeOK /\ WorkerHoldsClaim /\ RunningIsClaimed

\* A run begins only where the user's count and the user's pause allow it.
RunsAllowed == WithinRepeats /\ PauseHolds

\* No claim, and no due job, waits for ever.
JobsProceed == ClaimEnds /\ DueIsHandled
=============================================================================
