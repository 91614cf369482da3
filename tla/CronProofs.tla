----------------------------- MODULE CronProofs -----------------------------
(***************************************************************************)
(* What TLAPS proves of CronJobs, for any set of jobs, any set of claim    *)
(* identities and any bounds.                                              *)
(***************************************************************************)
EXTENDS CronJobs, TLAPS

-----------------------------------------------------------------------------
(* The inductive invariant                                                 *)

\* A worker holds the claim of its job, which no other worker is at, unless
\* the job was removed; a claim belongs to a running or a paused job.
Claims ==
  /\ WorkerHoldsClaim
  /\ \A o, p \in Owners :
        pc[o] # "free" /\ pc[p] # "free" /\ work[o] = work[p] => o = p
  /\ \A j \in Jobs : claim[j] # NoOwner => state[j] \in {"running", "paused"}
  /\ RunningIsClaimed

\* A silenced job carries the pause mark.
Marks == silenced \subseteq held

\* Only a worker that has verified its output is a success, and one that is
\* about to finish as a success has delivered.
Successes ==
  /\ \A o \in ok : pc[o] \in {"deliver", "finish"}
  /\ \A o \in ok : pc[o] = "finish" => work[o] \in told \/ state[work[o]] = "removed"
  /\ OkMeansDelivered

\* a run under way that its end is going to count
Pending(j) ==
  IF claim[j] # NoOwner /\ kind[j] = "recurring" /\ times[j] # 0 THEN 1 ELSE 0

\* The runs begun under a repeat count are those that are counted, and the one
\* under way; a worker that has not begun has a repeat left for its run.
Repeated ==
  /\ \A j \in Jobs : kind[j] = "once" /\ state[j] # "new" => times[j] = 1
  /\ \A j \in Jobs : starts[j] <= MaxTimes
  /\ \A j \in Jobs : state[j] # "removed" => starts[j] <= completed[j] + Pending(j)
  /\ \A o \in Owners : pc[o] \in {"claimed", "start"} =>
        /\ times[work[o]] # 0 => starts[work[o]] < times[work[o]]
        /\ state[work[o]] # "removed" =>
              starts[work[o]] + (IF kind[work[o]] = "once" THEN 1 ELSE 0)
                 <= completed[work[o]]

\* The inductive invariant.
IInv == TypeOK /\ Claims /\ Marks /\ Successes /\ Repeated

\* The empty table of a service that has not started satisfies it.
LEMMA InitHolds ==
  ASSUME Init
  PROVE  IInv
<1> USE DEF Init
<1>1. TypeOK
    BY CronAssumption DEF TypeOK, Kinds, Counts, Places, Running
<1>2. Claims
    BY DEF Claims, WorkerHoldsClaim, RunningIsClaimed
<1>3. Marks
    BY DEF Marks
<1>4. Successes
    BY DEF Successes, OkMeansDelivered
<1>5. Repeated
    BY CronAssumption DEF Repeated, Pending
<1>6. QED
    BY <1>1, <1>2, <1>3, <1>4, <1>5 DEF IInv

\* Types are inductive.
LEMMA TypesStep ==
  ASSUME TypeOK, [Next]_vars
  PROVE  TypeOK'
<1> USE DEF TypeOK, Kinds, Counts, Places, Running, planVars, stateVars, claimVars,
            workVars, ghostVars
<1>1. CASE UNCHANGED vars
    BY <1>1 DEF vars
<1>2. ASSUME NEW j \in Jobs, Retire(j) PROVE TypeOK'
    BY <1>2, CronAssumption DEF Retire, Sweeping, Abandoned, Live, Running,
          CountAbandoned, Count, End
<1>3. ASSUME NEW j \in Jobs, Settle(j) PROVE TypeOK'
    BY <1>3, CronAssumption DEF Settle, Sweeping, Runnable, Exhausted, End
<1>4. ASSUME NEW j \in Jobs, Miss(j) PROVE TypeOK'
    BY <1>4, CronAssumption DEF Miss, Sweeping, Claimable, Runnable, End
<1>5. ASSUME NEW j \in Jobs, Tick(j) PROVE TypeOK'
    BY <1>5, CronAssumption DEF Tick, Exists
<1>6. ASSUME NEW j \in Jobs, Age(j) PROVE TypeOK'
    BY <1>6, CronAssumption DEF Age
<1>7. ASSUME NEW j \in Jobs, Pause(j) PROVE TypeOK'
    BY <1>7, CronAssumption DEF Pause, Exists, Edit
<1>8. ASSUME NEW j \in Jobs, Resume(j) PROVE TypeOK'
    BY <1>8, CronAssumption DEF Resume, Edit, Resumed, Anew
<1>9. ASSUME NEW j \in Jobs, Trigger(j) PROVE TypeOK'
    BY <1>9, CronAssumption DEF Trigger, Exists, Edit
<1>10. ASSUME NEW j \in Jobs, Remove(j) PROVE TypeOK'
    BY <1>10, CronAssumption DEF Remove, Exists, Edit, End
<1>11. ASSUME NEW j \in Jobs, NEW o \in Owners, Claim(j, o) PROVE TypeOK'
    BY <1>11, CronAssumption DEF Claim, Sweeping, Unused, Claimable, Runnable,
          Exhausted, Reserve, Count, Move
<1>12. ASSUME NEW j \in Jobs, NEW k \in Kinds, Reschedule(j, k) PROVE TypeOK'
    BY <1>12, CronAssumption DEF Reschedule, Changeable, Exists, Edit, After, Kinds,
          Counts
<1>13. ASSUME NEW j \in Jobs, NEW n \in Counts, Recount(j, n) PROVE TypeOK'
    BY <1>13, CronAssumption DEF Recount, Changeable, Exists, Edit, Repeats, Counts
<1>14. ASSUME NEW j \in Jobs, NEW k \in Kinds, NEW n \in Counts, Create(j, k, n)
      PROVE TypeOK'
    BY <1>14, CronAssumption DEF Create, Repeats, Kinds, Counts
<1>15. ASSUME NEW o \in Owners, Register(o) PROVE TypeOK'
    BY <1>15, CronAssumption DEF Register, Move
<1>16. ASSUME NEW o \in Owners, Begin(o) PROVE TypeOK'
    BY <1>16, CronAssumption DEF Begin, Move
<1>17. ASSUME NEW o \in Owners, Respond(o) PROVE TypeOK'
    BY <1>17, CronAssumption DEF Respond, Move
<1>18. ASSUME NEW o \in Owners, Check(o) PROVE TypeOK'
    BY <1>18, CronAssumption DEF Check, Retain, Lose, Holds, Move
<1>19. ASSUME NEW o \in Owners, Save(o) PROVE TypeOK'
    BY <1>19, CronAssumption DEF Save, Lose, Holds, Move
<1>20. ASSUME NEW o \in Owners, Verify(o) PROVE TypeOK'
    BY <1>20, CronAssumption DEF Verify, Lose, Holds, Move
<1>21. ASSUME NEW o \in Owners, Deliver(o) PROVE TypeOK'
    BY <1>21, CronAssumption DEF Deliver, Holds, Move
<1>22. ASSUME NEW o \in Owners, Broken(o) PROVE TypeOK'
    BY <1>22, CronAssumption DEF Broken, Lose, Holds, Move
<1>23. ASSUME NEW o \in Owners, Report(o) PROVE TypeOK'
    BY <1>23, CronAssumption DEF Report, Retain, Lose, Holds, Move
<1>24. ASSUME NEW o \in Owners, Notify(o) PROVE TypeOK'
    BY <1>24, CronAssumption DEF Notify, Move
<1>25. ASSUME NEW o \in Owners, Finish(o) PROVE TypeOK'
    BY <1>25, CronAssumption DEF Finish, Holds, FinishJob, Leave, Move, Count, End
<1>26. ASSUME NEW o \in Owners, Heartbeat(o) PROVE TypeOK'
    BY <1>26, CronAssumption DEF Heartbeat, Running, Retain, Lose, Holds, Move
<1>27. ASSUME NEW o \in Owners, RenewFails(o) PROVE TypeOK'
    BY <1>27, CronAssumption DEF RenewFails, Running, Spend, Lose, Move
<1>28. ASSUME NEW o \in Owners, SaveFails(o) PROVE TypeOK'
    BY <1>28, CronAssumption DEF SaveFails, Spend, Move
<1>29. ASSUME NEW o \in Owners, FinishFails(o) PROVE TypeOK'
    BY <1>29, CronAssumption DEF FinishFails, Spend, Leave, Move
<1>30. ASSUME NEW o \in Owners, Cancel(o) PROVE TypeOK'
    BY <1>30, CronAssumption DEF Cancel, Running, Cancelled, Leave, Move
<1>31. CASE Stop
    BY <1>31, CronAssumption DEF Stop, Spend
<1>32. CASE Stopped
    BY <1>32, CronAssumption DEF Stopped
<1>33. CASE Crash
    BY <1>33, CronAssumption DEF Crash, Spend
<1>34. CASE Start
    BY <1>34, CronAssumption DEF Start
<1>35. QED
    BY <1>1, <1>2, <1>3, <1>4, <1>5, <1>6, <1>7, <1>8, <1>9, <1>10,
       <1>11, <1>12, <1>13, <1>14, <1>15, <1>16, <1>17, <1>18, <1>19,
       <1>20, <1>21, <1>22, <1>23, <1>24, <1>25, <1>26, <1>27, <1>28,
       <1>29, <1>30, <1>31, <1>32, <1>33, <1>34
       DEF Next, Sweep, Command, WorkerStep, Interrupt

\* No action takes a claim from under a live worker.
LEMMA ClaimsStep ==
  ASSUME TypeOK, Claims, [Next]_vars
  PROVE  Claims'
<1> USE DEF TypeOK, Kinds, Counts, Places, Running, Claims, WorkerHoldsClaim,
            RunningIsClaimed, Holds, planVars, stateVars, claimVars, workVars, ghostVars
<1>1. CASE UNCHANGED vars
    BY <1>1 DEF vars
<1>2. ASSUME NEW j \in Jobs, Retire(j) PROVE Claims'
    BY <1>2, CronAssumption DEF Retire, Sweeping, Abandoned, Live, Running,
          CountAbandoned, Count, End
<1>3. ASSUME NEW j \in Jobs, Settle(j) PROVE Claims'
    BY <1>3, CronAssumption DEF Settle, Sweeping, Runnable, Exhausted, End
<1>4. ASSUME NEW j \in Jobs, Miss(j) PROVE Claims'
    BY <1>4, CronAssumption DEF Miss, Sweeping, Claimable, Runnable, End
<1>5. ASSUME NEW j \in Jobs, Tick(j) PROVE Claims'
    BY <1>5, CronAssumption DEF Tick, Exists
<1>6. ASSUME NEW j \in Jobs, Age(j) PROVE Claims'
    BY <1>6, CronAssumption DEF Age
<1>7. ASSUME NEW j \in Jobs, Pause(j) PROVE Claims'
    BY <1>7, CronAssumption DEF Pause, Exists, Edit
<1>8. ASSUME NEW j \in Jobs, Resume(j) PROVE Claims'
    BY <1>8, CronAssumption DEF Resume, Edit, Resumed, Anew
<1>9. ASSUME NEW j \in Jobs, Trigger(j) PROVE Claims'
    BY <1>9, CronAssumption DEF Trigger, Exists, Edit
<1>10. ASSUME NEW j \in Jobs, Remove(j) PROVE Claims'
    BY <1>10, CronAssumption DEF Remove, Exists, Edit, End
<1>11. ASSUME NEW j \in Jobs, NEW o \in Owners, Claim(j, o) PROVE Claims'
    BY <1>11, CronAssumption DEF Claim, Sweeping, Unused, Claimable, Runnable,
          Exhausted, Reserve, Count, Move
<1>12. ASSUME NEW j \in Jobs, NEW k \in Kinds, Reschedule(j, k) PROVE Claims'
    BY <1>12, CronAssumption DEF Reschedule, Changeable, Exists, Edit, After, Kinds,
          Counts
<1>13. ASSUME NEW j \in Jobs, NEW n \in Counts, Recount(j, n) PROVE Claims'
    BY <1>13, CronAssumption DEF Recount, Changeable, Exists, Edit, Repeats, Counts
<1>14. ASSUME NEW j \in Jobs, NEW k \in Kinds, NEW n \in Counts, Create(j, k, n)
      PROVE Claims'
    BY <1>14, CronAssumption DEF Create, Repeats, Kinds, Counts
<1>15. ASSUME NEW o \in Owners, Register(o) PROVE Claims'
    BY <1>15, CronAssumption DEF Register, Move
<1>16. ASSUME NEW o \in Owners, Begin(o) PROVE Claims'
    BY <1>16, CronAssumption DEF Begin, Move
<1>17. ASSUME NEW o \in Owners, Respond(o) PROVE Claims'
    BY <1>17, CronAssumption DEF Respond, Move
<1>18. ASSUME NEW o \in Owners, Check(o) PROVE Claims'
    BY <1>18, CronAssumption DEF Check, Retain, Lose, Holds, Move
<1>19. ASSUME NEW o \in Owners, Save(o) PROVE Claims'
    BY <1>19, CronAssumption DEF Save, Lose, Holds, Move
<1>20. ASSUME NEW o \in Owners, Verify(o) PROVE Claims'
    BY <1>20, CronAssumption DEF Verify, Lose, Holds, Move
<1>21. ASSUME NEW o \in Owners, Deliver(o) PROVE Claims'
    BY <1>21, CronAssumption DEF Deliver, Holds, Move
<1>22. ASSUME NEW o \in Owners, Broken(o) PROVE Claims'
    BY <1>22, CronAssumption DEF Broken, Lose, Holds, Move
<1>23. ASSUME NEW o \in Owners, Report(o) PROVE Claims'
    BY <1>23, CronAssumption DEF Report, Retain, Lose, Holds, Move
<1>24. ASSUME NEW o \in Owners, Notify(o) PROVE Claims'
    BY <1>24, CronAssumption DEF Notify, Move
<1>25. ASSUME NEW o \in Owners, Finish(o) PROVE Claims'
    BY <1>25, CronAssumption DEF Finish, Holds, FinishJob, Leave, Move, Count, End
<1>26. ASSUME NEW o \in Owners, Heartbeat(o) PROVE Claims'
    BY <1>26, CronAssumption DEF Heartbeat, Running, Retain, Lose, Holds, Move
<1>27. ASSUME NEW o \in Owners, RenewFails(o) PROVE Claims'
    BY <1>27, CronAssumption DEF RenewFails, Running, Spend, Lose, Move
<1>28. ASSUME NEW o \in Owners, SaveFails(o) PROVE Claims'
    BY <1>28, CronAssumption DEF SaveFails, Spend, Move
<1>29. ASSUME NEW o \in Owners, FinishFails(o) PROVE Claims'
    BY <1>29, CronAssumption DEF FinishFails, Spend, Leave, Move
<1>30. ASSUME NEW o \in Owners, Cancel(o) PROVE Claims'
    BY <1>30, CronAssumption DEF Cancel, Running, Cancelled, Leave, Move
<1>31. CASE Stop
    BY <1>31, CronAssumption DEF Stop, Spend
<1>32. CASE Stopped
    BY <1>32, CronAssumption DEF Stopped
<1>33. CASE Crash
    BY <1>33, CronAssumption DEF Crash, Spend
<1>34. CASE Start
    BY <1>34, CronAssumption DEF Start
<1>35. QED
    BY <1>1, <1>2, <1>3, <1>4, <1>5, <1>6, <1>7, <1>8, <1>9, <1>10,
       <1>11, <1>12, <1>13, <1>14, <1>15, <1>16, <1>17, <1>18, <1>19,
       <1>20, <1>21, <1>22, <1>23, <1>24, <1>25, <1>26, <1>27, <1>28,
       <1>29, <1>30, <1>31, <1>32, <1>33, <1>34
       DEF Next, Sweep, Command, WorkerStep, Interrupt

\* Only a resume takes the pause mark away.
LEMMA MarksStep ==
  ASSUME TypeOK, Claims, Marks, [Next]_vars
  PROVE  Marks'
<1> USE DEF Marks, planVars, stateVars, claimVars, workVars, ghostVars
<1>1. CASE UNCHANGED vars
    BY <1>1 DEF vars
<1>2. ASSUME NEW j \in Jobs, Retire(j) PROVE Marks'
    BY <1>2 DEF Retire, Sweeping, Abandoned, Live, Running, CountAbandoned, Count, End
<1>3. ASSUME NEW j \in Jobs, Settle(j) PROVE Marks'
    BY <1>3 DEF Settle, Sweeping, Runnable, Exhausted, End
<1>4. ASSUME NEW j \in Jobs, Miss(j) PROVE Marks'
    BY <1>4 DEF Miss, Sweeping, Claimable, Runnable, End
<1>5. ASSUME NEW j \in Jobs, Tick(j) PROVE Marks'
    BY <1>5 DEF Tick, Exists
<1>6. ASSUME NEW j \in Jobs, Age(j) PROVE Marks'
    BY <1>6 DEF Age
<1>7. ASSUME NEW j \in Jobs, Pause(j) PROVE Marks'
    BY <1>7 DEF Pause, Exists, Edit
<1>8. ASSUME NEW j \in Jobs, Resume(j) PROVE Marks'
    BY <1>8 DEF Resume, Edit, Resumed, Anew
<1>9. ASSUME NEW j \in Jobs, Trigger(j) PROVE Marks'
    BY <1>9 DEF Trigger, Exists, Edit
<1>10. ASSUME NEW j \in Jobs, Remove(j) PROVE Marks'
    BY <1>10 DEF Remove, Exists, Edit, End
<1>11. ASSUME NEW j \in Jobs, NEW o \in Owners, Claim(j, o) PROVE Marks'
    BY <1>11 DEF Claim, Sweeping, Unused, Claimable, Runnable, Exhausted, Reserve,
                 Count, Move
<1>12. ASSUME NEW j \in Jobs, NEW k \in Kinds, Reschedule(j, k) PROVE Marks'
    BY <1>12 DEF Reschedule, Changeable, Exists, Edit, After, Kinds, Counts
<1>13. ASSUME NEW j \in Jobs, NEW n \in Counts, Recount(j, n) PROVE Marks'
    BY <1>13 DEF Recount, Changeable, Exists, Edit, Repeats, Counts
<1>14. ASSUME NEW j \in Jobs, NEW k \in Kinds, NEW n \in Counts, Create(j, k, n)
      PROVE Marks'
    BY <1>14 DEF Create, Repeats, Kinds, Counts
<1>15. ASSUME NEW o \in Owners, Register(o) PROVE Marks'
    BY <1>15 DEF Register, Move
<1>16. ASSUME NEW o \in Owners, Begin(o) PROVE Marks'
    BY <1>16 DEF Begin, Move
<1>17. ASSUME NEW o \in Owners, Respond(o) PROVE Marks'
    BY <1>17 DEF Respond, Move
<1>18. ASSUME NEW o \in Owners, Check(o) PROVE Marks'
    BY <1>18 DEF Check, Retain, Lose, Holds, Move
<1>19. ASSUME NEW o \in Owners, Save(o) PROVE Marks'
    BY <1>19 DEF Save, Lose, Holds, Move
<1>20. ASSUME NEW o \in Owners, Verify(o) PROVE Marks'
    BY <1>20 DEF Verify, Lose, Holds, Move
<1>21. ASSUME NEW o \in Owners, Deliver(o) PROVE Marks'
    BY <1>21 DEF Deliver, Holds, Move
<1>22. ASSUME NEW o \in Owners, Broken(o) PROVE Marks'
    BY <1>22 DEF Broken, Lose, Holds, Move
<1>23. ASSUME NEW o \in Owners, Report(o) PROVE Marks'
    BY <1>23 DEF Report, Retain, Lose, Holds, Move
<1>24. ASSUME NEW o \in Owners, Notify(o) PROVE Marks'
    BY <1>24 DEF Notify, Move
<1>25. ASSUME NEW o \in Owners, Finish(o) PROVE Marks'
    BY <1>25 DEF Finish, Holds, FinishJob, Leave, Move, Count, End
<1>26. ASSUME NEW o \in Owners, Heartbeat(o) PROVE Marks'
    BY <1>26 DEF Heartbeat, Running, Retain, Lose, Holds, Move
<1>27. ASSUME NEW o \in Owners, RenewFails(o) PROVE Marks'
    BY <1>27 DEF RenewFails, Running, Spend, Lose, Move
<1>28. ASSUME NEW o \in Owners, SaveFails(o) PROVE Marks'
    BY <1>28 DEF SaveFails, Spend, Move
<1>29. ASSUME NEW o \in Owners, FinishFails(o) PROVE Marks'
    BY <1>29 DEF FinishFails, Spend, Leave, Move
<1>30. ASSUME NEW o \in Owners, Cancel(o) PROVE Marks'
    BY <1>30 DEF Cancel, Running, Cancelled, Leave, Move
<1>31. CASE Stop
    BY <1>31 DEF Stop, Spend
<1>32. CASE Stopped
    BY <1>32 DEF Stopped
<1>33. CASE Crash
    BY <1>33 DEF Crash, Spend
<1>34. CASE Start
    BY <1>34 DEF Start
<1>35. QED
    BY <1>1, <1>2, <1>3, <1>4, <1>5, <1>6, <1>7, <1>8, <1>9, <1>10,
       <1>11, <1>12, <1>13, <1>14, <1>15, <1>16, <1>17, <1>18, <1>19,
       <1>20, <1>21, <1>22, <1>23, <1>24, <1>25, <1>26, <1>27, <1>28,
       <1>29, <1>30, <1>31, <1>32, <1>33, <1>34
       DEF Next, Sweep, Command, WorkerStep, Interrupt

\* A run becomes a success, and stays one, only on the way through its
\* verification and delivery.
LEMMA SuccessesStep ==
  ASSUME TypeOK, Claims, Successes, [Next]_vars
  PROVE  Successes'
<1> USE DEF TypeOK, Kinds, Counts, Places, Running, Claims, WorkerHoldsClaim, Holds,
            Successes, OkMeansDelivered, planVars, stateVars, claimVars, workVars,
                  ghostVars
<1>1. CASE UNCHANGED vars
    BY <1>1 DEF vars
<1>2. ASSUME NEW j \in Jobs, Retire(j) PROVE Successes'
    BY <1>2, CronAssumption DEF Retire, Sweeping, Abandoned, Live, Running,
          CountAbandoned, Count, End
<1>3. ASSUME NEW j \in Jobs, Settle(j) PROVE Successes'
    BY <1>3, CronAssumption DEF Settle, Sweeping, Runnable, Exhausted, End
<1>4. ASSUME NEW j \in Jobs, Miss(j) PROVE Successes'
    BY <1>4, CronAssumption DEF Miss, Sweeping, Claimable, Runnable, End
<1>5. ASSUME NEW j \in Jobs, Tick(j) PROVE Successes'
    BY <1>5, CronAssumption DEF Tick, Exists
<1>6. ASSUME NEW j \in Jobs, Age(j) PROVE Successes'
    BY <1>6, CronAssumption DEF Age
<1>7. ASSUME NEW j \in Jobs, Pause(j) PROVE Successes'
    BY <1>7, CronAssumption DEF Pause, Exists, Edit
<1>8. ASSUME NEW j \in Jobs, Resume(j) PROVE Successes'
    BY <1>8, CronAssumption DEF Resume, Edit, Resumed, Anew
<1>9. ASSUME NEW j \in Jobs, Trigger(j) PROVE Successes'
    BY <1>9, CronAssumption DEF Trigger, Exists, Edit
<1>10. ASSUME NEW j \in Jobs, Remove(j) PROVE Successes'
    BY <1>10, CronAssumption DEF Remove, Exists, Edit, End
<1>11. ASSUME NEW j \in Jobs, NEW o \in Owners, Claim(j, o) PROVE Successes'
    BY <1>11, CronAssumption DEF Claim, Sweeping, Unused, Claimable, Runnable,
          Exhausted, Reserve, Count, Move
<1>12. ASSUME NEW j \in Jobs, NEW k \in Kinds, Reschedule(j, k) PROVE Successes'
    BY <1>12, CronAssumption DEF Reschedule, Changeable, Exists, Edit, After, Kinds,
          Counts
<1>13. ASSUME NEW j \in Jobs, NEW n \in Counts, Recount(j, n) PROVE Successes'
    BY <1>13, CronAssumption DEF Recount, Changeable, Exists, Edit, Repeats, Counts
<1>14. ASSUME NEW j \in Jobs, NEW k \in Kinds, NEW n \in Counts, Create(j, k, n)
      PROVE Successes'
    BY <1>14, CronAssumption DEF Create, Repeats, Kinds, Counts
<1>15. ASSUME NEW o \in Owners, Register(o) PROVE Successes'
    BY <1>15, CronAssumption DEF Register, Move
<1>16. ASSUME NEW o \in Owners, Begin(o) PROVE Successes'
    BY <1>16, CronAssumption DEF Begin, Move
<1>17. ASSUME NEW o \in Owners, Respond(o) PROVE Successes'
    BY <1>17, CronAssumption DEF Respond, Move
<1>18. ASSUME NEW o \in Owners, Check(o) PROVE Successes'
    BY <1>18, CronAssumption DEF Check, Retain, Lose, Holds, Move
<1>19. ASSUME NEW o \in Owners, Save(o) PROVE Successes'
    BY <1>19, CronAssumption DEF Save, Lose, Holds, Move
<1>20. ASSUME NEW o \in Owners, Verify(o) PROVE Successes'
    BY <1>20, CronAssumption DEF Verify, Lose, Holds, Move
<1>21. ASSUME NEW o \in Owners, Deliver(o) PROVE Successes'
    BY <1>21, CronAssumption DEF Deliver, Holds, Move
<1>22. ASSUME NEW o \in Owners, Broken(o) PROVE Successes'
    BY <1>22, CronAssumption DEF Broken, Lose, Holds, Move
<1>23. ASSUME NEW o \in Owners, Report(o) PROVE Successes'
    BY <1>23, CronAssumption DEF Report, Retain, Lose, Holds, Move
<1>24. ASSUME NEW o \in Owners, Notify(o) PROVE Successes'
    BY <1>24, CronAssumption DEF Notify, Move
<1>25. ASSUME NEW o \in Owners, Finish(o) PROVE Successes'
    BY <1>25, CronAssumption DEF Finish, Holds, FinishJob, Leave, Move, Count, End
<1>26. ASSUME NEW o \in Owners, Heartbeat(o) PROVE Successes'
    BY <1>26, CronAssumption DEF Heartbeat, Running, Retain, Lose, Holds, Move
<1>27. ASSUME NEW o \in Owners, RenewFails(o) PROVE Successes'
    BY <1>27, CronAssumption DEF RenewFails, Running, Spend, Lose, Move
<1>28. ASSUME NEW o \in Owners, SaveFails(o) PROVE Successes'
    BY <1>28, CronAssumption DEF SaveFails, Spend, Move
<1>29. ASSUME NEW o \in Owners, FinishFails(o) PROVE Successes'
    BY <1>29, CronAssumption DEF FinishFails, Spend, Leave, Move
<1>30. ASSUME NEW o \in Owners, Cancel(o) PROVE Successes'
    BY <1>30, CronAssumption DEF Cancel, Running, Cancelled, Leave, Move
<1>31. CASE Stop
    BY <1>31, CronAssumption DEF Stop, Spend
<1>32. CASE Stopped
    BY <1>32, CronAssumption DEF Stopped
<1>33. CASE Crash
    BY <1>33, CronAssumption DEF Crash, Spend
<1>34. CASE Start
    BY <1>34, CronAssumption DEF Start
<1>35. QED
    BY <1>1, <1>2, <1>3, <1>4, <1>5, <1>6, <1>7, <1>8, <1>9, <1>10,
       <1>11, <1>12, <1>13, <1>14, <1>15, <1>16, <1>17, <1>18, <1>19,
       <1>20, <1>21, <1>22, <1>23, <1>24, <1>25, <1>26, <1>27, <1>28,
       <1>29, <1>30, <1>31, <1>32, <1>33, <1>34
       DEF Next, Sweep, Command, WorkerStep, Interrupt

\* Claims, completions and retired claims count every run that has begun.
LEMMA RepeatedStep ==
  ASSUME TypeOK, Claims, Repeated, [Next]_vars
  PROVE  Repeated'
<1> USE DEF TypeOK, Kinds, Counts, Places, Running, Claims, WorkerHoldsClaim, Holds,
            Repeated, Pending, planVars, stateVars, claimVars, workVars, ghostVars
<1>1. CASE UNCHANGED vars
    BY <1>1 DEF vars
<1>2. ASSUME NEW j \in Jobs, Retire(j) PROVE Repeated'
    BY <1>2, CronAssumption DEF Retire, Sweeping, Abandoned, Live, Running,
          CountAbandoned, Count, End
<1>3. ASSUME NEW j \in Jobs, Settle(j) PROVE Repeated'
    BY <1>3, CronAssumption DEF Settle, Sweeping, Runnable, Exhausted, End
<1>4. ASSUME NEW j \in Jobs, Miss(j) PROVE Repeated'
    BY <1>4, CronAssumption DEF Miss, Sweeping, Claimable, Runnable, End
<1>5. ASSUME NEW j \in Jobs, Tick(j) PROVE Repeated'
    BY <1>5, CronAssumption DEF Tick, Exists
<1>6. ASSUME NEW j \in Jobs, Age(j) PROVE Repeated'
    BY <1>6, CronAssumption DEF Age
<1>7. ASSUME NEW j \in Jobs, Pause(j) PROVE Repeated'
    BY <1>7, CronAssumption DEF Pause, Exists, Edit
<1>8. ASSUME NEW j \in Jobs, Resume(j) PROVE Repeated'
    BY <1>8, CronAssumption DEF Resume, Edit, Resumed, Anew
<1>9. ASSUME NEW j \in Jobs, Trigger(j) PROVE Repeated'
    BY <1>9, CronAssumption DEF Trigger, Exists, Edit
<1>10. ASSUME NEW j \in Jobs, Remove(j) PROVE Repeated'
    BY <1>10, CronAssumption DEF Remove, Exists, Edit, End
<1>11. ASSUME NEW j \in Jobs, NEW o \in Owners, Claim(j, o) PROVE Repeated'
    BY <1>11, CronAssumption DEF Claim, Sweeping, Unused, Claimable, Runnable,
          Exhausted, Reserve, Count, Move
<1>12. ASSUME NEW j \in Jobs, NEW k \in Kinds, Reschedule(j, k) PROVE Repeated'
    BY <1>12, CronAssumption DEF Reschedule, Changeable, Exists, Edit, After, Kinds,
          Counts
<1>13. ASSUME NEW j \in Jobs, NEW n \in Counts, Recount(j, n) PROVE Repeated'
    BY <1>13, CronAssumption DEF Recount, Changeable, Exists, Edit, Repeats, Counts
<1>14. ASSUME NEW j \in Jobs, NEW k \in Kinds, NEW n \in Counts, Create(j, k, n)
      PROVE Repeated'
    BY <1>14, CronAssumption DEF Create, Repeats, Kinds, Counts
<1>15. ASSUME NEW o \in Owners, Register(o) PROVE Repeated'
    BY <1>15, CronAssumption DEF Register, Move
<1>16. ASSUME NEW o \in Owners, Begin(o) PROVE Repeated'
    BY <1>16, CronAssumption DEF Begin, Move
<1>17. ASSUME NEW o \in Owners, Respond(o) PROVE Repeated'
    BY <1>17, CronAssumption DEF Respond, Move
<1>18. ASSUME NEW o \in Owners, Check(o) PROVE Repeated'
    BY <1>18, CronAssumption DEF Check, Retain, Lose, Holds, Move
<1>19. ASSUME NEW o \in Owners, Save(o) PROVE Repeated'
    BY <1>19, CronAssumption DEF Save, Lose, Holds, Move
<1>20. ASSUME NEW o \in Owners, Verify(o) PROVE Repeated'
    BY <1>20, CronAssumption DEF Verify, Lose, Holds, Move
<1>21. ASSUME NEW o \in Owners, Deliver(o) PROVE Repeated'
    BY <1>21, CronAssumption DEF Deliver, Holds, Move
<1>22. ASSUME NEW o \in Owners, Broken(o) PROVE Repeated'
    BY <1>22, CronAssumption DEF Broken, Lose, Holds, Move
<1>23. ASSUME NEW o \in Owners, Report(o) PROVE Repeated'
    BY <1>23, CronAssumption DEF Report, Retain, Lose, Holds, Move
<1>24. ASSUME NEW o \in Owners, Notify(o) PROVE Repeated'
    BY <1>24, CronAssumption DEF Notify, Move
<1>25. ASSUME NEW o \in Owners, Finish(o) PROVE Repeated'
    BY <1>25, CronAssumption DEF Finish, Holds, FinishJob, Leave, Move, Count, End
<1>26. ASSUME NEW o \in Owners, Heartbeat(o) PROVE Repeated'
    BY <1>26, CronAssumption DEF Heartbeat, Running, Retain, Lose, Holds, Move
<1>27. ASSUME NEW o \in Owners, RenewFails(o) PROVE Repeated'
    BY <1>27, CronAssumption DEF RenewFails, Running, Spend, Lose, Move
<1>28. ASSUME NEW o \in Owners, SaveFails(o) PROVE Repeated'
    BY <1>28, CronAssumption DEF SaveFails, Spend, Move
<1>29. ASSUME NEW o \in Owners, FinishFails(o) PROVE Repeated'
    BY <1>29, CronAssumption DEF FinishFails, Spend, Leave, Move
<1>30. ASSUME NEW o \in Owners, Cancel(o) PROVE Repeated'
    BY <1>30, CronAssumption DEF Cancel, Running, Cancelled, Leave, Move
<1>31. CASE Stop
    BY <1>31, CronAssumption DEF Stop, Spend
<1>32. CASE Stopped
    BY <1>32, CronAssumption DEF Stopped
<1>33. CASE Crash
    BY <1>33, CronAssumption DEF Crash, Spend
<1>34. CASE Start
    BY <1>34, CronAssumption DEF Start
<1>35. QED
    BY <1>1, <1>2, <1>3, <1>4, <1>5, <1>6, <1>7, <1>8, <1>9, <1>10,
       <1>11, <1>12, <1>13, <1>14, <1>15, <1>16, <1>17, <1>18, <1>19,
       <1>20, <1>21, <1>22, <1>23, <1>24, <1>25, <1>26, <1>27, <1>28,
       <1>29, <1>30, <1>31, <1>32, <1>33, <1>34
       DEF Next, Sweep, Command, WorkerStep, Interrupt

-----------------------------------------------------------------------------
(* The theorems                                                            *)

\* The invariant holds in every reachable state.
THEOREM Invariance == Spec => []IInv
<1>1. Init => IInv
    BY InitHolds
<1>2. IInv /\ [Next]_vars => IInv'
    BY TypesStep, ClaimsStep, MarksStep, SuccessesStep, RepeatedStep DEF IInv
<1>3. QED
    BY <1>1, <1>2, PTL DEF Spec

\* Every variable of the job table and of the scheduler keeps its type.
THEOREM TypeCorrect == Spec => []TypeOK
<1>1. IInv => TypeOK
    BY DEF IInv
<1>2. QED
    BY <1>1, Invariance, PTL

\* A worker's claim is its own as long as the worker lives, unless its job is
\* removed: claim_due_jobs never hands the job to a second one.
THEOREM OneRunAtATime == Spec => []WorkerHoldsClaim
<1>1. IInv => WorkerHoldsClaim
    BY DEF IInv, Claims
<1>2. QED
    BY <1>1, Invariance, PTL

\* No job is left in state running without a claim, which no sweep would end.
THEOREM RunningHasClaim == Spec => []RunningIsClaimed
<1>1. IInv => RunningIsClaimed
    BY DEF IInv, Claims
<1>2. QED
    BY <1>1, Invariance, PTL

\* A job is called ok only when the answer of its last run was saved and handed
\* to the delivery.
THEOREM OkIsDelivered == Spec => []OkMeansDelivered
<1>1. IInv => OkMeansDelivered
    BY DEF IInv, Successes
<1>2. QED
    BY <1>1, Invariance, PTL

\* No job is claimed between the user's pause and the resume.
THEOREM PauseIsKept == Spec => PauseHolds
<1> DEFINE Step == \A j \in Jobs :
             claim[j] = NoOwner /\ claim'[j] # NoOwner => j \notin silenced
<1>1. ASSUME IInv, [Next]_vars
      PROVE  Step
  <2> USE <1>1 DEF IInv, TypeOK, Marks, planVars, stateVars, claimVars,
             workVars, ghostVars
  <2>1. CASE UNCHANGED vars
      BY <2>1 DEF vars
  <2>2. ASSUME NEW j \in Jobs, NEW o \in Owners, Claim(j, o) PROVE Step
      BY <2>2 DEF Claim, Claimable
  <2>3. ASSUME NEW j \in Jobs, Retire(j) \/ Settle(j) \/ Miss(j) PROVE Step
      BY <2>3 DEF Retire, Settle, Miss
  <2>4. ASSUME NEW j \in Jobs, Tick(j) \/ Age(j) \/ Command(j) PROVE Step
      BY <2>4 DEF Tick, Age, Command, Pause, Resume, Trigger, Remove, Reschedule,
                  Recount, Create
  <2>5. ASSUME NEW o \in Owners, WorkerStep(o) PROVE Step
      BY <2>5 DEF WorkerStep, Register, Begin, Respond, Check, Save, Verify, Deliver,
                  Broken, Report, Notify, Finish, FinishJob
  <2>6. ASSUME NEW o \in Owners, Interrupt(o) PROVE Step
      BY <2>6 DEF Interrupt, Heartbeat, RenewFails, SaveFails, FinishFails, Cancel
  <2>7. CASE Stop \/ Stopped \/ Crash \/ Start
      BY <2>7 DEF Stop, Stopped, Crash, Start
  <2>8. QED
      BY <2>1, <2>2, <2>3, <2>4, <2>5, <2>6, <2>7 DEF Next, Sweep
<1>2. QED
    BY <1>1, Invariance, PTL DEF Spec, PauseHolds

\* A run begins only while repeats are left, over crashes, lost claims, failed
\* completions and every change of the schedule.
THEOREM RepeatsAreKept == Spec => WithinRepeats
<1> DEFINE Step == \A j \in Jobs :
             starts'[j] > starts[j] /\ times[j] # 0 => starts[j] < times[j]
<1>1. ASSUME IInv, [Next]_vars
      PROVE  Step
  <2> USE <1>1 DEF IInv, TypeOK, Repeated, Counts, planVars, stateVars, claimVars,
             workVars, ghostVars
  <2>1. CASE UNCHANGED vars
      BY <2>1 DEF vars
  <2>2. ASSUME NEW o \in Owners, Begin(o) PROVE Step
      BY <2>2 DEF Begin
  <2>3. ASSUME NEW j \in Jobs, Sweep(j) PROVE Step
      BY <2>3 DEF Sweep, Retire, Settle, Miss, Claim
  <2>4. ASSUME NEW j \in Jobs, Tick(j) \/ Age(j) \/ Command(j) PROVE Step
      BY <2>4 DEF Tick, Age, Command, Pause, Resume, Trigger, Remove, Reschedule,
                  Recount, Create
  <2>5. ASSUME NEW o \in Owners, WorkerStep(o), ~Begin(o) PROVE Step
      BY <2>5 DEF WorkerStep, Register, Respond, Check, Save, Verify, Deliver, Broken,
                  Report, Notify, Finish
  <2>6. ASSUME NEW o \in Owners, Interrupt(o) PROVE Step
      BY <2>6 DEF Interrupt, Heartbeat, RenewFails, SaveFails, FinishFails, Cancel
  <2>7. CASE Stop \/ Stopped \/ Crash \/ Start
      BY <2>7 DEF Stop, Stopped, Crash, Start
  <2>8. QED
      BY <2>1, <2>2, <2>3, <2>4, <2>5, <2>6, <2>7 DEF Next
<1>2. QED
    BY <1>1, Invariance, PTL DEF Spec, WithinRepeats

-----------------------------------------------------------------------------
(* The properties as the runs check them                                   *)

\* A worker, its claim and the state of its job belong together.
THEOREM ClaimsAreTrue == Spec => []ClaimsMatch
<1>1. TypeOK /\ WorkerHoldsClaim /\ RunningIsClaimed => ClaimsMatch
    BY DEF ClaimsMatch
<1>2. QED
    BY <1>1, TypeCorrect, OneRunAtATime, RunningHasClaim, PTL

\* The user's count and the user's pause bound every run.
THEOREM RunsAreAllowed == Spec => RunsAllowed
BY RepeatsAreKept, PauseIsKept DEF RunsAllowed
=============================================================================
