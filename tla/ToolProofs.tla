----------------------------- MODULE ToolProofs -----------------------------
(***************************************************************************)
(* What TLAPS proves of the tools a turn calls: of the command session     *)
(* (ShellSession), for any number of calls, any jobs and any bounds, and   *)
(* of the files the agent learns in (PersistenceAudit), for any            *)
(* conversations, agents, files, calls and bounds. The two models share no *)
(* name and no state; they meet in this module only.                       *)
(***************************************************************************)
EXTENDS ShellSession, PersistenceAudit, SequenceTheorems, WellFoundedInduction, TLAPS

(***************************************************************************)
(* The command session                                                     *)
(***************************************************************************)
-----------------------------------------------------------------------------
(* The inductive invariant                                                 *)

\* Where the coroutine, the worker thread and the script of a call are.
Handlers == {"new", "queued", "making", "running", "stopping", "over"}
Workers == {"none", "start", "wait", "doomed", "term", "terming", "grace", "kill", "killing",
            "join", "report", "over"}
Places == {"none", "source", "eval", "stuck", "dump", "move", "mark", "leaving", "exited",
           "dead", "reaped"}

Shape ==
    /\ TypeOK
    /\ \A i \in Calls : job[i].to \in 0 .. Home /\ job[i].leaves \subseteq Sorts
    /\ handler \in [Calls -> Handlers]
    /\ worker \in [Calls -> Workers]
    /\ script \in [Calls -> Places]
    /\ here \in [Calls -> 0 .. Home]
    /\ env \in [Calls -> Calls \cup {Login}]
    /\ said \in [Calls -> 0 .. Home \cup {Nowhere}]
    /\ due \in [Calls -> SUBSET Sorts]
    /\ aim \in [Calls -> Sorts \cup {"none"}]
    /\ verdict \in [Calls -> {"none", "ok", "cancelled", "timeout"}]

\* The calls come one after the other, and a worker outlives its coroutine
\* only where that was cancelled twice.
Turns ==
    \A i \in Calls :
        /\ handler[i] \in {"new", "queued", "making"} => worker[i] = "none"
        /\ handler[i] = "over" /\ Live(i) => i \in left
        /\ handler[i] # "new" => \A j \in Calls : j < i => handler[j] = "over"

\* A script that has not run its command has left no process. Behind the
\* SIGKILL of its group the leader has ended, and what is left of the snapshot
\* is still to be looked at, or has been looked at and is signalled next.
Trees ==
    \A i \in Calls :
        /\ worker[i] \in {"none", "start"} => script[i] = "none"
        /\ worker[i] \in {"none", "start", "wait", "doomed", "over"} => tree[i] = {}
        /\ script[i] \in {"none", "source", "eval"} => kids[i] = {} /\ tree[i] = {}
        /\ worker[i] = "killing" => ~Lives(i) /\ Survivors(i) \subseteq due[i] \cup {aim[i]}
        /\ worker[i] \in {"join", "report"} /\ verdict[i] # "ok" =>
             ~Lives(i) /\ Survivors(i) = {}

\* The inductive invariant.
IInv == Shape /\ Turns /\ Trees

\* The fresh session satisfies it.
LEMMA InitHolds ==
  ASSUME Init
  PROVE  IInv
<1> USE ShellAssumption DEF Init
<1>1. Shape
    BY DEF Shape, TypeOK, Handlers, Workers, Places, NoJob, Job, Login, Nowhere, Free
<1>2. Turns /\ Trees
    BY DEF Turns, Trees, Live
<1> QED
    BY <1>1, <1>2 DEF IInv

\* The steps of a coroutine, from the request to its end, keep it.
LEMMA CoroutineHolds ==
  ASSUME IInv, NEW i \in Calls,
         \/ Ask(i)
         \/ Enter(i)
         \/ MakeShell(i)
         \/ Return(i)
         \/ Stop(i)
         \/ StopAgain(i)
  PROVE  IInv'
<1> USE ShellAssumption DEF IInv, session, coroutine, process, killing
<1>1. ASSUME Ask(i)
      PROVE  IInv'
  <2> USE <1>1 DEF Ask
  <2>1. Shape'
      BY DEF Shape, TypeOK, Handlers, Workers, Places, Login, Nowhere, Free
  <2>2. Turns'
      BY DEF Turns, Live, Shape
  <2>3. Trees'
      BY DEF Trees, Survivors, Lives, Ended, Shape, TypeOK
  <2> QED
      BY <2>1, <2>2, <2>3
<1>2. ASSUME Enter(i)
      PROVE  IInv'
  <2> USE <1>2 DEF Enter, Start
  <2>1. Shape'
      BY DEF Shape, TypeOK, Handlers, Workers, Places, Login, Nowhere, Free
  <2>2. Turns'
      BY DEF Turns, Live, Shape
  <2>3. Trees'
      BY DEF Trees, Survivors, Lives, Ended, Shape, TypeOK, Turns
  <2> QED
      BY <2>1, <2>2, <2>3
<1>3. ASSUME MakeShell(i)
      PROVE  IInv'
  <2> USE <1>3 DEF MakeShell, Start
  <2>1. Shape'
      BY DEF Shape, TypeOK, Handlers, Workers, Places, Login, Nowhere, Free, Safe
  <2>2. Turns'
      BY DEF Turns, Live, Shape
  <2>3. Trees'
      BY DEF Trees, Survivors, Lives, Ended, Shape, TypeOK, Turns
  <2> QED
      BY <2>1, <2>2, <2>3
<1>4. ASSUME Return(i)
      PROVE  IInv'
  <2> USE <1>4 DEF Return, Leave, WorkerEnded
  <2>0. \/ job' = job
        \/ job' = [job EXCEPT ![i] = NoJob]
      OBVIOUS
  <2>1. Shape'
    <3>1. lock' \in {lock, Free} /\ handler' \in [Calls -> Handlers]
        BY DEF Shape, Handlers
    <3>2. \A j \in Calls : job'[j].to \in 0 .. Home /\ job'[j].leaves \subseteq Sorts
        BY <2>0 DEF Shape, NoJob, Job
    <3>3. UNCHANGED <<session, worker, process, kids, killing, floor>>
        OBVIOUS
    <3> QED
        BY <3>1, <3>2, <3>3 DEF Shape, TypeOK, Free
  <2>2. Turns'
      BY DEF Turns, Live, Shape
  <2>3. Trees'
      BY DEF Trees, Survivors, Lives, Ended, Shape, TypeOK
  <2> QED
      BY <2>1, <2>2, <2>3
<1>5. ASSUME Stop(i)
      PROVE  IInv'
  <2>0. job' \in {job, [job EXCEPT ![i] = NoJob]}
      BY <1>5 DEF Stop, Leave
  <2>4. \A j \in Calls : job'[j].to \in 0 .. Home /\ job'[j].leaves \subseteq Sorts
    <3>1. \A j \in Calls : job[j].to \in 0 .. Home /\ job[j].leaves \subseteq Sorts
        BY DEF Shape
    <3>2. NoJob.to = 0 /\ NoJob.leaves = {}
        BY DEF NoJob, Job
    <3>3. \A j \in Calls : job'[j] \in {job[j], NoJob}
      <4>1. CASE job' = job
          BY <4>1
      <4>2. CASE job' = [job EXCEPT ![i] = NoJob]
        <5>1. \A j \in Calls : job'[j] = IF j = i /\ i \in DOMAIN job THEN NoJob ELSE job[j]
            BY <4>2
        <5> QED
            BY <5>1
      <4> QED
          BY <2>0, <4>1, <4>2
    <3> QED
        BY <3>1, <3>2, <3>3
  <2> USE <1>5 DEF Stop, Leave
  <2>1. Shape'
    <3>1. lock' \in {lock, Free} /\ handler' \in [Calls -> Handlers]
        BY DEF Shape, Handlers
    <3>3. UNCHANGED <<session, worker, process, kids, killing, floor>>
        OBVIOUS
    <3> QED
        BY <3>1, <2>4, <3>3 DEF Shape, TypeOK, Free
  <2>2. Turns'
      BY DEF Turns, Live, Shape
  <2>3. Trees'
      BY DEF Trees, Survivors, Lives, Ended, Shape, TypeOK
  <2> QED
      BY <2>1, <2>2, <2>3
<1>6. ASSUME StopAgain(i)
      PROVE  IInv'
  <2> USE <1>6 DEF StopAgain, Leave
  <2>1. Shape'
      BY DEF Shape, TypeOK, Handlers, Workers, Places, Login, Nowhere, Free, NoJob, Job
  <2>2. Turns'
      BY DEF Turns, Live, Shape
  <2>3. Trees'
      BY DEF Trees, Survivors, Lives, Ended, Shape, TypeOK
  <2> QED
      BY <2>1, <2>2, <2>3
<1> QED
    BY <1>1, <1>2, <1>3, <1>4, <1>5, <1>6

\* The steps of the script and of the processes it leaves keep it.
LEMMA ScriptHolds ==
  ASSUME IInv, NEW i \in Calls,
         \/ Spawn(i)
         \/ Source(i)
         \/ Eval(i)
         \/ Dump(i)
         \/ Move(i)
         \/ Mark(i)
         \/ Exit(i)
         \/ Fork(i)
         \/ (\E k \in Sorts : KidEnds(i, k))
         \/ Reap(i)
         \/ \E k \in Sorts \cup {"leader"} : Reuse(i, k)
  PROVE  IInv'
<1> USE ShellAssumption DEF IInv, session, coroutine, process, killing
<1>1. ASSUME Spawn(i)
      PROVE  IInv'
  <2> USE <1>1 DEF Spawn, SpawnCommand, SpawnScript, Begin
  <2>1. Shape'
      BY DEF Shape, TypeOK, Handlers, Workers, Places, Login, Nowhere, Free, Safe
  <2>2. Turns'
      BY DEF Turns, Live, Shape
  <2>3. Trees'
      BY DEF Trees, Survivors, Lives, Ended, Shape, TypeOK
  <2> QED
      BY <2>1, <2>2, <2>3
<1>2. ASSUME Source(i)
      PROVE  IInv'
  <2> USE <1>2 DEF Source
  <2>1. Shape'
      BY DEF Shape, TypeOK, Handlers, Workers, Places, Login, Nowhere, Free
  <2>2. Turns'
      BY DEF Turns, Live, Shape
  <2>3. Trees'
      BY DEF Trees, Survivors, Lives, Ended, Shape, TypeOK
  <2> QED
      BY <2>1, <2>2, <2>3
<1>3. ASSUME Eval(i)
      PROVE  IInv'
  <2> USE <1>3 DEF Eval
  <2>1. Shape'
      BY DEF Shape, TypeOK, Handlers, Workers, Places, Login, Nowhere, Free
  <2>2. Turns'
      BY DEF Turns, Live, Shape
  <2>3. Trees'
      BY DEF Trees, Survivors, Lives, Ended, Shape, TypeOK
  <2> QED
      BY <2>1, <2>2, <2>3
<1>4. ASSUME Dump(i)
      PROVE  IInv'
  <2> USE <1>4 DEF Dump, DumpTo
  <2>1. Shape'
      BY DEF Shape, TypeOK, Handlers, Workers, Places, Login, Nowhere, Free
  <2>2. Turns'
      BY DEF Turns, Live, Shape
  <2>3. Trees'
      BY DEF Trees, Survivors, Lives, Ended, Shape, TypeOK
  <2> QED
      BY <2>1, <2>2, <2>3
<1>5. ASSUME Move(i)
      PROVE  IInv'
  <2> USE <1>5 DEF Move
  <2>1. Shape'
      BY DEF Shape, TypeOK, Handlers, Workers, Places, Login, Nowhere, Free
  <2>2. Turns'
      BY DEF Turns, Live, Shape
  <2>3. Trees'
      BY DEF Trees, Survivors, Lives, Ended, Shape, TypeOK
  <2> QED
      BY <2>1, <2>2, <2>3
<1>6. ASSUME Mark(i)
      PROVE  IInv'
  <2> USE <1>6 DEF Mark
  <2>1. Shape'
      BY DEF Shape, TypeOK, Handlers, Workers, Places, Login, Nowhere, Free
  <2>2. Turns'
      BY DEF Turns, Live, Shape
  <2>3. Trees'
      BY DEF Trees, Survivors, Lives, Ended, Shape, TypeOK
  <2> QED
      BY <2>1, <2>2, <2>3
<1>7. ASSUME Exit(i)
      PROVE  IInv'
  <2> USE <1>7 DEF Exit
  <2>1. Shape'
      BY DEF Shape, TypeOK, Handlers, Workers, Places, Login, Nowhere, Free
  <2>2. Turns'
      BY DEF Turns, Live, Shape
  <2>3. Trees'
      BY DEF Trees, Survivors, Lives, Ended, Shape, TypeOK
  <2> QED
      BY <2>1, <2>2, <2>3
<1>8. ASSUME Fork(i)
      PROVE  IInv'
  <2> USE <1>8 DEF Fork
  <2>1. Shape'
      BY DEF Shape, TypeOK, Handlers, Workers, Places, Login, Nowhere, Free, Sorts
  <2>2. Turns'
      BY DEF Turns, Live, Shape
  <2>3. Trees'
      BY DEF Trees, Survivors, Lives, Ended, Shape, TypeOK
  <2> QED
      BY <2>1, <2>2, <2>3
<1>9. ASSUME \E k \in Sorts : KidEnds(i, k)
      PROVE  IInv'
  <2> USE <1>9 DEF KidEnds
  <2>1. Shape'
      BY DEF Shape, TypeOK, Handlers, Workers, Places, Login, Nowhere, Free
  <2>2. Turns'
      BY DEF Turns, Live, Shape
  <2>3. Trees'
      BY DEF Trees, Survivors, Lives, Ended, Shape, TypeOK
  <2> QED
      BY <2>1, <2>2, <2>3
<1>11. ASSUME Reap(i)
      PROVE  IInv'
  <2> USE <1>11 DEF Reap
  <2>1. Shape'
      BY DEF Shape, TypeOK, Handlers, Workers, Places, Login, Nowhere, Free
  <2>2. Turns'
      BY DEF Turns, Live, Shape
  <2>3. Trees'
      BY DEF Trees, Survivors, Lives, Ended, Shape, TypeOK
  <2> QED
      BY <2>1, <2>2, <2>3
<1>10. ASSUME \E k \in Sorts \cup {"leader"} : Reuse(i, k)
      PROVE  IInv'
  <2> USE <1>10 DEF Reuse
  <2>1. Shape'
      BY DEF Shape, TypeOK, Handlers, Workers, Places, Login, Nowhere, Free
  <2>2. Turns'
      BY DEF Turns, Live, Shape
  <2>3. Trees'
      BY DEF Trees, Survivors, Lives, Ended, Shape, TypeOK
  <2> QED
      BY <2>1, <2>2, <2>3
<1> QED
    BY <1>1, <1>2, <1>3, <1>4, <1>5, <1>6, <1>7, <1>8, <1>9, <1>10, <1>11

\* The steps of the worker, from the watch to the report, keep it.
LEMMA WatchHolds ==
  ASSUME IInv, NEW i \in Calls,
         \/ SeeExit(i)
         \/ (\E why \in {"cancelled", "timeout"} : GiveUp(i, why))
         \/ TakeSnapshot(i)
         \/ Term(i)
         \/ (\E k \in Sorts : LookAt(i, k))
         \/ Strike(i)
         \/ RoundEnds(i)
         \/ GraceEnds(i)
         \/ Kill(i)
         \/ Close(i)
         \/ Report(i)
  PROVE  IInv'
<1> USE ShellAssumption DEF IInv, session, coroutine, process, killing
<1>1. ASSUME SeeExit(i)
      PROVE  IInv'
  <2> USE <1>1 DEF SeeExit, Advance
  <2>1. Shape'
      BY DEF Shape, TypeOK, Handlers, Workers, Places, Login, Nowhere, Free
  <2>2. Turns'
      BY DEF Turns, Live, Shape
  <2>3. Trees'
      BY DEF Trees, Survivors, Lives, Ended, Shape, TypeOK
  <2> QED
      BY <2>1, <2>2, <2>3
<1>2. ASSUME \E why \in {"cancelled", "timeout"} : GiveUp(i, why)
      PROVE  IInv'
  <2> USE <1>2 DEF GiveUp, Advance
  <2>1. Shape'
      BY DEF Shape, TypeOK, Handlers, Workers, Places, Login, Nowhere, Free
  <2>2. Turns'
      BY DEF Turns, Live, Shape
  <2>3. Trees'
      BY DEF Trees, Survivors, Lives, Ended, Shape, TypeOK
  <2> QED
      BY <2>1, <2>2, <2>3
<1>3. ASSUME TakeSnapshot(i)
      PROVE  IInv'
  <2> USE <1>3 DEF TakeSnapshot, Advance, Descendants
  <2>1. Shape'
      BY DEF Shape, TypeOK, Handlers, Workers, Places, Login, Nowhere, Free
  <2>2. Turns'
      BY DEF Turns, Live, Shape
  <2>3. Trees'
      BY DEF Trees, Survivors, Lives, Ended, Shape, TypeOK
  <2> QED
      BY <2>1, <2>2, <2>3
<1>4. ASSUME Term(i)
      PROVE  IInv'
  <2> USE <1>4 DEF Term, Advance, SignalGroup
  <2>1. Shape'
      BY DEF Shape, TypeOK, Handlers, Workers, Places, Login, Nowhere, Free
  <2>2. Turns'
      BY DEF Turns, Live, Shape
  <2>3. Trees'
      BY DEF Trees, Survivors, Lives, Ended, Shape, TypeOK
  <2> QED
      BY <2>1, <2>2, <2>3
<1>5. ASSUME GraceEnds(i)
      PROVE  IInv'
  <2> USE <1>5 DEF GraceEnds, Advance, StillThere
  <2>1. Shape'
      BY DEF Shape, TypeOK, Handlers, Workers, Places, Login, Nowhere, Free
  <2>2. Turns'
      BY DEF Turns, Live, Shape
  <2>3. Trees'
      BY DEF Trees, Survivors, Lives, Ended, Shape, TypeOK
  <2> QED
      BY <2>1, <2>2, <2>3
<1>6. ASSUME Kill(i)
      PROVE  IInv'
  <2> USE <1>6 DEF Kill, Advance, SignalGroup
  <2>1. Shape'
      BY DEF Shape, TypeOK, Handlers, Workers, Places, Login, Nowhere, Free
  <2>2. Turns'
      BY DEF Turns, Live, Shape
  <2>3. Trees'
      BY DEF Trees, Survivors, Lives, Ended, Shape, TypeOK
  <2> QED
      BY <2>1, <2>2, <2>3
<1>7. ASSUME Close(i)
      PROVE  IInv'
  <2> USE <1>7 DEF Close, Advance
  <2>1. Shape'
      BY DEF Shape, TypeOK, Handlers, Workers, Places, Login, Nowhere, Free
  <2>2. Turns'
      BY DEF Turns, Live, Shape
  <2>3. Trees'
      BY DEF Trees, Survivors, Lives, Ended, Shape, TypeOK
  <2> QED
      BY <2>1, <2>2, <2>3
<1>8. ASSUME Report(i)
      PROVE  IInv'
  <2> USE <1>8 DEF Report, Advance
  <2>1. Shape'
      BY DEF Shape, TypeOK, Handlers, Workers, Places, Login, Nowhere, Free, NoJob, Job
  <2>2. Turns'
      BY DEF Turns, Live, Shape
  <2>3. Trees'
      BY DEF Trees, Survivors, Lives, Ended, Shape, TypeOK
  <2> QED
      BY <2>1, <2>2, <2>3
<1>9. ASSUME \E k \in Sorts : LookAt(i, k)
      PROVE  IInv'
  <2>1. PICK k \in Sorts : LookAt(i, k)
      BY <1>9
  <2> USE <2>1 DEF LookAt
  <2>2. Shape'
      BY DEF Shape, TypeOK, Handlers, Workers, Places, Login, Nowhere, Free
  <2>3. Turns'
      BY DEF Turns, Live, Shape, Rounds
  <2>4. Trees'
    <3>1. /\ due'[i] = due[i] \ {k} /\ aim'[i] = k /\ aim[i] = "none"
          /\ \A j \in Calls \ {i} : due'[j] = due[j] /\ aim'[j] = aim[j]
        BY DEF Shape
    <3>2. UNCHANGED <<worker, script, kids, tree, verdict>>
        OBVIOUS
    <3>3. \A j \in Calls : due[j] \cup {aim[j]} \subseteq due'[j] \cup {aim'[j], "none"}
        BY <3>1
    <3>4. \A j \in Calls : "none" \notin Survivors(j)
        BY DEF Survivors, Shape, TypeOK, Sorts
    <3>5. \A j \in Calls : Lives(j)' = Lives(j) /\ Survivors(j)' = Survivors(j)
        BY <3>2 DEF Lives, Ended, Survivors
    <3> HIDE <2>1 DEF LookAt
    <3> QED
        BY <3>2, <3>3, <3>4, <3>5 DEF Trees
  <2> QED
      BY <2>2, <2>3, <2>4
<1>10. ASSUME Strike(i)
      PROVE  IInv'
  <2> USE <1>10 DEF Strike
  <2>1. Shape'
      BY DEF Shape, TypeOK, Handlers, Workers, Places, Login, Nowhere, Free
  <2>2. Turns'
      BY DEF Turns, Live, Shape, Rounds
  <2>3. Trees'
      BY DEF Trees, Survivors, Lives, Ended, Shape, TypeOK, Rounds
  <2> QED
      BY <2>1, <2>2, <2>3
<1>11. ASSUME RoundEnds(i)
      PROVE  IInv'
  <2> USE <1>11 DEF RoundEnds, Advance
  <2>1. Shape'
      BY DEF Shape, TypeOK, Handlers, Workers, Places, Login, Nowhere, Free
  <2>2. Turns'
      BY DEF Turns, Live, Shape, Rounds
  <2>3. Trees'
    <3>1. worker[i] = "killing" => ~Lives(i) /\ Survivors(i) = {}
      <4>1. "none" \notin Survivors(i)
          BY DEF Survivors, Shape, TypeOK, Sorts
      <4> QED
          BY <4>1 DEF Trees
    <3>2. /\ worker'[i] = IF worker[i] = "terming" THEN "grace" ELSE "join"
          /\ \A j \in Calls \ {i} : worker'[j] = worker[j] /\ due'[j] = due[j]
          /\ worker[i] \in {"terming", "killing"}
        BY DEF Shape, Rounds
    <3>3. UNCHANGED <<script, kids, tree, verdict, aim>>
        OBVIOUS
    <3>4. \A j \in Calls : Lives(j)' = Lives(j) /\ Survivors(j)' = Survivors(j)
        BY <3>3 DEF Lives, Ended, Survivors
    <3> HIDE <1>11 DEF RoundEnds
    <3>5. ASSUME NEW j \in Calls, j # i
          PROVE  /\ worker'[j] \in {"none", "start"} => script'[j] = "none"
                 /\ worker'[j] \in {"none", "start", "wait", "doomed", "over"} => tree'[j] = {}
                 /\ script'[j] \in {"none", "source", "eval"} => kids'[j] = {} /\ tree'[j] = {}
                 /\ worker'[j] = "killing" =>
                      ~Lives(j)' /\ Survivors(j)' \subseteq due'[j] \cup {aim'[j]}
                 /\ worker'[j] \in {"join", "report"} /\ verdict'[j] # "ok" =>
                      ~Lives(j)' /\ Survivors(j)' = {}
        BY <3>2, <3>3, <3>4, <3>5 DEF Trees
    <3>6. /\ worker'[i] \in {"grace", "join"}
          /\ script'[i] \in {"none", "source", "eval"} => kids'[i] = {} /\ tree'[i] = {}
          /\ worker'[i] = "join" => ~Lives(i)' /\ Survivors(i)' = {}
        BY <3>1, <3>2, <3>3, <3>4 DEF Trees
    <3> QED
        BY <3>5, <3>6 DEF Trees
  <2> QED
      BY <2>1, <2>2, <2>3
<1> QED
    BY <1>1, <1>2, <1>3, <1>4, <1>5, <1>6, <1>7, <1>8, <1>9, <1>10, <1>11

-----------------------------------------------------------------------------
(* The theorems                                                            *)

\* No step leads out of the invariant.
THEOREM InvariantHolds == Spec => []IInv
<1>1. Init => IInv
    BY InitHolds
<1>2. IInv /\ [Next]_vars => IInv'
  <2> SUFFICES ASSUME IInv, [Next]_vars
               PROVE  IInv'
      OBVIOUS
  <2>1. CASE Next
      BY <2>1, CoroutineHolds, ScriptHolds, WatchHolds
      DEF Next, Coroutine, Script, Watch, World, SeeCancel, SeeDeadline
  <2>2. CASE UNCHANGED vars
      BY <2>2 DEF vars, session, process, killing, coroutine, IInv, Shape, TypeOK,
                  Turns, Trees, Live, Lives, Ended, Survivors
  <2> QED
      BY <2>1, <2>2
<1> QED
    BY <1>1, <1>2, PTL DEF Spec

\* A call that reports a timeout or a cancellation leaves none of the processes
\* that hung together with it when it was given up, although they end, fork,
\* ignore SIGTERM and lose their pids to strangers while they are taken down.
THEOREM TreeIsKilled == Spec => []TreeKilled
<1>1. IInv => TreeKilled
    BY DEF IInv, Trees, Survivors, TreeKilled
<1> QED
    BY <1>1, InvariantHolds, PTL

\* Every command starts from a snapshot that is whole, and two workers share
\* the shell only if a stop has cancelled the earlier call twice.
THEOREM SessionIsKept == Spec => []SessionKept
<1>1. IInv => SessionKept
  <2> SUFFICES ASSUME IInv
               PROVE  SessionKept
      OBVIOUS
  <2>1. WholeSession
    <3>1. \A e \in Calls \cup {Login} : e # Half
        BY ShellAssumption DEF Half, Login, Calls
    <3> QED
        BY <3>1 DEF IInv, Shape, WholeSession
  <2>2. OneAtATime
      BY DEF IInv, Shape, Turns, Live, OneAtATime, Calls
  <2> QED
      BY <2>1, <2>2 DEF IInv, Shape, SessionKept
<1> QED
    BY <1>1, InvariantHolds, PTL

(***************************************************************************)
(* The learned files                                                       *)
(***************************************************************************)
-----------------------------------------------------------------------------
(* What the operations of a memory call make of a file                     *)

\* A set of numbers has a least element: what stands for induction below.
LEMMA Least ==
  ASSUME NEW S \in SUBSET Nat, S # {}
  PROVE  \E n \in S : \A m \in S : ~(m < n)
<1> DEFINE R == OpToRel(<, Nat)
<1>1. IsWellFoundedOn(R, Nat)
  BY NatLessThanWellFounded, Zenon
<1>2. \A x, y \in Nat : x < y => <<x, y>> \in R
  BY DEF OpToRel
<1> HIDE DEF R
<1>3. \E x \in S : \A y \in S : ~(<<y, x>> \in R)
  BY <1>1, WFMin
<1> QED BY <1>2, <1>3

\* A recursion on the operations of a call has a solution: a shortest prefix
\* without one would extend the solution of the prefix before it.
LEMMA WorkingDefined ==
  ASSUME NEW ops, Len(ops) \in Nat, NEW w
  PROVE  Working(ops, w) = [i \in 0 .. Len(ops) |->
             IF i = 0 THEN w ELSE Applied(ops[i], Working(ops, w)[i - 1])]
<1> DEFINE Def(g, i) == IF i = 0 THEN w ELSE Applied(ops[i], g[i - 1])
           Solves(g, n) == g = [i \in 0 .. n |-> Def(g, i)]
           Bad == {n \in Nat : ~ \E g : Solves(g, n)}
<1>1. Bad = {}
  <2> SUFFICES ASSUME Bad # {} PROVE FALSE
    OBVIOUS
  <2>1. PICK n \in Bad : \A m \in Bad : ~(m < n)
    BY Least
  <2>2. CASE n = 0
    <3> DEFINE g == [i \in 0 .. 0 |-> w]
    <3>1. Solves(g, 0)
      OBVIOUS
    <3> HIDE DEF g
    <3> QED BY <2>1, <2>2, <3>1
  <2>3. CASE n # 0
    <3>1. n \in Nat /\ n - 1 \in Nat /\ n - 1 < n
      BY <2>1, <2>3
    <3>2. PICK h : Solves(h, n - 1)
      BY <2>1, <3>1
    <3> DEFINE g == [i \in 0 .. n |-> Def(h, i)]
    <3>3. \A i \in 0 .. (n - 1) : g[i] = h[i]
      BY <3>1, <3>2
    <3>4. Solves(g, n)
      <4>1. \A i \in 0 .. n : Def(h, i) = Def(g, i)
        <5> SUFFICES ASSUME NEW i \in 0 .. n PROVE Def(h, i) = Def(g, i)
          OBVIOUS
        <5>1. CASE i = 0
          BY <5>1
        <5>2. CASE i # 0
          <6>1. i - 1 \in 0 .. (n - 1)
            BY <3>1, <5>2
          <6>2. h[i - 1] = g[i - 1]
            BY <3>3, <6>1
          <6> HIDE DEF g
          <6> QED BY <5>2, <6>2
        <5> QED BY <5>1, <5>2
      <4>2. g = [i \in 0 .. n |-> Def(h, i)]
        OBVIOUS
      <4> HIDE DEF g, Def
      <4> QED BY <4>1, <4>2
    <3> HIDE DEF g, Solves
    <3> QED BY <2>1, <3>4
  <2> QED BY <2>2, <2>3
<1>2. \E g : Solves(g, Len(ops))
  BY <1>1
<1>3. Working(ops, w) = CHOOSE g : Solves(g, Len(ops))
  BY DEF Working
<1>4. Solves(Working(ops, w), Len(ops))
  <2> HIDE DEF Solves
  <2> QED BY <1>2, <1>3
<1> QED BY <1>4

\* What the tools make of a file is again a set of entries.
LEMMA OutcomeIsContents ==
  ASSUME NEW k, k.ops \in Seq(Operations), NEW w \in Contents
  PROVE  Outcome(k, w) \in Contents
<1> DEFINE work == Working(k.ops, w)
<1>1. Len(k.ops) \in Nat /\ \A i \in 1 .. Len(k.ops) : k.ops[i] \in Operations
  OBVIOUS
<1>2. work = [i \in 0 .. Len(k.ops) |-> IF i = 0 THEN w ELSE Applied(k.ops[i], work[i - 1])]
  BY <1>1, WorkingDefined
<1> HIDE DEF work
<1> DEFINE Bad == {n \in 0 .. Len(k.ops) : work[n] \notin Contents}
<1>3. Bad = {}
  <2> SUFFICES ASSUME Bad # {} PROVE FALSE
    OBVIOUS
  <2>1. Bad \in SUBSET Nat
    BY <1>1
  <2>2. PICK n \in Bad : \A m \in Bad : ~(m < n)
    BY <2>1, Least
  <2>3. n # 0
    BY <1>1, <1>2, <2>2
  <2>4. n - 1 \in 0 .. Len(k.ops) /\ n - 1 < n /\ n \in 1 .. Len(k.ops)
    BY <1>1, <2>2, <2>3
  <2>5. work[n - 1] \in Contents
    BY <2>2, <2>4
  <2>6. work[n] = Applied(k.ops[n], work[n - 1])
    BY <1>2, <2>4
  <2>7. k.ops[n] \in Operations
    BY <1>1, <2>4
  <2>8. Applied(k.ops[n], work[n - 1]) \in Contents
    BY <2>5, <2>7 DEF Applied, Removed, Operations, Contents, Entries
  <2> QED BY <2>2, <2>6, <2>8
<1>4. work[Len(k.ops)] \in Contents
  BY <1>1, <1>3
<1> QED BY <1>4 DEF Outcome, work

-----------------------------------------------------------------------------
(* Every variable has its type                                             *)

\* The newest events are kept, as many as the journal may hold.
LEMMA KeptIsNewest ==
  ASSUME NEW T, NEW s \in Seq(T)
  PROVE  /\ Kept(s) \in Seq(T)
         /\ Len(Kept(s)) = IF Len(s) > MaxEvents THEN MaxEvents ELSE Len(s)
         /\ \A i \in 1 .. Len(Kept(s)) : Kept(s)[i] = s[i + (Len(s) - Len(Kept(s)))]
<1> DEFINE from == IF Len(s) > MaxEvents THEN Len(s) - MaxEvents + 1 ELSE 1
<1>1. /\ Len(s) \in Nat /\ MaxEvents \in Nat /\ from \in 1 .. Len(s) + 1
      /\ Len(s) - from + 1 = (IF Len(s) > MaxEvents THEN MaxEvents ELSE Len(s))
  BY AuditAssumption
<1>2. Kept(s) = SubSeq(s, from, Len(s))
  BY DEF Kept
<1> HIDE DEF from
<1>3. /\ SubSeq(s, from, Len(s)) \in Seq(T)
      /\ Len(SubSeq(s, from, Len(s))) = (IF from <= Len(s) THEN Len(s) - from + 1 ELSE 0)
      /\ \A i \in 1 .. Len(s) - from + 1 : SubSeq(s, from, Len(s))[i] = s[from + i - 1]
  <2>1. \A i \in from .. Len(s) : s[i] \in T
    BY <1>1
  <2> QED BY <1>1, <2>1
<1>4. Len(Kept(s)) = Len(s) - from + 1
  BY <1>1, <1>2, <1>3
<1>5. Len(Kept(s)) = IF Len(s) > MaxEvents THEN MaxEvents ELSE Len(s)
  BY <1>1, <1>4
<1>6. ASSUME NEW i \in 1 .. Len(Kept(s)) PROVE Kept(s)[i] = s[i + (Len(s) - Len(Kept(s)))]
  <2>1. i \in 1 .. Len(s) - from + 1 /\ from + i - 1 = i + (Len(s) - Len(Kept(s)))
    BY <1>1, <1>4
  <2>2. Kept(s)[i] = s[from + i - 1]
    BY <1>2, <1>3, <2>1
  <2> QED BY <2>1, <2>2
<1> QED BY <1>2, <1>3, <1>5, <1>6

Event == [files : SUBSET Files, was : Images, is : Images]

\* An event that is entered has its type.
LEMMA EnterTypes ==
  ASSUME AuditTypeOK, NEW files \in SUBSET Files, NEW was \in Images, NEW is \in Images,
         EnterEvent(files, was, is)
  PROVE  /\ log' \in Seq(Event) /\ Len(log') <= MaxEvents /\ Len(log') >= Len(log)
         /\ base' \in Images /\ row' = NoRow
<1> DEFINE e == [files |-> files, was |-> was, is |-> is]
<1>1. log \in Seq(Event) /\ base \in Images
  BY DEF AuditTypeOK, Event
<1>2. Append(log, e) \in Seq(Event) /\ Len(Append(log, e)) = Len(log) + 1
  BY <1>1 DEF Event
<1>3. log' = Kept(Append(log, e))
  BY DEF EnterEvent
<1>4. base' \in Images
  BY <1>1 DEF EnterEvent, Images
<1> HIDE DEF e
<1>5. /\ Kept(Append(log, e)) \in Seq(Event)
      /\ Len(Kept(Append(log, e))) = IF Len(log) + 1 > MaxEvents THEN MaxEvents ELSE Len(log) + 1
  BY <1>2, KeptIsNewest
<1>6. Len(log) \in Nat /\ Len(log) <= MaxEvents
  BY <1>1 DEF AuditTypeOK
<1> QED BY <1>3, <1>4, <1>5, <1>6, AuditAssumption DEF EnterEvent

LEMMA NoRowTypes == Empty \in Images /\ NoRow \in [files : SUBSET Files, held : Images]
  BY DEF Empty, NoRow, Images, Contents

Steps == {"idle", "wait", "snapshot", "prepare", "withdraw", "invoke", "compare",
          "discard", "flush", "commit", "undo"}

\* A call that is over leaves nothing behind.
LEMMA EndTypes ==
  ASSUME AuditTypeOK, NEW c \in Chats, EndCall(c)
  PROVE  /\ auditLock' \in Chats \cup {Unheld} /\ pc' \in [Chats -> Steps]
         /\ call' \in [Chats -> Requests \cup {NoCall}]
         /\ before' \in [Chats -> Images] /\ after' \in [Chats -> Images]
         /\ todo' \in [Chats -> SUBSET Files]
         /\ failed' \in [Chats -> BOOLEAN] /\ stopped' \in [Chats -> BOOLEAN]
  BY NoRowTypes DEF AuditTypeOK, EndCall, Goto, Released, Steps

\* One file restored.
LEMMA RestoreTypes ==
  ASSUME AuditTypeOK, NEW files, NEW held \in Images, RestoreOne(files, held)
  PROVE  disk' \in Images
  BY DEF AuditTypeOK, RestoreOne, Differs, Images

\* The initial state has the types.
LEMMA InitTypes ==
  ASSUME AuditInit
  PROVE  AuditTypeOK
  BY AuditAssumption, NoRowTypes DEF AuditInit, AuditTypeOK, Images

\* What a memory call makes of a file on disk.
LEMMA CallTypes ==
  ASSUME AuditTypeOK, NEW c \in Chats
  PROVE  /\ call[c].files \subseteq Files
         /\ \A f \in Files : Outcome(call[c], disk[f]) \in Contents
         /\ ~IsMemory(call[c]) => call[c].text \in Contents
<1>1. call[c] \in Requests \cup {NoCall}
  BY DEF AuditTypeOK
<1>2. call[c].files \subseteq Files /\ call[c].ops \in Seq(Operations)
  <2>1. CASE call[c] \in Requests
    BY <2>1, AuditAssumption
  <2>2. CASE call[c] = NoCall
    <3>1. NoCall.files = {} /\ NoCall.ops = <<>>
      BY DEF NoCall
    <3>2. <<>> \in Seq(Operations)
      OBVIOUS
    <3> QED BY <2>2, <3>1, <3>2
  <2> QED BY <1>1, <2>1, <2>2
<1>3. \A f \in Files : disk[f] \in Contents
  BY DEF AuditTypeOK, Images
<1>4. ~IsMemory(call[c]) => call[c].text \in Contents
  BY <1>1, AuditAssumption DEF NoCall, IsMemory, Contents, Entries
<1> QED BY <1>2, <1>3, <1>4, OutcomeIsContents

\* One entry of one agent's store changed.
LEMMA StoreTypes ==
  ASSUME live \in [Agents -> Images], NEW a, NEW f, NEW new, f \in Files => new \in Contents
  PROVE  [live EXCEPT ![a][f] = new] \in [Agents -> Images]
<1>1. \A b \in Agents : [live[b] EXCEPT ![f] = new] \in Images
  BY DEF Images
<1> QED BY <1>1

\* The steps of a call keep the types.
LEMMA CallStepTypes ==
  ASSUME AuditTypeOK, NEW c \in Chats, Step(c) \/ StopTurn(c)
  PROVE  AuditTypeOK'
<1> USE AuditAssumption, NoRowTypes DEF journal, callVars, GoesOn, Fails, Goto, Steps
<1>1. CASE Lock(c)
  BY <1>1 DEF Lock, AuditTypeOK
<1>2. CASE Snapshot(c)
  <2>1. CASE EndCall(c)
    BY <1>2, <2>1, EndTypes DEF Snapshot, AuditTypeOK
  <2>2. CASE ~EndCall(c)
    BY <1>2, <2>2 DEF Snapshot, AuditTypeOK
  <2> QED BY <2>1, <2>2
<1>3. CASE Prepare(c)
  <2>1. [files |-> call[c].files, held |-> before[c]] \in [files : SUBSET Files, held : Images]
    BY CallTypes DEF AuditTypeOK
  <2>2. row' \in [files : SUBSET Files, held : Images]
    BY <1>3, <2>1 DEF Prepare, AuditTypeOK
  <2>3. CASE EndCall(c)
    BY <1>3, <2>2, <2>3, EndTypes DEF Prepare, AuditTypeOK
  <2>4. CASE ~EndCall(c)
    BY <1>3, <2>2, <2>4 DEF Prepare, AuditTypeOK
  <2> QED BY <2>3, <2>4
<1>4. CASE Withdraw(c)
  BY <1>4, EndTypes DEF Withdraw, AuditTypeOK
<1>5. CASE InvokeMemory(c)
  <2> DEFINE f == Target(call[c])
             new == Outcome(call[c], disk[f])
  <2>1. f \in Files => new \in Contents
    BY CallTypes
  <2>2. [disk EXCEPT ![f] = new] \in Images
    BY <2>1 DEF AuditTypeOK, Images
  <2>3. [live EXCEPT ![AgentOf[c]][f] = new] \in [Agents -> Images]
    BY <2>1, StoreTypes DEF AuditTypeOK
  <2> HIDE DEF f, new
  <2>4. (disk' = [disk EXCEPT ![f] = new] /\ live' = [live EXCEPT ![AgentOf[c]][f] = new])
        \/ UNCHANGED <<disk, live>>
    BY <1>5 DEF InvokeMemory, Reload, f, new
  <2>5. disk' \in Images /\ live' \in [Agents -> Images]
    BY <2>2, <2>3, <2>4 DEF AuditTypeOK
  <2>6. pc' \in [Chats -> Steps] /\ failed' \in [Chats -> BOOLEAN]
    <3>1. Accepts(call[c], Reload(c, Target(call[c]))) \in BOOLEAN
      BY DEF Accepts
    <3> QED BY <1>5, <3>1 DEF InvokeMemory, AuditTypeOK
  <2>7. todo' \in [Chats -> SUBSET Files] /\ mishaps' \in 0 .. MaxMishaps
    BY <1>5 DEF InvokeMemory, AuditTypeOK
  <2> QED BY <1>5, <2>5, <2>6, <2>7 DEF InvokeMemory, AuditTypeOK
<1>6. CASE InvokeSkill(c)
  <2>1. call[c].text \in Contents
    BY <1>6, CallTypes DEF InvokeSkill
  <2>2. \A f \in Files : [disk EXCEPT ![f] = call[c].text] \in Images
    BY <2>1 DEF AuditTypeOK, Images
  <2>3. [f \in Files |-> IF f \in call[c].files THEN before[c][f] ELSE disk[f]] \in Images
    BY DEF AuditTypeOK, Images
  <2>4. todo[c] \subseteq Files
    BY DEF AuditTypeOK
  <2>5. disk' \in Images
    <3>1. \/ \E f \in Files : disk' = [disk EXCEPT ![f] = call[c].text]
          \/ disk' = disk
          \/ disk' = [f \in Files |-> IF f \in call[c].files THEN before[c][f] ELSE disk[f]]
      BY <1>6, <2>4 DEF InvokeSkill
    <3>2. disk \in Images
      BY DEF AuditTypeOK
    <3> QED BY <2>2, <2>3, <3>1, <3>2
  <2>6. /\ pc' \in [Chats -> Steps] /\ failed' \in [Chats -> BOOLEAN]
        /\ todo' \in [Chats -> SUBSET Files] /\ mishaps' \in 0 .. MaxMishaps
    <3>1. CASE UNCHANGED <<failed, mishaps>>
      <4>1. PICK f \in todo[c] :
                /\ todo' = [todo EXCEPT ![c] = @ \ {f}]
                /\ pc' = [pc EXCEPT ![c] = IF todo[c] = {f} THEN "compare" ELSE "invoke"]
        BY <1>6, <3>1 DEF InvokeSkill, AuditTypeOK
      <4> QED BY <3>1, <4>1 DEF AuditTypeOK
    <3>2. CASE /\ mishaps' = mishaps + 1 /\ mishaps < MaxMishaps
               /\ failed' = [failed EXCEPT ![c] = TRUE]
               /\ todo' = [todo EXCEPT ![c] = {}] /\ pc' = [pc EXCEPT ![c] = "compare"]
      BY <3>2 DEF AuditTypeOK
    <3> QED BY <1>6, <3>1, <3>2 DEF InvokeSkill
  <2> QED BY <1>6, <2>5, <2>6 DEF InvokeSkill, AuditTypeOK
<1>7. CASE Compare(c)
  <2>1. pc' \in [Chats -> Steps]
    <3>1. \E where \in Steps : Goto(c, where)
      BY <1>7 DEF Compare
    <3> QED BY <3>1 DEF AuditTypeOK
  <2>2. after' \in [Chats -> Images] /\ mishaps' \in 0 .. MaxMishaps
    BY <1>7 DEF Compare, AuditTypeOK
  <2> QED BY <1>7, <2>1, <2>2 DEF Compare, AuditTypeOK
<1>8. CASE Discard(c)
  <2>1. row' \in [files : SUBSET Files, held : Images]
    BY <1>8 DEF Discard, AuditTypeOK
  <2>2. CASE EndCall(c)
    BY <1>8, <2>1, <2>2, EndTypes DEF Discard, AuditTypeOK
  <2>3. CASE Fails /\ Goto(c, "undo") /\ GoesOn
    BY <1>8, <2>1, <2>3 DEF Discard, AuditTypeOK
  <2> QED BY <1>8, <2>2, <2>3 DEF Discard
<1>9. CASE Flush(c)
  <2>1. pc' \in [Chats -> Steps]
    <3>1. \E where \in Steps : Goto(c, where)
      BY <1>9 DEF Flush
    <3> QED BY <3>1 DEF AuditTypeOK
  <2>2. mishaps' \in 0 .. MaxMishaps
    BY <1>9 DEF Flush, AuditTypeOK
  <2> QED BY <1>9, <2>1, <2>2 DEF Flush, AuditTypeOK
<1>10. CASE Commit(c)
  <2>1. Changed(c, after[c]) \subseteq Files /\ before[c] \in Images /\ after[c] \in Images
    BY CallTypes DEF Changed, AuditTypeOK
  <2>2. CASE EnterEvent(Changed(c, after[c]), before[c], after[c]) /\ EndCall(c)
             /\ UNCHANGED mishaps
    <3>1. /\ log' \in Seq(Event) /\ Len(log') <= MaxEvents /\ Len(log') >= Len(log)
          /\ base' \in Images /\ row' = NoRow
      BY <2>1, <2>2, EnterTypes
    <3>2. Len(log) \in Nat /\ Len(log') \in Nat /\ operator' = operator
      BY <1>10, <3>1 DEF Commit, AuditTypeOK
    <3>3. operator' \in 0 .. Len(log')
      BY <3>1, <3>2 DEF AuditTypeOK
    <3> QED BY <1>10, <2>2, <3>1, <3>3, EndTypes DEF Commit, AuditTypeOK, Event
  <2>3. CASE Fails /\ Goto(c, "undo") /\ GoesOn /\ UNCHANGED journal
    BY <1>10, <2>3 DEF Commit, AuditTypeOK
  <2> QED BY <1>10, <2>2, <2>3 DEF Commit
<1>11. CASE Undo(c)
  <2>1. disk' \in Images
    BY <1>11, RestoreTypes DEF Undo, AuditTypeOK
  <2>2. Refreshed(c) \in [Agents -> Images]
    BY DEF Refreshed, AuditTypeOK, Images
  <2>3. live' \in [Agents -> Images]
    BY <1>11, <2>2 DEF Undo, AuditTypeOK
  <2> QED BY <1>11, <2>1, <2>3, EndTypes DEF Undo, AuditTypeOK
<1>12. CASE StopTurn(c)
  <2>1. CASE pc[c] = "wait"
    BY <1>12, <2>1, EndTypes DEF StopTurn, AuditTypeOK
  <2>2. CASE pc[c] # "wait"
    <3>1. stopped' = [stopped EXCEPT ![c] = TRUE] /\ UNCHANGED <<pc, auditLock, callVars>>
      BY <1>12, <2>2 DEF StopTurn
    <3>2. stopped' \in [Chats -> BOOLEAN]
      BY <3>1 DEF AuditTypeOK
    <3>3. mishaps' \in 0 .. MaxMishaps
      BY <1>12 DEF StopTurn, AuditTypeOK
    <3> QED BY <1>12, <3>1, <3>2, <3>3 DEF StopTurn, AuditTypeOK
  <2> QED BY <2>1, <2>2
<1> QED BY <1>1, <1>2, <1>3, <1>4, <1>5, <1>6, <1>7, <1>8, <1>9, <1>10, <1>11, <1>12 DEF Step

\* So does everything else.
LEMMA OtherStepTypes ==
  ASSUME AuditTypeOK,
         \/ \E c \in Chats, k \in Requests : Preview(c, k)
         \/ Recover \/ StartService \/ Crash \/ RollbackStep
         \/ \E f \in Files : EditOutside(f)
         \/ \E i \in DOMAIN log : Rollback(i)
  PROVE  AuditTypeOK'
<1> USE AuditAssumption, NoRowTypes DEF journal, callVars, GoesOn, Fails, Goto
<1>1. ASSUME NEW c \in Chats, NEW k \in Requests, Preview(c, k) PROVE AuditTypeOK'
  <2> DEFINE f == Target(k)
  <2>1. f \in Files => disk[f] \in Contents
    BY DEF AuditTypeOK, Images
  <2>2. [live EXCEPT ![AgentOf[c]][f] = disk[f]] \in [Agents -> Images]
    BY <2>1, StoreTypes DEF AuditTypeOK
  <2> HIDE DEF f
  <2>3. live' = [live EXCEPT ![AgentOf[c]][f] = disk[f]] \/ live' = live
    BY <1>1 DEF Preview, Reload, f
  <2>4. live' \in [Agents -> Images]
    BY <2>2, <2>3 DEF AuditTypeOK
  <2>5. k.files \subseteq Files
    BY AuditAssumption
  <2>6. /\ pc' \in [Chats -> Steps] /\ call' \in [Chats -> Requests \cup {NoCall}]
        /\ todo' \in [Chats -> SUBSET Files]
    <3>1. CASE UNCHANGED <<pc, call, todo>>
      BY <3>1 DEF AuditTypeOK, Steps
    <3>2. CASE /\ pc' = [pc EXCEPT ![c] = "wait"] /\ call' = [call EXCEPT ![c] = k]
               /\ todo' = [todo EXCEPT ![c] = k.files]
      BY <2>5, <3>2 DEF AuditTypeOK, Steps
    <3> QED BY <1>1, <3>1, <3>2 DEF Preview
  <2>7. calls' \in 0 .. MaxCalls
    BY <1>1 DEF Preview, AuditTypeOK
  <2> QED BY <1>1, <2>4, <2>6, <2>7 DEF Preview, AuditTypeOK, Steps
<1>2. CASE Recover
  <2>1. row.held \in Images
    BY DEF AuditTypeOK
  <2>2. disk' \in Images
    BY <1>2, <2>1, RestoreTypes DEF Recover, AuditTypeOK
  <2> QED BY <1>2, <2>2 DEF Recover, AuditTypeOK
<1>3. CASE StartService
  BY <1>3 DEF StartService, AuditTypeOK
<1>4. CASE Crash
  BY <1>4 DEF Crash, AuditTypeOK
<1>5. CASE RollbackStep
  <2> DEFINE event == log[operator]
  <2>1. event \in Event /\ row.held \in Images
    <3>1. operator \in 1 .. Len(log) /\ log \in Seq(Event)
      BY <1>5 DEF RollbackStep, AuditTypeOK, Event
    <3> QED BY <3>1 DEF AuditTypeOK
  <2>2. event.was \in Images /\ {f \in event.files : row.held[f] # disk[f]} \subseteq Files
    BY <2>1 DEF Event
  <2> HIDE DEF event
  <2>3. CASE RestoreOne(event.files, event.was) /\ UNCHANGED <<journal, operator, mishaps>>
    <3>1. disk' \in Images
      BY <2>2, <2>3, RestoreTypes
    <3> QED BY <1>5, <2>3, <3>1 DEF RollbackStep, AuditTypeOK
  <2>4. CASE /\ EnterEvent({f \in event.files : row.held[f] # disk[f]}, row.held, disk)
             /\ operator' = 0 /\ UNCHANGED <<disk, mishaps>>
    <3>1. /\ log' \in Seq(Event) /\ Len(log') <= MaxEvents /\ Len(log') >= Len(log)
          /\ base' \in Images /\ row' = NoRow
      BY <2>1, <2>2, <2>4, EnterTypes DEF AuditTypeOK
    <3> QED BY <1>5, <2>4, <3>1 DEF RollbackStep, AuditTypeOK, Event
  <2>5. CASE /\ Fails /\ operator' = 0 /\ UNCHANGED <<log, base>>
             /\ \/ /\ disk' = [f \in Files |-> IF f \in row.files THEN row.held[f] ELSE disk[f]]
                   /\ row' = NoRow
                \/ UNCHANGED <<disk, row>>
    <3>1. disk' \in Images
      BY <2>1, <2>5 DEF AuditTypeOK, Images
    <3> QED BY <1>5, <2>5, <3>1 DEF RollbackStep, AuditTypeOK
  <2> QED BY <1>5, <2>3, <2>4, <2>5 DEF RollbackStep, event
<1>6. ASSUME NEW f \in Files, EditOutside(f) PROVE AuditTypeOK'
  <2>1. disk' \in Images
    BY <1>6 DEF EditOutside, AuditTypeOK, Images, Contents
  <2> QED BY <1>6, <2>1 DEF EditOutside, AuditTypeOK
<1>7. ASSUME NEW i \in DOMAIN log, Rollback(i) PROVE AuditTypeOK'
  <2>1. log[i].files \subseteq Files /\ i \in 0 .. Len(log)
    <3>1. log \in Seq(Event) /\ i \in 1 .. Len(log)
      BY DEF AuditTypeOK, Event
    <3>2. log[i] \in Event
      BY <3>1
    <3> QED BY <3>1, <3>2 DEF Event
  <2> QED BY <1>7, <2>1 DEF Rollback, AuditTypeOK
<1> QED BY <1>1, <1>2, <1>3, <1>4, <1>5, <1>6, <1>7

-----------------------------------------------------------------------------
(* The inductive invariant                                                 *)

\* The files whose history is the journal's own.
Ours == Files \ edited

\* Where a call has prepared its event, and where nothing is written yet or
\* nothing has changed after all.
HasEvent == {"withdraw", "invoke", "compare", "discard", "flush", "commit", "undo"}
Unchanged(c) ==
    pc[c] \in {"withdraw", "discard"} \/ (pc[c] = "invoke" /\ IsMemory(call[c]))

\* One call or one rollback at a time, and none in a service that is down.
OneByOne ==
    /\ \A c \in Chats : pc[c] \notin {"idle", "wait"} => auditLock = c
    /\ operator # 0 \/ service = "down" => Quiet
    /\ operator # 0 => service = "up"

\* A call under way is one the model has asked for, and writes its files only.
Asked ==
    \A c \in Chats :
        /\ pc[c] # "idle" => call[c] \in Requests
        /\ todo[c] \subseteq call[c].files

\* The prepared event is that of the call, or of the rollback, under way.
EventIsOurs ==
    /\ \A c \in Chats :
         pc[c] \in HasEvent => row = [files |-> call[c].files, held |-> before[c]]
    /\ operator # 0 => row.files = log[operator].files

\* What it holds, and what a call would prepare when there is none, is what
\* the journal says.
HeldIsBase ==
    /\ \A f \in row.files \cap Ours : row.held[f] = base[f]
    /\ \A c \in Chats : pc[c] = "prepare" /\ row = NoRow =>
         \A f \in Ours : before[c][f] = base[f]

\* What a call has not changed is as the journal says, and its second
\* snapshot is what is on disk.
SeenIsTrue ==
    \A c \in Chats :
        /\ Unchanged(c) => \A f \in Ours : disk[f] = base[f]
        /\ pc[c] \in {"flush", "commit"} =>
             \A f \in call[c].files \cap Ours : after[c][f] = disk[f]

\* A memory call that did not fail has left its outcome.
Done(c, now) ==
    LET f == Target(call[c]) IN f \in Ours => now[f] = Outcome(call[c], base[f])

DoneIsTrue ==
    \A c \in Chats : IsMemory(call[c]) =>
        /\ pc[c] = "compare" /\ ~failed[c] => Done(c, disk)
        /\ pc[c] \in {"flush", "commit"} => Done(c, after[c])

\* The last event of a file says what the journal says of it.
LastIsBase ==
    \A f \in Ours : \A i \in DOMAIN log :
        f \in log[i].files /\ ~(\E m \in DOMAIN log : Later(i, m, f)) => log[i].is[f] = base[f]

\* The inductive invariant.
Learned ==
    /\ OneByOne /\ Asked /\ EventIsOurs /\ HeldIsBase /\ Accounted
    /\ SeenIsTrue /\ DoneIsTrue /\ LastIsBase /\ OneHistory

\* The first state satisfies it.
LEMMA InitLearned ==
  ASSUME AuditInit
  PROVE  Learned
  BY AuditAssumption
  DEF AuditInit, Learned, OneByOne, Asked, EventIsOurs, HeldIsBase, Accounted, SeenIsTrue, DoneIsTrue,
      LastIsBase, OneHistory, HasEvent, Unchanged, Quiet, NoRow

\* While a call is under way the others wait, and no operator is at work.
LEMMA OthersRest ==
  ASSUME AuditTypeOK, OneByOne, NEW c \in Chats, pc[c] \notin {"idle", "wait"}
  PROVE  /\ auditLock = c /\ \A d \in Chats \ {c} : pc[d] \in {"idle", "wait"}
         /\ operator = 0 /\ service = "up"
  BY DEF AuditTypeOK, OneByOne, Quiet

\* A call that ends leaves no call under way.
LEMMA EndRests ==
  ASSUME AuditTypeOK, OneByOne, NEW c \in Chats, pc[c] \notin {"idle", "wait"}, EndCall(c),
         UNCHANGED <<operator, service>>
  PROVE  /\ \A d \in Chats : pc'[d] \in {"idle", "wait"}
         /\ OneByOne' /\ SeenIsTrue' /\ DoneIsTrue' /\ operator' = 0
         /\ Asked => Asked'
<1>1. \A d \in Chats : pc'[d] \in {"idle", "wait"}
  <2>1. pc'[c] = "idle" /\ \A d \in Chats \ {c} : pc'[d] = pc[d]
    BY DEF EndCall, Goto, AuditTypeOK
  <2> QED BY <2>1, OthersRest
<1>2. operator' = 0 /\ service' = "up"
  BY OthersRest
<1>3. Asked => Asked'
  BY DEF EndCall, Goto, AuditTypeOK, Asked, NoCall
<1> QED BY <1>1, <1>2, <1>3 DEF OneByOne, SeenIsTrue, DoneIsTrue, Unchanged

\* A call that ends without touching files or journal leaves them true.
LEMMA EndKeeps ==
  ASSUME AuditTypeOK, Learned, NEW c \in Chats, pc[c] \notin {"idle", "wait"}, EndCall(c),
         UNCHANGED <<disk, journal, operator, service, edited>>
  PROVE  Learned'
<1>1. /\ \A d \in Chats : pc'[d] \in {"idle", "wait"}
      /\ OneByOne' /\ Asked' /\ SeenIsTrue' /\ DoneIsTrue' /\ operator' = 0
  BY EndRests DEF Learned
<1>2. EventIsOurs' /\ HeldIsBase'
  BY <1>1 DEF Learned, EventIsOurs, HeldIsBase, HasEvent, Ours, journal
<1>3. Accounted' /\ LastIsBase' /\ OneHistory'
  BY DEF Learned, Accounted, LastIsBase, OneHistory, Later, Ours, journal
<1> QED BY <1>1, <1>2, <1>3 DEF Learned

\* A call that ends with its event taken back leaves them true when the files
\* are as the journal says.
LEMMA EndUndone ==
  ASSUME AuditTypeOK, Learned, NEW c \in Chats, pc[c] \notin {"idle", "wait"}, EndCall(c),
         row' = NoRow, \A f \in Ours : disk[f] = base[f],
         UNCHANGED <<disk, log, base, operator, service, edited>>
  PROVE  Learned'
<1>1. /\ \A d \in Chats : pc'[d] \in {"idle", "wait"}
      /\ OneByOne' /\ Asked' /\ SeenIsTrue' /\ DoneIsTrue' /\ operator' = 0
  BY EndRests DEF Learned
<1>2. EventIsOurs' /\ HeldIsBase'
  BY <1>1 DEF EventIsOurs, HeldIsBase, HasEvent, NoRow
<1>3. Accounted' /\ LastIsBase' /\ OneHistory'
  BY DEF Learned, Accounted, LastIsBase, OneHistory, Later, Ours
<1> QED BY <1>1, <1>2, <1>3 DEF Learned

\* The history is what it was while the journal's events are.
LEMMA HistoryStands ==
  ASSUME LastIsBase, OneHistory, UNCHANGED <<log, base, edited>>
  PROVE  LastIsBase' /\ OneHistory'
  BY DEF LastIsBase, OneHistory, Later, Ours

\* An event that begins with what the journal says continues the history, the
\* oldest events forgotten.
LEMMA EnterKeeps ==
  ASSUME AuditTypeOK, LastIsBase, OneHistory,
         NEW files \in SUBSET Files, NEW was \in Images, NEW is \in Images,
         EnterEvent(files, was, is), \A f \in files \cap Ours : was[f] = base[f],
         UNCHANGED edited
  PROVE  LastIsBase' /\ OneHistory'
<1> DEFINE e == [files |-> files, was |-> was, is |-> is]
           s == Append(log, e)
           off == Len(s) - Len(Kept(s))
<1>1. /\ log \in Seq(Event) /\ s \in Seq(Event) /\ Len(s) = Len(log) + 1 /\ s[Len(s)] = e
      /\ \A i \in 1 .. Len(log) : s[i] = log[i]
  BY DEF AuditTypeOK, Event
<1>2. /\ log' = Kept(s) /\ base' = [f \in Files |-> IF f \in files THEN is[f] ELSE base[f]]
      /\ Ours' = Ours
  BY DEF EnterEvent, Ours
<1> HIDE DEF s
<1>3. /\ Kept(s) \in Seq(Event) /\ Len(Kept(s)) <= Len(s) /\ Len(s) \in Nat
      /\ \A i \in 1 .. Len(Kept(s)) : Kept(s)[i] = s[i + off]
  <2>1. /\ Kept(s) \in Seq(Event) /\ \A i \in 1 .. Len(Kept(s)) : Kept(s)[i] = s[i + off]
        /\ Len(Kept(s)) = IF Len(s) > MaxEvents THEN MaxEvents ELSE Len(s)
    BY <1>1, KeptIsNewest
  <2>2. Len(Kept(s)) <= Len(s) /\ Len(s) \in Nat
    <3>1. Len(s) \in Nat /\ MaxEvents \in Nat
      BY <1>1, AuditAssumption
    <3> QED BY <2>1, <3>1
  <2> QED BY <2>1, <2>2
<1>4. /\ off \in Nat /\ DOMAIN log' = 1 .. Len(log') /\ Len(log') + off = Len(log) + 1
      /\ Len(log) \in Nat /\ Len(log') \in Nat /\ DOMAIN log = 1 .. Len(log)
      /\ \A i \in 1 .. Len(log') : log'[i] = s[i + off]
  BY <1>1, <1>2, <1>3
<1> HIDE DEF off
<1>5. \A i \in 1 .. Len(log') : i + off <= Len(log) => log'[i] = log[i + off]
  BY <1>1, <1>4
<1>6. \A i \in 1 .. Len(log') : i + off > Len(log) => log'[i] = e /\ i = Len(log')
  <2> SUFFICES ASSUME NEW i \in 1 .. Len(log'), i + off > Len(log)
               PROVE  log'[i] = e /\ i = Len(log')
    OBVIOUS
  <2>1. i = Len(log') /\ i + off = Len(s)
    <3>1. off \in Nat /\ Len(log') \in Nat /\ Len(log) \in Nat
      BY <1>4
    <3>2. Len(log') + off = Len(log) + 1 /\ Len(s) = Len(log) + 1
      BY <1>1, <1>4
    <3> HIDE <1>1, <1>4
    <3> QED BY <3>1, <3>2
  <2> QED BY <1>1, <1>4, <2>1
<1> HIDE DEF e
<1>7. \A i, m \in 1 .. Len(log) : i > off /\ i < m => m - off \in 1 .. Len(log') /\ i - off < m - off
  BY <1>4
<1>8. LastIsBase'
  <2> SUFFICES ASSUME NEW f \in Ours, NEW i \in 1 .. Len(log'), f \in log'[i].files,
                      \A m \in 1 .. Len(log') : ~(i < m /\ f \in log'[m].files)
               PROVE  log'[i].is[f] = base'[f]
    <3> SUFFICES ASSUME NEW f \in Ours, NEW i \in DOMAIN log', f \in log'[i].files,
                        ~(\E m \in DOMAIN log' : Later(i, m, f)')
                 PROVE  log'[i].is[f] = base'[f]
      BY <1>2 DEF LastIsBase
    <3>1. \A m \in 1 .. Len(log') : ~(i < m /\ f \in log'[m].files)
      BY <1>4 DEF Later
    <3> QED BY <1>4, <3>1
  <2>1. CASE i + off > Len(log)
    <3>1. log'[i] = e /\ f \in files /\ f \in Files
      BY <1>6, <2>1 DEF e, Ours
    <3> QED BY <1>2, <3>1 DEF e
  <2>2. CASE i + off <= Len(log)
    <3>1. log'[i] = log[i + off] /\ i + off \in 1 .. Len(log)
      BY <1>4, <1>5, <2>2
    <3>2. ~(\E m \in 1 .. Len(log) : i + off < m /\ f \in log[m].files)
      <4> SUFFICES ASSUME NEW m \in 1 .. Len(log), i + off < m, f \in log[m].files PROVE FALSE
        OBVIOUS
      <4>1. m - off \in 1 .. Len(log') /\ i < m - off /\ (m - off) + off = m
        BY <1>4
      <4>2. log'[m - off] = log[m]
        BY <1>5, <4>1
      <4> QED BY <4>1, <4>2
    <3>3. f \notin files
      <4>1. Len(log') \in 1 .. Len(log') /\ i < Len(log') /\ Len(log') + off > Len(log)
        BY <1>4, <2>2
      <4>2. log'[Len(log')] = e
        BY <1>6, <4>1
      <4> QED BY <4>1, <4>2 DEF e
    <3>4. log[i + off].is[f] = base[f]
      BY <1>4, <3>1, <3>2 DEF LastIsBase, Later
    <3> QED BY <1>2, <3>1, <3>3, <3>4 DEF Ours
  <2> QED BY <1>4, <2>1, <2>2
<1>9. OneHistory'
  <2> SUFFICES ASSUME NEW f \in Ours, NEW i \in 1 .. Len(log'), NEW j \in 1 .. Len(log'),
                      i < j, f \in log'[i].files, f \in log'[j].files,
                      \A m \in 1 .. Len(log') : ~(i < m /\ m < j /\ f \in log'[m].files)
               PROVE  log'[j].was[f] = log'[i].is[f]
    <3> SUFFICES ASSUME NEW f \in Ours, NEW i \in DOMAIN log', NEW j \in DOMAIN log',
                        Later(i, j, f)',
                        ~(\E m \in DOMAIN log' : Later(i, m, f)' /\ Later(m, j, f)')
                 PROVE  log'[j].was[f] = log'[i].is[f]
      BY <1>2 DEF OneHistory, Ours
    <3>1. i < j /\ f \in log'[i].files /\ f \in log'[j].files
      BY DEF Later
    <3>2. \A m \in 1 .. Len(log') : ~(i < m /\ m < j /\ f \in log'[m].files)
      BY <1>4, <3>1 DEF Later
    <3> QED BY <1>4, <3>1, <3>2
  <2>1. log'[i] = log[i + off] /\ i + off \in 1 .. Len(log)
    BY <1>4, <1>5
  <2>2. \A m \in 1 .. Len(log) : ~(i + off < m /\ m < j + off /\ f \in log[m].files)
    <3> SUFFICES ASSUME NEW m \in 1 .. Len(log), i + off < m, m < j + off, f \in log[m].files
                 PROVE  FALSE
      OBVIOUS
    <3>1. m - off \in 1 .. Len(log') /\ i < m - off /\ m - off < j /\ (m - off) + off = m
      BY <1>4
    <3>2. log'[m - off] = log[m]
      BY <1>5, <3>1
    <3> QED BY <3>1, <3>2
  <2>3. CASE j + off <= Len(log)
    <3>1. log'[j] = log[j + off] /\ j + off \in 1 .. Len(log) /\ i + off < j + off
      BY <1>4, <1>5, <2>3
    <3>2. Later(i + off, j + off, f)
      BY <2>1, <3>1 DEF Later
    <3>3. \A m \in DOMAIN log : ~(Later(i + off, m, f) /\ Later(m, j + off, f))
      BY <1>4, <2>2 DEF Later
    <3>4. log[j + off].was[f] = log[i + off].is[f]
      BY <1>4, <2>1, <3>1, <3>2, <3>3 DEF OneHistory, Ours
    <3> QED BY <2>1, <3>1, <3>4
  <2>4. CASE j + off > Len(log)
    <3>1. log'[j] = e /\ j = Len(log') /\ j + off = Len(log) + 1
      BY <1>4, <1>6, <2>4
    <3>2. f \in files /\ log'[j].was[f] = was[f]
      BY <3>1 DEF e
    <3>3. ~(\E m \in 1 .. Len(log) : i + off < m /\ f \in log[m].files)
      BY <2>2, <3>1
    <3>4. log[i + off].is[f] = base[f]
      BY <1>4, <2>1, <3>3 DEF LastIsBase, Later
    <3> QED BY <2>1, <3>2, <3>4
  <2> QED BY <1>4, <2>3, <2>4
<1> QED BY <1>8, <1>9

\* A call that turns to undoing keeps it.
LEMMA ToUndoKeeps ==
  ASSUME AuditTypeOK, Learned, NEW c \in Chats, pc[c] \in HasEvent,
         pc' = [pc EXCEPT ![c] = "undo"],
         UNCHANGED <<disk, journal, operator, service, edited, auditLock, call, before, todo>>
  PROVE  Learned'
<1>1. /\ auditLock = c /\ operator = 0 /\ service = "up"
      /\ \A d \in Chats \ {c} : pc[d] \in {"idle", "wait"}
  BY OthersRest DEF Learned, HasEvent
<1>2. pc'[c] = "undo" /\ \A d \in Chats \ {c} : pc'[d] = pc[d]
  BY DEF AuditTypeOK
<1>3. OneByOne' /\ Asked'
  BY <1>1, <1>2 DEF Learned, OneByOne, Asked, HasEvent
<1>4. EventIsOurs' /\ HeldIsBase'
  BY <1>1, <1>2 DEF Learned, EventIsOurs, HeldIsBase, HasEvent, Ours, journal
<1>5. Accounted' /\ SeenIsTrue' /\ DoneIsTrue'
  BY <1>1, <1>2 DEF Learned, Accounted, SeenIsTrue, DoneIsTrue, Unchanged, journal
<1>6. LastIsBase' /\ OneHistory'
  BY HistoryStands DEF Learned, journal
<1> QED BY <1>3, <1>4, <1>5, <1>6 DEF Learned

\* A file restored from the prepared event is as the journal says.
LEMMA RestoreKeeps ==
  ASSUME AuditTypeOK, Accounted, HeldIsBase, RestoreOne(row.files, row.held),
         UNCHANGED <<row, base, edited>>
  PROVE  Accounted'
<1>1. PICK f \in Differs(row.files, row.held) : disk' = [disk EXCEPT ![f] = row.held[f]]
  BY DEF RestoreOne
<1>2. disk \in [Files -> Contents] /\ f \in row.files
  BY <1>1 DEF Differs, AuditTypeOK, Images
<1> QED BY <1>1, <1>2 DEF Accounted, HeldIsBase, Ours

\* The steps of a call before its tool runs keep it.
LEMMA BeginKeeps ==
  ASSUME AuditTypeOK, Learned, NEW c \in Chats,
         \/ \E k \in Requests : Preview(c, k)
         \/ Lock(c) \/ Snapshot(c) \/ Prepare(c) \/ Withdraw(c)
  PROVE  Learned'
<1> USE DEF journal, Goto
<1>1. ASSUME NEW k \in Requests, Preview(c, k) PROVE Learned'
  <2>1. OneByOne' /\ Asked'
    <3>1. OneByOne'
      BY <1>1 DEF Preview, Learned, OneByOne, Quiet, AuditTypeOK
    <3>2. Asked'
      BY <1>1 DEF Preview, Learned, Asked, AuditTypeOK
    <3> QED BY <3>1, <3>2
  <2>2. EventIsOurs' /\ HeldIsBase'
    BY <1>1 DEF Preview, Learned, EventIsOurs, HeldIsBase, HasEvent, Ours, AuditTypeOK
  <2>3. Accounted' /\ SeenIsTrue' /\ DoneIsTrue'
    BY <1>1 DEF Preview, Learned, Accounted, SeenIsTrue, DoneIsTrue, Done, Unchanged, Ours,
                AuditTypeOK
  <2>4. LastIsBase' /\ OneHistory'
    BY <1>1, HistoryStands DEF Preview, Learned
  <2> QED BY <2>1, <2>2, <2>3, <2>4 DEF Learned
<1>2. CASE Lock(c)
  <2>1. /\ \A d \in Chats : pc[d] \in {"idle", "wait"}
        /\ operator = 0 /\ service = "up"
    BY <1>2, AuditAssumption
    DEF Lock, Available, Learned, OneByOne, Quiet, AuditTypeOK
  <2>2. OneByOne' /\ Asked'
    BY <1>2, <2>1 DEF Lock, callVars, Learned, OneByOne, Asked, AuditTypeOK
  <2>3. EventIsOurs' /\ HeldIsBase'
    BY <1>2, <2>1 DEF Lock, Learned, EventIsOurs, HeldIsBase, HasEvent, Ours, AuditTypeOK
  <2>4. Accounted' /\ SeenIsTrue' /\ DoneIsTrue'
    BY <1>2, <2>1
    DEF Lock, callVars, Learned, Accounted, SeenIsTrue, DoneIsTrue, Unchanged, Ours, AuditTypeOK
  <2>5. LastIsBase' /\ OneHistory'
    BY <1>2, HistoryStands DEF Lock, Learned
  <2> QED BY <2>2, <2>3, <2>4, <2>5 DEF Learned
<1>3. CASE Snapshot(c)
  <2>1. CASE EndCall(c)
    BY <1>3, <2>1, EndKeeps DEF Snapshot
  <2>2. CASE /\ before' = [before EXCEPT ![c] = disk] /\ pc' = [pc EXCEPT ![c] = "prepare"]
             /\ UNCHANGED <<auditLock, stopped, call, after, todo, failed, mishaps>>
    <3>1. /\ pc[c] = "snapshot" /\ auditLock = c /\ operator = 0 /\ service = "up"
          /\ \A d \in Chats \ {c} : pc[d] \in {"idle", "wait"}
          /\ UNCHANGED <<disk, row, log, base, operator, service, edited>>
      BY <1>3, OthersRest DEF Snapshot, Learned
    <3>2. pc' \in [Chats -> Steps] /\ pc'[c] = "prepare" /\ before'[c] = disk
          /\ \A d \in Chats \ {c} : pc'[d] = pc[d]
      BY <2>2 DEF AuditTypeOK, Steps
    <3>3. OneByOne' /\ Asked'
      BY <2>2, <3>1, <3>2 DEF Learned, OneByOne, Asked
    <3>4. EventIsOurs'
      BY <3>1, <3>2 DEF EventIsOurs, HasEvent
    <3>5. HeldIsBase'
      BY <3>1, <3>2 DEF Learned, HeldIsBase, Accounted, Ours, NoRow
    <3>6. Accounted' /\ SeenIsTrue' /\ DoneIsTrue'
      BY <3>1, <3>2 DEF Learned, Accounted, SeenIsTrue, DoneIsTrue, Unchanged
    <3>7. LastIsBase' /\ OneHistory'
      BY <3>1, HistoryStands DEF Learned
    <3> QED BY <3>3, <3>4, <3>5, <3>6, <3>7 DEF Learned
  <2> QED BY <1>3, <2>1, <2>2 DEF Snapshot
<1>4. CASE Prepare(c)
  <2>1. CASE EndCall(c) /\ UNCHANGED row
    BY <1>4, <2>1, EndKeeps DEF Prepare
  <2>2. CASE /\ MayPrepare /\ row' = [files |-> call[c].files, held |-> before[c]]
             /\ pc' = [pc EXCEPT ![c] = IF stopped[c] THEN "withdraw" ELSE "invoke"]
             /\ GoesOn
    <3>1. /\ pc[c] = "prepare" /\ auditLock = c /\ operator = 0 /\ service = "up"
          /\ \A d \in Chats \ {c} : pc[d] \in {"idle", "wait"}
          /\ UNCHANGED <<disk, log, base, operator, service, edited, auditLock, call, before, todo>>
      BY <1>4, <2>2, OthersRest DEF Prepare, Learned, GoesOn, callVars
    <3>2. /\ pc'[c] \in {"withdraw", "invoke"} /\ \A d \in Chats \ {c} : pc'[d] = pc[d]
      BY <2>2 DEF AuditTypeOK
    <3>3. row = NoRow /\ \A f \in Ours : before[c][f] = base[f] /\ disk[f] = base[f]
      BY <2>2, <3>1 DEF MayPrepare, Learned, HeldIsBase, Accounted, Ours, NoRow
    <3>4. OneByOne' /\ Asked'
      BY <3>1, <3>2 DEF Learned, OneByOne, Asked
    <3>5. EventIsOurs'
      BY <2>2, <3>1, <3>2 DEF EventIsOurs, HasEvent
    <3>6. HeldIsBase'
      BY <2>2, <3>1, <3>2, <3>3 DEF HeldIsBase, Ours
    <3>7. Accounted' /\ SeenIsTrue' /\ DoneIsTrue'
      BY <3>1, <3>2, <3>3 DEF Accounted, SeenIsTrue, DoneIsTrue, Unchanged, Ours
    <3>8. LastIsBase' /\ OneHistory'
      BY <3>1, HistoryStands DEF Learned
    <3> QED BY <3>4, <3>5, <3>6, <3>7, <3>8 DEF Learned
  <2> QED BY <1>4, <2>1, <2>2 DEF Prepare
<1>5. CASE Withdraw(c)
  <2>1. \A f \in Ours : disk[f] = base[f]
    BY <1>5 DEF Withdraw, Learned, SeenIsTrue, Unchanged
  <2>2. CASE row' = NoRow
    BY <1>5, <2>1, <2>2, EndUndone DEF Withdraw
  <2>3. CASE UNCHANGED row
    BY <1>5, <2>3, EndKeeps DEF Withdraw
  <2> QED BY <1>5, <2>2, <2>3 DEF Withdraw
<1> QED BY <1>1, <1>2, <1>3, <1>4, <1>5

\* So do the steps of its tool and what follows it.
LEMMA ToolKeeps ==
  ASSUME AuditTypeOK, Learned, NEW c \in Chats,
         InvokeMemory(c) \/ InvokeSkill(c) \/ Compare(c) \/ Discard(c) \/ Flush(c)
  PROVE  Learned'
<1> USE DEF journal, Goto
<1>1. CASE InvokeMemory(c)
  <2> DEFINE f == Target(call[c])
             new == Outcome(call[c], disk[f])
  <2>1. /\ pc[c] = "invoke" /\ IsMemory(call[c]) /\ auditLock = c /\ operator = 0 /\ service = "up"
        /\ \A d \in Chats \ {c} : pc[d] \in {"idle", "wait"}
        /\ UNCHANGED <<row, log, base, operator, service, edited, auditLock, call, before>>
    BY <1>1, OthersRest DEF InvokeMemory, Learned
  <2>2. /\ pc'[c] \in {"compare", "undo"} /\ \A d \in Chats \ {c} : pc'[d] = pc[d]
    BY <1>1 DEF InvokeMemory, AuditTypeOK
  <2>3. row = [files |-> call[c].files, held |-> before[c]] /\ call[c].files \subseteq Files
    BY <2>1, CallTypes DEF Learned, EventIsOurs, HasEvent
  <2>4. \A g \in Ours : disk[g] = base[g]
    BY <2>1 DEF Learned, SeenIsTrue, Unchanged
  <2>5. disk' = [disk EXCEPT ![f] = new] \/ disk' = disk
    BY <1>1 DEF InvokeMemory, Reload
  <2>6. failed'[c] \/ (disk' = [disk EXCEPT ![f] = new] /\ pc'[c] = "compare")
    BY <1>1 DEF InvokeMemory, AuditTypeOK, Reload
  <2>7. f \in call[c].files
    BY <2>1, AuditAssumption DEF Target, Learned, Asked
  <2>8. disk \in [Files -> Contents]
    BY DEF AuditTypeOK, Images
  <2> HIDE DEF new
  <2>9. OneByOne' /\ Asked'
    <3>1. todo'[c] = {} /\ \A d \in Chats \ {c} : todo'[d] = todo[d]
      BY <1>1 DEF InvokeMemory, AuditTypeOK
    <3> QED BY <2>1, <2>2, <3>1 DEF Learned, OneByOne, Asked
  <2>10. EventIsOurs' /\ HeldIsBase'
    BY <2>1, <2>2, <2>3 DEF Learned, EventIsOurs, HeldIsBase, HasEvent, Ours
  <2>11. Accounted'
    BY <2>1, <2>3, <2>4, <2>5, <2>7, <2>8 DEF Learned, Accounted, HeldIsBase, Ours
  <2>12. SeenIsTrue' /\ DoneIsTrue'
    BY <2>1, <2>2, <2>3, <2>4, <2>6, <2>7, <2>8
    DEF SeenIsTrue, DoneIsTrue, Done, Unchanged, Ours, new
  <2>13. LastIsBase' /\ OneHistory'
    BY <2>1, HistoryStands DEF Learned
  <2> QED BY <2>9, <2>10, <2>11, <2>12, <2>13 DEF Learned
<1>2. CASE InvokeSkill(c)
  <2>1. /\ pc[c] = "invoke" /\ ~IsMemory(call[c]) /\ auditLock = c /\ operator = 0
        /\ service = "up" /\ \A d \in Chats \ {c} : pc[d] \in {"idle", "wait"}
        /\ UNCHANGED <<row, log, base, operator, service, edited, auditLock, call, before>>
    BY <1>2, OthersRest DEF InvokeSkill, Learned
  <2>2. /\ pc'[c] \in {"compare", "invoke"} /\ \A d \in Chats \ {c} : pc'[d] = pc[d]
    BY <1>2 DEF InvokeSkill, AuditTypeOK
  <2>3. row = [files |-> call[c].files, held |-> before[c]]
    BY <2>1 DEF Learned, EventIsOurs, HasEvent
  <2>4. todo[c] \subseteq call[c].files /\ disk \in [Files -> Contents]
    BY DEF Learned, Asked, AuditTypeOK, Images
  <2>5. \A f \in Files \ call[c].files : disk'[f] = disk[f]
    BY <1>2, <2>4 DEF InvokeSkill
  <2>6. OneByOne' /\ Asked'
    <3>1. todo'[c] \subseteq todo[c] /\ \A d \in Chats \ {c} : todo'[d] = todo[d]
      BY <1>2 DEF InvokeSkill, AuditTypeOK
    <3> QED BY <2>1, <2>2, <3>1 DEF Learned, OneByOne, Asked
  <2>7. EventIsOurs' /\ HeldIsBase'
    BY <2>1, <2>2, <2>3 DEF Learned, EventIsOurs, HeldIsBase, HasEvent, Ours
  <2>8. Accounted'
    BY <2>1, <2>3, <2>5 DEF Learned, Accounted, HeldIsBase, Ours
  <2>9. SeenIsTrue' /\ DoneIsTrue'
    BY <2>1, <2>2 DEF SeenIsTrue, DoneIsTrue, Unchanged
  <2>10. LastIsBase' /\ OneHistory'
    BY <2>1, HistoryStands DEF Learned
  <2> QED BY <2>6, <2>7, <2>8, <2>9, <2>10 DEF Learned
<1>3. CASE Compare(c)
  <2>1. /\ pc[c] = "compare" /\ auditLock = c /\ operator = 0 /\ service = "up"
        /\ \A d \in Chats \ {c} : pc[d] \in {"idle", "wait"}
        /\ UNCHANGED <<disk, row, log, base, operator, service, edited, auditLock, call, before,
                       failed, todo>>
    BY <1>3, OthersRest DEF Compare, Learned
  <2>2. after'[c] = disk /\ \A d \in Chats \ {c} : pc'[d] = pc[d]
    BY <1>3 DEF Compare, AuditTypeOK
  <2>3. /\ pc'[c] \in {"undo", "discard", "flush"}
        /\ pc'[c] = "discard" => Changed(c, disk) = {}
        /\ pc'[c] = "flush" => ~failed[c]
    BY <1>3 DEF Compare, AuditTypeOK
  <2>4. row = [files |-> call[c].files, held |-> before[c]]
    BY <2>1 DEF Learned, EventIsOurs, HasEvent
  <2>5. OneByOne' /\ Asked'
    BY <2>1, <2>2, <2>3 DEF Learned, OneByOne, Asked
  <2>6. EventIsOurs' /\ HeldIsBase'
    BY <2>1, <2>2, <2>3, <2>4 DEF Learned, EventIsOurs, HeldIsBase, HasEvent, Ours
  <2>7. Accounted'
    BY <2>1 DEF Learned, Accounted
  <2>8. Changed(c, disk) = {} => \A f \in Ours : disk[f] = base[f]
    BY <2>4 DEF Changed, Learned, Accounted, HeldIsBase, Ours
  <2>9. SeenIsTrue'
    BY <2>1, <2>2, <2>3, <2>8 DEF SeenIsTrue, Unchanged, Ours
  <2>10. DoneIsTrue'
    BY <2>1, <2>2, <2>3 DEF Learned, DoneIsTrue, Done, Ours
  <2>11. LastIsBase' /\ OneHistory'
    BY <2>1, HistoryStands DEF Learned
  <2> QED BY <2>5, <2>6, <2>7, <2>9, <2>10, <2>11 DEF Learned
<1>4. CASE Discard(c)
  <2>1. \A f \in Ours : disk[f] = base[f]
    BY <1>4 DEF Discard, Learned, SeenIsTrue, Unchanged
  <2>2. CASE row' = NoRow /\ EndCall(c)
    BY <1>4, <2>1, <2>2, EndUndone DEF Discard
  <2>3. CASE pc' = [pc EXCEPT ![c] = "undo"] /\ GoesOn /\ UNCHANGED row
    <3>1. /\ pc[c] = "discard"
          /\ UNCHANGED <<disk, journal, operator, service, edited, auditLock, call, before, todo>>
      BY <1>4, <2>3 DEF Discard, GoesOn, callVars
    <3> QED BY <2>3, <3>1, ToUndoKeeps DEF HasEvent
  <2> QED BY <1>4, <2>2, <2>3 DEF Discard
<1>5. CASE Flush(c)
  <2>1. /\ pc[c] = "flush"
        /\ UNCHANGED <<disk, journal, operator, service, edited, auditLock, call, before, after,
                       todo>>
    BY <1>5 DEF Flush, callVars
  <2>2. CASE pc' = [pc EXCEPT ![c] = "undo"]
    BY <2>1, <2>2, ToUndoKeeps DEF HasEvent
  <2>3. CASE pc' = [pc EXCEPT ![c] = "commit"]
    <3>1. /\ auditLock = c /\ operator = 0 /\ service = "up"
          /\ \A d \in Chats \ {c} : pc[d] \in {"idle", "wait"}
      BY <2>1, OthersRest DEF Learned
    <3>2. pc'[c] = "commit" /\ \A d \in Chats \ {c} : pc'[d] = pc[d]
      BY <2>3 DEF AuditTypeOK
    <3>3. OneByOne' /\ Asked'
      BY <2>1, <3>1, <3>2 DEF Learned, OneByOne, Asked
    <3>4. EventIsOurs' /\ HeldIsBase'
      BY <2>1, <3>1, <3>2 DEF Learned, EventIsOurs, HeldIsBase, HasEvent, Ours
    <3>5. Accounted' /\ SeenIsTrue' /\ DoneIsTrue'
      BY <2>1, <3>1, <3>2
      DEF Learned, Accounted, SeenIsTrue, DoneIsTrue, Done, Unchanged, Ours
    <3>6. LastIsBase' /\ OneHistory'
      BY <2>1, HistoryStands DEF Learned
    <3> QED BY <3>3, <3>4, <3>5, <3>6 DEF Learned
  <2> QED BY <1>5, <2>2, <2>3 DEF Flush
<1> QED BY <1>1, <1>2, <1>3, <1>4, <1>5

\* The commit of an event, and its undoing.
LEMMA EndStepKeeps ==
  ASSUME AuditTypeOK, Learned, NEW c \in Chats, Commit(c) \/ Undo(c)
  PROVE  Learned'
<1> USE DEF journal, Goto
<1>1. CASE Commit(c)
  <2>1. /\ pc[c] = "commit" /\ UNCHANGED <<disk, live, service, operator, edited, calls>>
        /\ row = [files |-> call[c].files, held |-> before[c]] /\ call[c].files \subseteq Files
    BY <1>1, CallTypes DEF Commit, Learned, EventIsOurs, HasEvent
  <2>2. CASE EnterEvent(Changed(c, after[c]), before[c], after[c]) /\ EndCall(c)
    <3> DEFINE files == Changed(c, after[c])
    <3>1. files \in SUBSET Files /\ before[c] \in Images /\ after[c] \in Images
      BY <2>1 DEF Changed, AuditTypeOK
    <3>2. \A f \in call[c].files \cap Ours : before[c][f] = base[f] /\ after[c][f] = disk[f]
      BY <2>1 DEF Learned, HeldIsBase, SeenIsTrue
    <3>3. \A f \in files \cap Ours : before[c][f] = base[f]
      BY <3>2 DEF Changed
    <3>4. LastIsBase' /\ OneHistory'
      BY <2>1, <2>2, <3>1, <3>3, EnterKeeps DEF Learned
    <3>5. /\ \A d \in Chats : pc'[d] \in {"idle", "wait"}
          /\ OneByOne' /\ Asked' /\ SeenIsTrue' /\ DoneIsTrue' /\ operator' = 0
      BY <2>1, <2>2, EndRests DEF Learned
    <3>6. row' = NoRow /\ base' = [f \in Files |-> IF f \in files THEN after[c][f] ELSE base[f]]
      BY <2>2 DEF EnterEvent
    <3>7. EventIsOurs' /\ HeldIsBase'
      BY <3>5, <3>6 DEF EventIsOurs, HeldIsBase, HasEvent, NoRow
    <3>8. \A f \in Ours : disk[f] = base'[f]
      BY <2>1, <3>2, <3>6 DEF Changed, Learned, Accounted, Ours
    <3>9. Accounted'
      BY <2>1, <3>8 DEF Accounted, Ours
    <3> QED BY <3>4, <3>5, <3>7, <3>9 DEF Learned
  <2>3. CASE pc' = [pc EXCEPT ![c] = "undo"] /\ GoesOn /\ UNCHANGED journal
    BY <2>1, <2>3, ToUndoKeeps DEF HasEvent, GoesOn, callVars
  <2> QED BY <1>1, <2>2, <2>3 DEF Commit
<1>2. CASE Undo(c)
  <2>1. /\ pc[c] = "undo" /\ UNCHANGED <<log, base, service, operator, edited, calls>>
        /\ row = [files |-> call[c].files, held |-> before[c]] /\ call[c].files \subseteq Files
    BY <1>2, CallTypes DEF Undo, Learned, EventIsOurs, HasEvent
  <2>2. CASE RestoreOne(call[c].files, before[c]) /\ GoesOn /\ UNCHANGED <<row, live, pc>>
    <3>1. /\ auditLock = c /\ operator = 0 /\ service = "up"
          /\ \A d \in Chats \ {c} : pc[d] \in {"idle", "wait"}
      BY <2>1, OthersRest DEF Learned
    <3>2. OneByOne' /\ Asked' /\ EventIsOurs' /\ HeldIsBase'
      BY <2>1, <2>2, <3>1
      DEF Learned, OneByOne, Asked, EventIsOurs, HeldIsBase, HasEvent, Ours, GoesOn, callVars,
          Quiet
    <3>3. Accounted'
      BY <2>1, <2>2, RestoreKeeps DEF Learned
    <3>4. SeenIsTrue' /\ DoneIsTrue'
      BY <2>1, <2>2, <3>1 DEF SeenIsTrue, DoneIsTrue, Unchanged, GoesOn, callVars
    <3>5. LastIsBase' /\ OneHistory'
      BY <2>1, HistoryStands DEF Learned
    <3> QED BY <3>2, <3>3, <3>4, <3>5 DEF Learned
  <2>3. CASE Differs(call[c].files, before[c]) = {} /\ row' = NoRow /\ EndCall(c)
             /\ UNCHANGED disk
    <3>1. \A f \in Ours : disk[f] = base[f]
      BY <2>1, <2>3 DEF Differs, Learned, Accounted, HeldIsBase, Ours
    <3> QED BY <2>1, <2>3, <3>1, EndUndone
  <2>4. CASE EndCall(c) /\ UNCHANGED <<disk, row>>
    BY <2>1, <2>4, EndKeeps
  <2> QED BY <1>2, <2>2, <2>3, <2>4 DEF Undo
<1> QED BY <1>1, <1>2

\* Recovery at startup, the start itself, stops, crashes and edits by others.
LEMMA WorldKeeps ==
  ASSUME AuditTypeOK, Learned,
         \/ Recover \/ StartService \/ Crash
         \/ \E c \in Chats : StopTurn(c)
         \/ \E f \in Files : EditOutside(f)
  PROVE  Learned'
<1> USE DEF journal, Goto
<1>1. CASE Recover
  <2>1. /\ Quiet /\ operator = 0
        /\ UNCHANGED <<log, base, service, auditLock, pc, call, todo, before, operator, edited>>
    BY <1>1 DEF Recover, callVars, Learned, OneByOne
  <2>2. OneByOne' /\ Asked' /\ EventIsOurs' /\ SeenIsTrue' /\ DoneIsTrue'
    BY <2>1
    DEF Learned, OneByOne, Asked, EventIsOurs, SeenIsTrue, DoneIsTrue, Unchanged, HasEvent, Quiet
  <2>3. HeldIsBase' /\ Accounted'
    <3>1. CASE RestoreOne(row.files, row.held) /\ UNCHANGED row
      BY <2>1, <3>1, RestoreKeeps DEF Learned, HeldIsBase, Quiet, Ours
    <3>2. CASE Differs(row.files, row.held) = {} /\ row' = NoRow /\ UNCHANGED disk
      <4>1. \A f \in Ours : disk[f] = base[f]
        BY <3>2 DEF Differs, Learned, Accounted, HeldIsBase, Ours
      <4> QED BY <2>1, <3>2, <4>1 DEF Accounted, HeldIsBase, Ours, Quiet, NoRow
    <3> QED BY <1>1, <3>1, <3>2 DEF Recover
  <2>4. LastIsBase' /\ OneHistory'
    BY <2>1, HistoryStands DEF Learned
  <2> QED BY <2>2, <2>3, <2>4 DEF Learned
<1>2. CASE StartService
  <2>1. /\ Quiet /\ operator = 0
        /\ UNCHANGED <<disk, row, log, base, auditLock, pc, call, todo, before, operator, edited>>
    BY <1>2 DEF StartService, callVars, Learned, OneByOne
  <2>2. OneByOne' /\ Asked' /\ EventIsOurs' /\ SeenIsTrue' /\ DoneIsTrue'
    BY <1>2, <2>1
    DEF StartService, Learned, OneByOne, Asked, EventIsOurs, SeenIsTrue, DoneIsTrue, Unchanged,
        HasEvent, Quiet
  <2>3. HeldIsBase' /\ Accounted'
    BY <2>1 DEF Learned, HeldIsBase, Accounted, Quiet, Ours
  <2>4. LastIsBase' /\ OneHistory'
    BY <2>1, HistoryStands DEF Learned
  <2> QED BY <2>2, <2>3, <2>4 DEF Learned
<1>3. CASE Crash
  <2>1. /\ Quiet' /\ operator' = 0 /\ UNCHANGED <<disk, row, log, base, edited>>
    BY <1>3 DEF Crash, Quiet
  <2>2. OneByOne' /\ Asked' /\ EventIsOurs' /\ SeenIsTrue' /\ DoneIsTrue'
    BY <1>3, <2>1
    DEF Crash, OneByOne, Asked, EventIsOurs, SeenIsTrue, DoneIsTrue, Unchanged, HasEvent, Quiet,
        NoCall
  <2>3. HeldIsBase' /\ Accounted'
    BY <2>1 DEF Learned, HeldIsBase, Accounted, Quiet, Ours
  <2>4. LastIsBase' /\ OneHistory'
    BY <2>1, HistoryStands DEF Learned
  <2> QED BY <2>2, <2>3, <2>4 DEF Learned
<1>4. ASSUME NEW c \in Chats, StopTurn(c) PROVE Learned'
  <2>1. UNCHANGED <<disk, row, log, base, service, operator, edited>>
    BY <1>4 DEF StopTurn
  <2>2. CASE pc[c] = "wait" /\ EndCall(c)
    <3>1. /\ pc'[c] = "idle" /\ todo'[c] = {}
          /\ \A d \in Chats \ {c} :
               /\ pc'[d] = pc[d] /\ call'[d] = call[d] /\ todo'[d] = todo[d]
               /\ before'[d] = before[d] /\ after'[d] = after[d] /\ failed'[d] = failed[d]
               /\ auditLock = d => auditLock' = d
      BY <2>2 DEF EndCall, Released, AuditTypeOK
    <3>2. OneByOne' /\ Asked'
      BY <2>1, <2>2, <3>1 DEF Learned, OneByOne, Asked, Quiet
    <3>3. EventIsOurs' /\ HeldIsBase' /\ Accounted'
      BY <2>1, <3>1 DEF Learned, EventIsOurs, HeldIsBase, Accounted, HasEvent, Ours
    <3>4. SeenIsTrue' /\ DoneIsTrue'
      BY <2>1, <3>1 DEF Learned, SeenIsTrue, DoneIsTrue, Done, Unchanged, Ours
    <3>5. LastIsBase' /\ OneHistory'
      BY <2>1, HistoryStands DEF Learned
    <3> QED BY <3>2, <3>3, <3>4, <3>5 DEF Learned
  <2>3. CASE UNCHANGED <<pc, auditLock, callVars>>
    <3>1. OneByOne' /\ Asked' /\ EventIsOurs' /\ HeldIsBase' /\ Accounted'
      BY <2>1, <2>3
      DEF Learned, OneByOne, Asked, EventIsOurs, HeldIsBase, Accounted, HasEvent, Ours, Quiet,
          callVars
    <3>2. SeenIsTrue' /\ DoneIsTrue'
      BY <2>1, <2>3 DEF Learned, SeenIsTrue, DoneIsTrue, Done, Unchanged, Ours, callVars
    <3>3. LastIsBase' /\ OneHistory'
      BY <2>1, HistoryStands DEF Learned
    <3> QED BY <3>1, <3>2, <3>3 DEF Learned
  <2> QED BY <1>4, <2>2, <2>3 DEF StopTurn
<1>5. ASSUME NEW f \in Files, EditOutside(f) PROVE Learned'
  <2>1. /\ UNCHANGED <<row, log, base, service, auditLock, pc, call, before, after, todo, failed,
                       operator>>
        /\ Ours' \subseteq Ours /\ \A g \in Ours' : disk'[g] = disk[g]
    BY <1>5 DEF EditOutside, callVars, Ours, AuditTypeOK, Images
  <2>2. OneByOne' /\ Asked' /\ EventIsOurs'
    BY <2>1 DEF Learned, OneByOne, Asked, EventIsOurs, HasEvent, Quiet
  <2>3. HeldIsBase'
    BY <2>1 DEF Learned, HeldIsBase
  <2>4. Accounted'
    BY <2>1 DEF Learned, Accounted, Ours
  <2>5. SeenIsTrue' /\ DoneIsTrue'
    BY <2>1 DEF Learned, SeenIsTrue, DoneIsTrue, Done, Unchanged
  <2>6. LastIsBase' /\ OneHistory'
    BY <2>1 DEF Learned, LastIsBase, OneHistory, Later, Ours
  <2> QED BY <2>2, <2>3, <2>4, <2>5, <2>6 DEF Learned
<1> QED BY <1>1, <1>2, <1>3, <1>4, <1>5

\* The rollback of an operator.
LEMMA RollbackKeeps ==
  ASSUME AuditTypeOK, Learned,
         \/ RollbackStep
         \/ \E i \in DOMAIN log : Rollback(i)
  PROVE  Learned'
<1> USE DEF journal
<1>1. ASSUME NEW i \in DOMAIN log, Rollback(i) PROVE Learned'
  <2>1. /\ Quiet /\ service = "up" /\ row = NoRow /\ operator' = i
        /\ row' = [files |-> log[i].files, held |-> disk]
        /\ UNCHANGED <<disk, log, base, service, auditLock, pc, call, todo, edited>>
    BY <1>1 DEF Rollback, MayPrepare, callVars
  <2>2. \A f \in Ours : disk[f] = base[f]
    BY <2>1 DEF Learned, Accounted, Ours, NoRow
  <2>3. OneByOne' /\ Asked' /\ EventIsOurs' /\ SeenIsTrue' /\ DoneIsTrue'
    BY <2>1
    DEF Learned, OneByOne, Asked, EventIsOurs, SeenIsTrue, DoneIsTrue, Unchanged, HasEvent, Quiet
  <2>4. HeldIsBase' /\ Accounted'
    BY <2>1, <2>2 DEF HeldIsBase, Accounted, Quiet, Ours
  <2>5. LastIsBase' /\ OneHistory'
    BY <2>1, HistoryStands DEF Learned
  <2> QED BY <2>3, <2>4, <2>5 DEF Learned
<1>2. CASE RollbackStep
  <2> DEFINE event == log[operator]
             files == {f \in event.files : row.held[f] # disk[f]}
  <2>1. /\ operator # 0 /\ Quiet /\ service = "up" /\ row.files = event.files
        /\ UNCHANGED <<service, auditLock, pc, call, todo, edited>>
    BY <1>2 DEF RollbackStep, callVars, Learned, OneByOne, EventIsOurs
  <2>2. event \in Event /\ row.held \in Images
    <3>1. operator \in 1 .. Len(log) /\ log \in Seq(Event)
      BY <2>1 DEF AuditTypeOK, Event
    <3> QED BY <3>1 DEF AuditTypeOK
  <2> HIDE DEF event
  <2>3. SeenIsTrue' /\ DoneIsTrue' /\ Asked'
    BY <2>1 DEF Learned, SeenIsTrue, DoneIsTrue, Unchanged, Asked, Quiet
  <2>4. CASE RestoreOne(event.files, event.was) /\ UNCHANGED <<row, log, base, operator>>
    <3>1. OneByOne' /\ EventIsOurs' /\ HeldIsBase'
      BY <2>1, <2>4
      DEF Learned, OneByOne, EventIsOurs, HeldIsBase, HasEvent, Quiet, Ours
    <3>2. \A f \in Files \ row.files : disk'[f] = disk[f]
      BY <2>1, <2>4 DEF RestoreOne, Differs, AuditTypeOK, Images
    <3>3. Accounted'
      BY <2>1, <2>4, <3>2 DEF Learned, Accounted, HeldIsBase, Ours
    <3>4. LastIsBase' /\ OneHistory'
      BY <2>1, <2>4, HistoryStands DEF Learned
    <3> QED BY <2>3, <3>1, <3>3, <3>4 DEF Learned
  <2>5. CASE EnterEvent(files, row.held, disk) /\ operator' = 0 /\ UNCHANGED disk
    <3>1. files \in SUBSET Files /\ disk \in Images
      BY <2>2 DEF Event, AuditTypeOK
    <3>2. \A f \in event.files \cap Ours : row.held[f] = base[f]
      BY <2>1 DEF Learned, HeldIsBase
    <3>3. LastIsBase' /\ OneHistory'
      <4>1. \A f \in files \cap Ours : row.held[f] = base[f]
        BY <3>2
      <4> HIDE DEF files
      <4> QED BY <2>1, <2>2, <2>5, <3>1, <4>1, EnterKeeps DEF Learned
    <3>4. row' = NoRow /\ base' = [f \in Files |-> IF f \in files THEN disk[f] ELSE base[f]]
      BY <2>5 DEF EnterEvent
    <3>5. OneByOne' /\ EventIsOurs' /\ HeldIsBase'
      BY <2>1, <2>5, <3>4 DEF OneByOne, EventIsOurs, HeldIsBase, HasEvent, Quiet, NoRow
    <3>6. \A f \in Ours : disk[f] = base'[f]
      BY <2>1, <3>2, <3>4 DEF Learned, Accounted, Ours
    <3>7. Accounted'
      BY <2>1, <2>5, <3>6 DEF Accounted, Ours
    <3> QED BY <2>3, <3>3, <3>5, <3>7 DEF Learned
  <2>6. CASE /\ operator' = 0 /\ UNCHANGED <<log, base>>
             /\ \/ /\ disk' = [f \in Files |-> IF f \in row.files THEN row.held[f] ELSE disk[f]]
                   /\ row' = NoRow
                \/ UNCHANGED <<disk, row>>
    <3>1. OneByOne' /\ EventIsOurs' /\ HeldIsBase'
      BY <2>1, <2>6
      DEF Learned, OneByOne, EventIsOurs, HeldIsBase, HasEvent, Quiet, Ours, NoRow
    <3>2. Accounted'
      BY <2>1, <2>6 DEF Learned, Accounted, HeldIsBase, Ours
    <3>3. LastIsBase' /\ OneHistory'
      BY <2>1, <2>6, HistoryStands DEF Learned
    <3> QED BY <2>3, <3>1, <3>2, <3>3 DEF Learned
  <2> QED BY <1>2, <2>4, <2>5, <2>6 DEF RollbackStep, event
<1> QED BY <1>1, <1>2

-----------------------------------------------------------------------------
(* The theorems                                                            *)

\* No step leads out of the invariant.
LEMMA StepLearned ==
  ASSUME AuditTypeOK, Learned, [AuditNext]_auditVars
  PROVE  AuditTypeOK' /\ Learned'
<1>1. ASSUME NEW c \in Chats, Step(c) PROVE AuditTypeOK' /\ Learned'
  BY <1>1, CallStepTypes, BeginKeeps, ToolKeeps, EndStepKeeps DEF Step
<1>2. ASSUME NEW c \in Chats, StopTurn(c) PROVE AuditTypeOK' /\ Learned'
  BY <1>2, CallStepTypes, WorldKeeps
<1>3. ASSUME NEW c \in Chats, NEW k \in Requests, Preview(c, k) PROVE AuditTypeOK' /\ Learned'
  BY <1>3, OtherStepTypes, BeginKeeps
<1>4. ASSUME Recover \/ StartService \/ Crash \/ \E f \in Files : EditOutside(f)
      PROVE  AuditTypeOK' /\ Learned'
  BY <1>4, OtherStepTypes, WorldKeeps
<1>5. ASSUME RollbackStep \/ \E i \in DOMAIN log : Rollback(i) PROVE AuditTypeOK' /\ Learned'
  BY <1>5, OtherStepTypes, RollbackKeeps
<1>6. ASSUME UNCHANGED auditVars PROVE AuditTypeOK' /\ Learned'
  <2>1. AuditTypeOK'
    BY <1>6 DEF auditVars, AuditTypeOK
  <2>2. OneByOne' /\ Asked' /\ EventIsOurs' /\ HeldIsBase' /\ Accounted'
    BY <1>6
    DEF auditVars, Learned, OneByOne, Asked, EventIsOurs, HeldIsBase, Accounted, HasEvent, Ours,
        Quiet
  <2>3. SeenIsTrue' /\ DoneIsTrue'
    BY <1>6 DEF auditVars, Learned, SeenIsTrue, DoneIsTrue, Done, Unchanged, Ours
  <2>4. LastIsBase' /\ OneHistory'
    BY <1>6, HistoryStands DEF auditVars, Learned
  <2> QED BY <2>1, <2>2, <2>3, <2>4 DEF Learned
<1> QED BY <1>1, <1>2, <1>3, <1>4, <1>5, <1>6 DEF AuditNext

\* The invariant holds for any conversations, agents, files, calls and bounds.
THEOREM LearnedHolds == AuditSpec => [](AuditTypeOK /\ Learned)
<1>1. AuditInit => AuditTypeOK /\ Learned
  BY InitTypes, InitLearned
<1>2. (AuditTypeOK /\ Learned) /\ [AuditNext]_auditVars => (AuditTypeOK /\ Learned)'
  BY StepLearned
<1> QED BY <1>1, <1>2, PTL DEF AuditSpec

\* Whatever is on disk the journal says or can bring back, and its events form
\* one history of every file that nobody else has edited.
THEOREM AuditIsTrue == AuditSpec => []AuditTrue
<1>1. AuditTypeOK /\ Learned => AuditTrue
  BY DEF Learned, AuditTrue
<1> QED BY <1>1, LearnedHolds, PTL

\* A committed memory change is the call applied to the file as the journal
\* had left it: no entry of another conversation is lost.
THEOREM NothingIsLost == AuditSpec => NothingLost
<1> DEFINE KeepsAll(c) ==
             pc[c] = "commit" /\ row # NoRow /\ row' = NoRow /\ IsMemory(call[c])
               => LET f == Target(call[c])
                  IN  f \notin edited => after[c][f] = Outcome(call[c], base[f])
<1>1. AuditTypeOK /\ Learned => \A c \in Chats : KeepsAll(c)
  <2> SUFFICES ASSUME AuditTypeOK, Learned, NEW c \in Chats,
                      pc[c] = "commit", IsMemory(call[c]), Target(call[c]) \notin edited
               PROVE  after[c][Target(call[c])] = Outcome(call[c], base[Target(call[c])])
    OBVIOUS
  <2>1. Target(call[c]) \in Files
    <3>1. call[c].files # {} /\ call[c].files \subseteq Files
      BY AuditAssumption DEF Learned, Asked
    <3> QED BY <3>1 DEF Target
  <2> QED BY <2>1 DEF Learned, DoneIsTrue, Done, Ours
<1>2. NothingLost <=> [][\A c \in Chats : KeepsAll(c)]_auditVars
  BY DEF NothingLost
<1> QED BY <1>1, <1>2, LearnedHolds, PTL
=============================================================================
