---------------------------- MODULE ShellSession ----------------------------
(***************************************************************************)
(* The terminal and execute_code tools of one conversation: the shell that *)
(* is kept alive by a snapshot file (tools/shell.py), the tool calls that  *)
(* share its lock (tools/terminal.py, tools/code_execution.py) and the     *)
(* termination of a process tree (process_tree.py).                        *)
(*                                                                         *)
(* A call has three actors: its coroutine (handler), the thread that       *)
(* starts and watches the process (worker), and the script bash or python  *)
(* runs (script) with the processes it leaves behind (kids).  A /stop      *)
(* cancels the coroutine twice: Agent._run_stop_transition cancels the     *)
(* turn, and _await_execution_child once more when it sees the outcome.    *)
(*                                                                         *)
(* Directories form one chain, 0 the root; an environment is the number of *)
(* the call that left it.  Output, quoting and redaction are left out, and *)
(* so is a process that even SIGKILL does not end.                         *)
(***************************************************************************)
EXTENDS Integers

CONSTANTS
    N,          \* bound on the tool calls of the conversation
    Jobs,       \* what a call may ask for
    Home,       \* terminal.cwd, the deepest directory
    Budget      \* bound on stops, failing snapshots and reused pids

Calls == 1 .. N

(* The processes a command leaves: a child, a child in a session of its    *)
(* own, a member of the group whose parent has gone, and what the second   *)
(* one forks later on.                                                     *)
Sorts == {"child", "session", "orphan", "late"}
InGroup == {"child", "orphan"}
Linked == {"child", "session", "late"}

Job(t, to, scoped, leaves, deaf, holds, hangs, clears) ==
    [tool |-> t, to |-> to, scoped |-> scoped, leaves |-> leaves, deaf |-> deaf,
     holds |-> holds, hangs |-> hangs, clears |-> clears]
NoJob == Job("terminal", 0, FALSE, {}, {}, FALSE, FALSE, FALSE)

ASSUME ShellAssumption ==
    /\ N \in Nat
    /\ Home \in Nat /\ Budget \in Nat
    /\ \A b \in Jobs : b.to \in 0 .. Home /\ b.leaves \subseteq Sorts

Free == 0
Login == 0      \* the environment of a login shell
Half == -1      \* a snapshot file that is not complete
Nowhere == -1   \* no marker in the output

VARIABLES
    shell,      \* TerminalSession.shell: "none", "ready", or "login" without snapshot
    lock,       \* TerminalSession.lock
    cwd,        \* Shell.cwd
    floor,      \* the deepest directory that exists
    snapshot,   \* the snapshot file
    job,        \* what each call asked for
    handler,    \* its coroutine
    worker,     \* its thread
    script,     \* its process
    told,       \* cancel_event
    here,       \* the directory of the process
    env,        \* its environment
    said,       \* the directory in its marker
    kids,       \* the processes it has left
    tree,       \* snapshot_linux_descendants
    due,        \* processes of tree that a round of signals has still to look at
    aim,        \* the one it has looked at and is about to signal
    reused,     \* processes whose pid, or group id, names a stranger by now
    verdict,    \* how the worker saw it end
    struck,     \* how a stranger has been signalled: by "pid", by "group"
    left,       \* the coroutine has gone before its worker
    faults

vars == <<shell, lock, cwd, floor, snapshot, job, handler, worker, script, told, here,
          env, said, kids, tree, due, aim, reused, verdict, struck, left, faults>>
session == <<shell, cwd, snapshot>>
coroutine == <<lock, job, handler, told, left>>
process == <<script, here, env, said>>
killing == <<tree, due, aim, reused, verdict, struck>>

Init ==
    /\ shell = "none" /\ lock = Free /\ cwd = Home /\ floor = Home
    /\ snapshot = Login
    /\ job = [i \in Calls |-> NoJob]
    /\ handler = [i \in Calls |-> "new"]
    /\ worker = [i \in Calls |-> "none"]
    /\ script = [i \in Calls |-> "none"]
    /\ told = [i \in Calls |-> FALSE]
    /\ here = [i \in Calls |-> 0]
    /\ env = [i \in Calls |-> Login]
    /\ said = [i \in Calls |-> Nowhere]
    /\ kids = [i \in Calls |-> {}]
    /\ tree = [i \in Calls |-> {}]
    /\ due = [i \in Calls |-> {}]
    /\ aim = [i \in Calls |-> "none"]
    /\ reused = [i \in Calls |-> {}]
    /\ verdict = [i \in Calls |-> "none"]
    /\ struck = {}
    /\ left = {}
    /\ faults = 0

Terminal(i) == job[i].tool = "terminal"
Ended == {"exited", "dead", "reaped"}
Lives(i) == script[i] \notin Ended \cup {"none"}
Live(i) == worker[i] \notin {"none", "over"}
Fault == faults < Budget /\ faults' = faults + 1

(* resolve_safe_cwd: the directory, or the nearest one above it. *)
Safe(d) == IF d <= floor THEN d ELSE floor

(***************************************************************************)
(* The coroutine                                                           *)
(***************************************************************************)
(* run_calls treats both tools as ordered barriers: the next call follows  *)
(* the end of the one before, or a later turn makes it.                    *)
Ask(i) ==
    /\ handler[i] = "new"
    /\ \A j \in Calls : j < i => handler[j] = "over"
    /\ \E b \in Jobs : job' = [job EXCEPT ![i] = b]
    /\ handler' = [handler EXCEPT ![i] = "queued"]
    /\ UNCHANGED <<session, lock, told, left, worker, process, kids, killing, floor, faults>>

Start(i) ==
    /\ handler' = [handler EXCEPT ![i] = "running"]
    /\ worker' = [worker EXCEPT ![i] = "start"]

(* async with session.lock: the shell is made by the first terminal call;  *)
(* a script needs the directory to be there.                               *)
Enter(i) ==
    /\ handler[i] = "queued" /\ lock = Free
    /\ \/ /\ Terminal(i) /\ shell = "none"
          /\ handler' = [handler EXCEPT ![i] = "making"]
          /\ lock' = i
          /\ UNCHANGED worker
       \/ /\ Terminal(i) => shell # "none"
          /\ Terminal(i) \/ cwd <= floor
          /\ Start(i)
          /\ lock' = i
       \/ /\ ~Terminal(i) /\ cwd > floor
          /\ handler' = [handler EXCEPT ![i] = "over"]
          /\ UNCHANGED <<worker, lock>>
    /\ UNCHANGED <<session, job, told, left, process, kids, killing, floor, faults>>

(* init_session: without a snapshot every command runs in a login shell. *)
MakeShell(i) ==
    /\ handler[i] = "making"
    /\ \/ shell' = "ready" /\ UNCHANGED faults
       \/ shell' = "login" /\ Fault
    /\ cwd' = Safe(cwd)
    /\ Start(i)
    /\ UNCHANGED <<lock, job, told, left, snapshot, process, kids, killing, floor>>

(* Mutation: the lock of the session is kept. *)
LeaveLocked(i) ==
    /\ handler' = [handler EXCEPT ![i] = "over"]
    /\ UNCHANGED <<lock, job>>

Leave(i) ==
    /\ handler' = [handler EXCEPT ![i] = "over"]
    /\ lock' = IF lock = i THEN Free ELSE lock
    /\ job' = IF Live(i) THEN job ELSE [job EXCEPT ![i] = NoJob]

(* The worker has ended: the result is returned, or the cancellation       *)
(* raised again.                                                           *)
WorkerEnded(i) == worker[i] = "over"

Return(i) ==
    /\ handler[i] \in {"running", "stopping"}
    /\ WorkerEnded(i)
    /\ Leave(i)
    /\ UNCHANGED <<session, told, left, worker, process, kids, killing, floor, faults>>

(* The first cancellation: before the worker runs the call just ends, and  *)
(* a shell in the making is dropped; afterwards the worker is told.        *)
Stop(i) ==
    /\ Fault
    /\ \/ /\ handler[i] \in {"queued", "making"}
          /\ Leave(i)
          /\ UNCHANGED told
       \/ /\ handler[i] = "running"
          /\ handler' = [handler EXCEPT ![i] = "stopping"]
          /\ told' = [told EXCEPT ![i] = TRUE]
          /\ UNCHANGED <<lock, job>>
    /\ UNCHANGED <<session, left, worker, process, kids, killing, floor>>

(* The second one ends the wait for the worker, and frees the lock.        *)
StopAgain(i) ==
    /\ handler[i] = "stopping"
    /\ Leave(i)
    /\ left' = IF Live(i) THEN left \cup {i} ELSE left
    /\ UNCHANGED <<session, told, worker, process, kids, killing, floor, faults>>

(***************************************************************************)
(* The script                                                              *)
(***************************************************************************)
(* The process starts in a session of its own, in directory d. *)
Begin(i, d, first) ==
    /\ worker[i] = "start"
    /\ worker' = [worker EXCEPT ![i] = "wait"]
    /\ here' = [here EXCEPT ![i] = d]
    /\ script' = [script EXCEPT ![i] = first]
    /\ UNCHANGED <<coroutine, shell, snapshot, env, said, kids, killing, floor, faults>>

(* Shell.execute up to the spawn: the session's directory is repaired      *)
(* first; a directory named for this command alone that is not there ends  *)
(* the script with 126.                                                    *)
SpawnCommand(i) ==
    /\ Terminal(i)
    /\ cwd' = Safe(cwd)
    /\ LET d == IF job[i].scoped THEN job[i].to ELSE cwd'
       IN  Begin(i, d, IF d > floor THEN "exited"
                       ELSE IF shell = "ready" THEN "source" ELSE "eval")

SpawnScript(i) ==
    /\ ~Terminal(i)
    /\ Begin(i, cwd, "eval")
    /\ UNCHANGED cwd

Spawn(i) == SpawnCommand(i) \/ SpawnScript(i)

Source(i) ==
    /\ script[i] = "source"
    /\ env' = [env EXCEPT ![i] = snapshot]
    /\ script' = [script EXCEPT ![i] = "eval"]
    /\ UNCHANGED <<coroutine, session, worker, here, said, kids, killing, floor, faults>>

(* The command itself: it exports, moves, may remove the directory it      *)
(* stands in, leaves processes, and may not come back.                     *)
Eval(i) ==
    /\ script[i] = "eval"
    /\ env' = [env EXCEPT ![i] = i]
    /\ here' = [here EXCEPT ![i] = IF job[i].to <= floor THEN job[i].to ELSE @]
    /\ floor' = IF job[i].clears /\ here'[i] \in 1 .. floor THEN here'[i] - 1 ELSE floor
    /\ kids' = [kids EXCEPT ![i] = job[i].leaves]
    /\ script' = [script EXCEPT ![i] =
           IF job[i].hangs THEN "stuck"
           ELSE IF ~Terminal(i) THEN "exited"
           ELSE IF shell = "ready" THEN "dump" ELSE "mark"]
    /\ UNCHANGED <<coroutine, session, worker, said, killing, faults>>

(* Mutation: the dump overwrites the snapshot in place. *)
DumpInPlace(i) == Half

(* _snapshot_dump goes to a file of mktemp's, which mv puts in place. *)
DumpTo(i) == snapshot

Dump(i) ==
    /\ script[i] = "dump"
    /\ snapshot' = DumpTo(i)
    /\ script' = [script EXCEPT ![i] = "move"]
    /\ UNCHANGED <<coroutine, shell, cwd, worker, here, env, said, kids, killing, floor, faults>>

Move(i) ==
    /\ script[i] = "move"
    /\ snapshot' = env[i]
    /\ script' = [script EXCEPT ![i] = "mark"]
    /\ UNCHANGED <<coroutine, shell, cwd, worker, here, env, said, kids, killing, floor, faults>>

Mark(i) ==
    /\ script[i] = "mark"
    /\ said' = [said EXCEPT ![i] = here[i]]
    /\ script' = [script EXCEPT ![i] = "leaving"]
    /\ UNCHANGED <<coroutine, session, worker, here, env, kids, killing, floor, faults>>

Exit(i) ==
    /\ script[i] = "leaving"
    /\ script' = [script EXCEPT ![i] = "exited"]
    /\ UNCHANGED <<coroutine, session, worker, here, env, said, kids, killing, floor, faults>>

Fork(i) ==
    /\ "session" \in kids[i] /\ "late" \notin kids[i] \cup tree[i] /\ Live(i)
    /\ kids' = [kids EXCEPT ![i] = @ \cup {"late"}]
    /\ UNCHANGED <<coroutine, session, worker, process, killing, floor, faults>>

(* Where terminate_process_tree is: the rounds of SIGTERM and of SIGKILL   *)
(* begin with the group and go on with the processes of the snapshot.      *)
Rounds == {"terming", "killing"}
Hunting == {"doomed", "term", "grace", "kill"} \cup Rounds

(* A process that is left ends by itself. What matters is while the tree   *)
(* is taken down, and while the worker waits for its pipe.                 *)
KidEnds(i, k) ==
    /\ k \in kids[i] /\ worker[i] \in Hunting \cup {"join"}
    /\ kids' = [kids EXCEPT ![i] = @ \ {k}]
    /\ UNCHANGED <<coroutine, session, worker, process, killing, floor, faults>>

(* process.poll() reaps the leader: that of _wait_for_exit, and at any     *)
(* moment that of the thread which drains a terminal's pipe.               *)
Reap(i) ==
    /\ script[i] \in {"exited", "dead"}
    /\ worker[i] = "grace" \/ (Terminal(i) /\ worker[i] \in Hunting)
    /\ script' = [script EXCEPT ![i] = "reaped"]
    /\ UNCHANGED <<coroutine, session, worker, here, env, said, kids, killing, floor, faults>>

(* The pids the kernel may give away: those of processes that have gone;   *)
(* the leader's, and that of a child with a session of its own, only when  *)
(* no process of its group is left.                                        *)
Freed(i) ==
    {k \in tree[i] \ kids[i] : k = "session" => "late" \notin kids[i]}
    \cup {k \in {"leader"} : script[i] = "reaped" /\ kids[i] \cap InGroup = {}}

Reuse(i, k) ==
    /\ k \in Freed(i) \ reused[i] /\ worker[i] \in Hunting
    /\ reused' = [reused EXCEPT ![i] = @ \cup {k}]
    /\ Fault
    /\ UNCHANGED <<coroutine, session, worker, process, kids, tree, due, aim, verdict,
                   struck, floor>>

(***************************************************************************)
(* The worker                                                              *)
(***************************************************************************)
Advance(i, w) == worker' = [worker EXCEPT ![i] = w]

(* The watching loop asks for the exit first, then for the cancellation,   *)
(* then for the deadline.                                                  *)
SeeExit(i) ==
    /\ worker[i] = "wait" /\ ~Lives(i)
    /\ Advance(i, "join")
    /\ verdict' = [verdict EXCEPT ![i] = "ok"]
    /\ UNCHANGED <<coroutine, session, process, kids, tree, due, aim, reused, struck, floor, faults>>

GiveUp(i, why) ==
    /\ worker[i] = "wait" /\ Lives(i)
    /\ Advance(i, "doomed")
    /\ verdict' = [verdict EXCEPT ![i] = why]
    /\ UNCHANGED <<coroutine, session, process, kids, tree, due, aim, reused, struck, floor, faults>>

SeeCancel(i) == told[i] /\ GiveUp(i, "cancelled")
SeeDeadline(i) == ~told[i] /\ GiveUp(i, "timeout")

(* snapshot_linux_descendants: whoever hangs together with the leader now. *)
Descendants(i) ==
    IF ~Lives(i) THEN {}
    ELSE kids[i] \cap (Linked \ (IF "session" \in kids[i] THEN {} ELSE {"late"}))

TakeSnapshot(i) ==
    /\ worker[i] = "doomed"
    /\ Advance(i, "term")
    /\ tree' = [tree EXCEPT ![i] = Descendants(i)]
    /\ UNCHANGED <<coroutine, session, process, kids, due, aim, reused, verdict, struck, floor,
                   faults>>

(* signal_leader: killpg reaches whoever is in the group of that number.   *)
SignalGroup(i, ignore) ==
    /\ kids' = [kids EXCEPT ![i] = @ \ (InGroup \ ignore)]
    /\ script' = [script EXCEPT ![i] = IF Lives(i) /\ "leader" \notin ignore THEN "dead" ELSE @]
    /\ struck' = IF "leader" \in reused[i] THEN struck \cup {"group"} ELSE struck
    /\ due' = [due EXCEPT ![i] = tree[i]]
    /\ UNCHANGED <<coroutine, session, here, env, said, tree, aim, reused, verdict, floor,
                   faults>>

Term(i) == worker[i] = "term" /\ SignalGroup(i, job[i].deaf) /\ Advance(i, "terming")
Kill(i) == worker[i] = "kill" /\ SignalGroup(i, {}) /\ Advance(i, "killing")

(* _identity_alive: the pid of the snapshot still has its start time. *)
Survivors(i) == kids[i] \cap tree[i]

(* _signal_identity, the first half: the identity is looked at. (A look    *)
(* that finds the process gone changes nothing.)                           *)
LookAt(i, k) ==
    /\ worker[i] \in Rounds /\ aim[i] = "none" /\ k \in due[i] \cap Survivors(i)
    /\ due' = [due EXCEPT ![i] = @ \ {k}]
    /\ aim' = [aim EXCEPT ![i] = k]
    /\ UNCHANGED <<coroutine, session, worker, process, kids, tree, reused, verdict, struck,
                   floor, faults>>

(* The second half: os.kill goes to whoever has the pid by now.            *)
Strike(i) ==
    /\ worker[i] \in Rounds /\ aim[i] # "none"
    /\ kids' = [kids EXCEPT ![i] =
           IF worker[i] = "terming" /\ aim[i] \in job[i].deaf THEN @ ELSE @ \ {aim[i]}]
    /\ struck' = IF aim[i] \in reused[i] THEN struck \cup {"pid"} ELSE struck
    /\ aim' = [aim EXCEPT ![i] = "none"]
    /\ UNCHANGED <<coroutine, session, worker, process, tree, due, reused, verdict, floor, faults>>

RoundEnds(i) ==
    /\ worker[i] \in Rounds /\ aim[i] = "none" /\ due[i] \cap Survivors(i) = {}
    /\ due' = [due EXCEPT ![i] = {}]
    /\ Advance(i, IF worker[i] = "terming" THEN "grace" ELSE "join")
    /\ UNCHANGED <<coroutine, session, process, kids, tree, aim, reused, verdict, struck,
                   floor, faults>>

(* Mutation: only the leader is waited for. *)
LeaderOnly(i) == Lives(i)

(* _wait_for_exit looks at the leader and the snapshot, not at the group.  *)
StillThere(i) == Lives(i) \/ Survivors(i) # {}

(* Its last look, which reaps a leader that has ended.                     *)
GraceEnds(i) ==
    /\ worker[i] = "grace"
    /\ script' = [script EXCEPT ![i] = IF Lives(i) THEN @ ELSE "reaped"]
    /\ Advance(i, IF StillThere(i) THEN "kill" ELSE "join")
    /\ UNCHANGED <<coroutine, session, here, env, said, kids, killing, floor, faults>>

(* The readers are joined for a bounded time.  A terminal's pipe is read   *)
(* by its descriptor and closes at once; a script's pipe is read through a *)
(* buffer whose lock the reader keeps, so that closing it waits until the  *)
(* last process that holds the other end has gone.                         *)
Held(i) == ~Terminal(i) /\ job[i].holds /\ kids[i] # {}

Close(i) ==
    /\ worker[i] = "join"
    /\ ~Held(i)
    /\ Advance(i, "report")
    /\ UNCHANGED <<coroutine, session, process, kids, killing, floor, faults>>

(* _update_cwd: the marked directory, if it is still there and the command *)
(* was not given one of its own.  The model forgets the process.           *)
Report(i) ==
    /\ worker[i] = "report"
    /\ Advance(i, "over")
    /\ cwd' = IF said[i] # Nowhere /\ ~job[i].scoped /\ said[i] <= floor
              THEN said[i] ELSE cwd
    /\ job' = IF handler[i] = "over" THEN [job EXCEPT ![i] = NoJob] ELSE job
    /\ script' = [script EXCEPT ![i] = "none"]
    /\ here' = [here EXCEPT ![i] = 0]
    /\ env' = [env EXCEPT ![i] = Login]
    /\ said' = [said EXCEPT ![i] = Nowhere]
    /\ kids' = [kids EXCEPT ![i] = {}]
    /\ tree' = [tree EXCEPT ![i] = {}]
    /\ due' = [due EXCEPT ![i] = {}]
    /\ aim' = [aim EXCEPT ![i] = "none"]
    /\ reused' = [reused EXCEPT ![i] = {}]
    /\ verdict' = [verdict EXCEPT ![i] = "none"]
    /\ UNCHANGED <<lock, handler, told, left, shell, snapshot, struck, floor, faults>>

-----------------------------------------------------------------------------
Script(i) == Source(i) \/ Eval(i) \/ Dump(i) \/ Move(i) \/ Mark(i) \/ Exit(i)
Watch(i) == SeeExit(i) \/ SeeCancel(i) \/ SeeDeadline(i) \/ TakeSnapshot(i)
            \/ Term(i) \/ (\E k \in Sorts : LookAt(i, k)) \/ Strike(i) \/ RoundEnds(i)
            \/ GraceEnds(i) \/ Kill(i) \/ Close(i) \/ Report(i)
Coroutine(i) == Enter(i) \/ MakeShell(i) \/ Return(i)
World(i) == Ask(i) \/ Stop(i) \/ StopAgain(i) \/ Fork(i) \/ Reap(i)
            \/ (\E k \in Sorts : KidEnds(i, k))
            \/ \E k \in Sorts \cup {"leader"} : Reuse(i, k)

Next == \E i \in Calls : Coroutine(i) \/ Spawn(i) \/ Script(i) \/ Watch(i) \/ World(i)

Spec == Init /\ [][Next]_vars

(* The event loop runs what is ready, threads are scheduled, deadlines     *)
(* pass.  Nothing is assumed of the user, of the kernel's pids or of the   *)
(* processes that are left behind; a script need not come to an end.       *)
FairSpec == Spec /\ \A i \in Calls :
    WF_vars(Coroutine(i)) /\ WF_vars(Spawn(i)) /\ WF_vars(Watch(i))

-----------------------------------------------------------------------------
TypeOK ==
    /\ shell \in {"none", "ready", "login"} /\ lock \in Calls \cup {Free}
    /\ cwd \in 0 .. Home /\ floor \in 0 .. Home /\ snapshot \in Calls \cup {Login}
    /\ kids \in [Calls -> SUBSET Sorts] /\ tree \in [Calls -> SUBSET Sorts]

(* A call that reports a timeout or a cancellation has no process left of  *)
(* those that hung together with it when it was given up, whatever their   *)
(* sessions and signal handlers.                                           *)
TreeKilled == \A i \in Calls :
    worker[i] = "report" /\ verdict[i] \in {"cancelled", "timeout"} =>
        ~Lives(i) /\ kids[i] \cap tree[i] = {}

(* "Signal only when PID still names the snapshotted process"              *)
(* (_signal_identity): between its two halves the process may end, and its *)
(* pid be given to a stranger.                                             *)
PidIsItsOwn == "pid" \notin struck

(* "identity-aware subprocess tree termination": the group is signalled by *)
(* its number alone, also when the leader has been reaped and nothing is   *)
(* left of the group.                                                      *)
GroupIsItsOwn == "group" \notin struck

(* No command starts from half a session, although the one before may be   *)
(* killed in the middle of saving it or may still be saving it.            *)
WholeSession == \A i \in Calls : env[i] # Half

(* Two workers share the shell only if a stop has cancelled the earlier    *)
(* call twice.                                                             *)
OneAtATime == \A i, j \in Calls : i < j /\ Live(i) /\ Live(j) => i \in left

(* What the doc string of _kill_process says: the group goes as a whole. *)
GroupKilled == \A i \in Calls :
    worker[i] = "report" /\ verdict[i] \in {"cancelled", "timeout"} =>
        kids[i] \cap InGroup = {}

(* Every call comes to an end, even one whose command never does, unless   *)
(* it is a script that has left a process on its pipe.                     *)
CallEnds == []<>(\A i \in Calls : handler[i] \in {"new", "over"} \/ Held(i))

(* The hard timeout of a script: every call ends. *)
TimeoutIsHard == []<>(\A i \in Calls : handler[i] \in {"new", "over"})

(* The same, grouped as the run checks them                                *)

(* No command starts from half a snapshot, and two workers share the shell *)
(* only if the earlier call was cancelled twice.  (A call killed between   *)
(* Move and Mark does leave its snapshot without its directory.)           *)
SessionKept == TypeOK /\ WholeSession /\ OneAtATime
=============================================================================
