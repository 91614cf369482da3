-------------------------- MODULE PersistenceAudit --------------------------
(***************************************************************************)
(* What the agent learns: the memory files and skill files that a          *)
(* conversation may change, the memory stores of the agents                *)
(* (tools/memory.py), the journal that prepares, commits or undoes each    *)
(* change (persistence.py), the dispatch of a tool call through it         *)
(* (tools/registry.py) and the recovery of a prepared change at startup    *)
(* (main.py).                                                              *)
(*                                                                         *)
(* A file is the set of its entries; an absent file is the empty set. The  *)
(* journal keeps what a file held, its digest stands for its entries.      *)
(***************************************************************************)
EXTENDS Integers, Sequences, FiniteSets

CONSTANTS
    Chats,      \* conversations of the foreground, one tool call at a time
    Agents,     \* agents, one for each channel, with a memory store each
    AgentOf,    \* the agent of each conversation
    Memories,   \* memory files: MEMORY.md, USER.md
    Skills,     \* files below skills/
    Facts,      \* entries the tools may write
    Blob,       \* what only somebody else writes: no entry of the tools
    Requests,   \* the calls the model may ask for
    Disks,      \* what the files may hold when the service is first started
    MaxFacts,   \* entries that fit in a memory file
    MaxEvents,  \* MAX_COMMITTED_EVENTS
    MaxCalls,   \* bound on calls
    MaxMishaps  \* bound on failures, stops, restarts and edits from outside

Files == Memories \cup Skills
Entries == Facts \cup {Blob}
Contents == SUBSET Entries

Operations == [kind : {"add"}, new : Facts]
              \cup [kind : {"replace"}, old : Facts, new : Facts]
              \cup [kind : {"remove"}, old : Facts]
Unheld == "free"

ASSUME AuditAssumption ==
    /\ AgentOf \in [Chats -> Agents]
    /\ Memories \cap Skills = {}
    /\ \A k \in Requests :
         /\ k.files \subseteq Files /\ k.files # {}
         /\ k.ops \in Seq(Operations)
         /\ k.files \subseteq Memories \/ k.text \subseteq Facts
    /\ Unheld \notin Chats
    /\ Disks \subseteq [Files -> Contents]
    /\ MaxEvents \in Nat /\ MaxCalls \in Nat /\ MaxMishaps \in Nat

VARIABLES
    disk,       \* the files
    row,        \* the prepared event of the journal: its files, what they held
    log,        \* its committed events, the oldest first
    live,       \* MemoryStore.memory_entries, user_entries of each agent
    service,    \* "up", or "down" until recover_prepared is through
    auditLock,  \* PersistenceAuditStore._lock
    pc,         \* where each conversation's call is
    call,       \* the call
    before,     \* the first snapshot of the call
    after,      \* the second one
    todo,       \* the files its handler has still to write
    failed,     \* the tool reported a failure
    stopped,    \* /stop has cancelled the turn
    operator,   \* the event an operator's rollback is undoing, or 0
    edited,     \* files that somebody else has edited
    base,       \* what the journal says of each file
    calls, mishaps

auditVars == <<disk, row, log, live, service, auditLock, pc, call, before, after, todo,
          failed, stopped, operator, edited, base, calls, mishaps>>
journal == <<row, log, base>>
callVars == <<call, before, after, todo, failed>>

Empty == [f \in Files |-> {}]
NoRow == [files |-> {}, held |-> Empty]
NoCall == [files |-> {}, ops |-> <<>>, batch |-> FALSE]

AuditInit ==
    /\ disk \in Disks
    /\ row = NoRow /\ log = <<>>
    /\ live = [a \in Agents |-> disk]
    /\ service = "up" /\ auditLock = Unheld
    /\ pc = [c \in Chats |-> "idle"]
    /\ call = [c \in Chats |-> NoCall]
    /\ before = [c \in Chats |-> Empty]
    /\ after = [c \in Chats |-> Empty]
    /\ todo = [c \in Chats |-> {}]
    /\ failed = [c \in Chats |-> FALSE]
    /\ stopped = [c \in Chats |-> FALSE]
    /\ operator = 0
    /\ edited = {} /\ base = disk
    /\ calls = 0 /\ mishaps = 0

Goto(c, where) == pc' = [pc EXCEPT ![c] = where]

(* Mutation: a call that /stop has cancelled keeps the lock. *)
HeldByStopped(c) == IF auditLock = c /\ ~stopped[c] THEN Unheld ELSE auditLock

Released(c) == IF auditLock = c THEN Unheld ELSE auditLock

(* The call is over: the lock is given back, the cancellation delivered.   *)
EndCall(c) ==
    /\ Goto(c, "idle")
    /\ auditLock' = Released(c)
    /\ stopped' = [stopped EXCEPT ![c] = FALSE]
    /\ call' = [call EXCEPT ![c] = NoCall]
    /\ before' = [before EXCEPT ![c] = Empty]
    /\ after' = [after EXCEPT ![c] = Empty]
    /\ todo' = [todo EXCEPT ![c] = {}]
    /\ failed' = [failed EXCEPT ![c] = FALSE]

GoesOn == UNCHANGED <<auditLock, stopped, callVars>>

(* A step of a worker thread that may fail.                                *)
Fails == mishaps < MaxMishaps /\ mishaps' = mishaps + 1

(***************************************************************************)
(* The memory tool                                                         *)
(***************************************************************************)
(* One operation on the entries: "add", "replace" or "remove".             *)
Doable(op, w) == op.kind = "add" \/ op.old \in w

Removed(op, w) == w \ {op.old}

Applied(op, w) ==
    CASE op.kind = "add" -> w \cup {op.new}
      [] op.kind = "replace" -> Removed(op, w) \cup {op.new}
      [] op.kind = "remove" -> Removed(op, w)

(* add, replace, remove and apply_batch: all operations or none, within    *)
(* the limit, and no rewrite of a file somebody else has written to; a     *)
(* lone "add" keeps what it does not know and is not refused for it.       *)
Working(ops, w) ==
    LET work[i \in 0 .. Len(ops)] ==
            IF i = 0 THEN w ELSE Applied(ops[i], work[i - 1])
    IN  work

Accepts(k, w) ==
    LET work == Working(k.ops, w)
    IN  /\ \A i \in DOMAIN k.ops : Doable(k.ops[i], work[i - 1])
        /\ work[Len(k.ops)] # w => Cardinality(work[Len(k.ops)]) <= MaxFacts
        /\ Blob \in w => ~k.batch /\ k.ops[1].kind = "add"

Outcome(k, w) == IF Accepts(k, w) THEN Working(k.ops, w)[Len(k.ops)] ELSE w

(* _reload_target: under the file lock, what is on disk now.               *)
OwnEntries(c, f) == live[AgentOf[c]][f]

Reload(c, f) == disk[f]

IsMemory(k) == k.files \subseteq Memories
Target(k) == CHOOSE f \in k.files : TRUE

(***************************************************************************)
(* dispatch, up to the audit lock                                          *)
(***************************************************************************)
(* The preview of a memory call: when nothing would change, the call ends  *)
(* here. A skill call is validated on the same path as the call itself.    *)
Preview(c, k) ==
    /\ service = "up" /\ operator = 0
    /\ pc[c] = "idle" /\ calls < MaxCalls
    /\ calls' = calls + 1
    /\ live' = IF IsMemory(k)
               THEN [live EXCEPT ![AgentOf[c]][Target(k)] = Reload(c, Target(k))] ELSE live
    /\ IF IsMemory(k) /\ Outcome(k, Reload(c, Target(k))) = Reload(c, Target(k))
       THEN UNCHANGED <<pc, call, todo>>
       ELSE /\ Goto(c, "wait")
            /\ call' = [call EXCEPT ![c] = k]
            /\ todo' = [todo EXCEPT ![c] = k.files]
    /\ UNCHANGED <<disk, journal, service, auditLock, before, after, failed, stopped,
                   operator, edited, mishaps>>

Available(c) == auditLock = Unheld

Lock(c) ==
    /\ pc[c] = "wait" /\ Available(c)
    /\ auditLock' = c
    /\ Goto(c, "snapshot")
    /\ UNCHANGED <<disk, journal, live, service, callVars, stopped, operator, edited,
                   calls, mishaps>>

(***************************************************************************)
(* observe                                                                 *)
(***************************************************************************)
Snapshot(c) ==
    /\ pc[c] = "snapshot"
    /\ \/ /\ ~stopped[c]
          /\ before' = [before EXCEPT ![c] = disk]
          /\ Goto(c, "prepare")
          /\ UNCHANGED <<auditLock, stopped, call, after, todo, failed, mishaps>>
       \/ stopped[c] /\ EndCall(c) /\ UNCHANGED mishaps
       \/ Fails /\ EndCall(c)
    /\ UNCHANGED <<disk, journal, live, service, operator, edited, calls>>

(* one_prepared_persistence_event: an event that could not be undone       *)
(* refuses every later one.                                                *)
NoIndex == TRUE

MayPrepare == row = NoRow

Prepare(c) ==
    /\ pc[c] = "prepare"
    /\ \/ /\ MayPrepare
          /\ row' = [files |-> call[c].files, held |-> before[c]]
          /\ Goto(c, IF stopped[c] THEN "withdraw" ELSE "invoke")
          /\ GoesOn /\ UNCHANGED mishaps
       \/ /\ (~MayPrepare /\ UNCHANGED mishaps) \/ Fails
          /\ EndCall(c) /\ UNCHANGED row
    /\ UNCHANGED <<disk, log, base, live, service, operator, edited, calls>>

(* Cancelled behind the insert: the event is taken back.                   *)
Withdraw(c) ==
    /\ pc[c] = "withdraw"
    /\ \/ row' = NoRow /\ UNCHANGED mishaps
       \/ Fails /\ UNCHANGED row
    /\ EndCall(c)
    /\ UNCHANGED <<disk, log, base, live, service, operator, edited, calls>>

(* handle_memory reloads, changes and writes under the file lock, in the   *)
(* event loop. An unreadable file is a failure that changes nothing, a     *)
(* file that cannot be written an error.                                   *)
InvokeMemory(c) ==
    /\ pc[c] = "invoke" /\ IsMemory(call[c])
    /\ LET f == Target(call[c])
           w == Reload(c, f)
       IN  \/ /\ disk' = [disk EXCEPT ![f] = Outcome(call[c], w)]
              /\ live' = [live EXCEPT ![AgentOf[c]][f] = Outcome(call[c], w)]
              /\ failed' = [failed EXCEPT ![c] = ~Accepts(call[c], w)]
              /\ Goto(c, "compare")
              /\ UNCHANGED mishaps
           \/ /\ Fails
              /\ failed' = [failed EXCEPT ![c] = TRUE]
              /\ Goto(c, "compare") \/ Goto(c, "undo")
              /\ UNCHANGED <<disk, live>>
    /\ todo' = [todo EXCEPT ![c] = {}]
    /\ UNCHANGED <<journal, service, auditLock, call, before, after, stopped, operator,
                   edited, calls>>

(* A file tool writes its skill files one by one; a failure leaves what it *)
(* could not take back itself.                                             *)
InvokeSkill(c) ==
    /\ pc[c] = "invoke" /\ ~IsMemory(call[c])
    /\ \/ \E f \in todo[c] :
            /\ disk' = [disk EXCEPT ![f] = call[c].text]
            /\ todo' = [todo EXCEPT ![c] = @ \ {f}]
            /\ Goto(c, IF todo[c] = {f} THEN "compare" ELSE "invoke")
            /\ UNCHANGED <<failed, mishaps>>
       \/ /\ Fails
          /\ failed' = [failed EXCEPT ![c] = TRUE]
          /\ \/ UNCHANGED disk
             \/ disk' = [f \in Files |-> IF f \in call[c].files THEN before[c][f] ELSE disk[f]]
          /\ todo' = [todo EXCEPT ![c] = {}]
          /\ Goto(c, "compare")
    /\ UNCHANGED <<journal, live, service, auditLock, call, before, after, stopped, operator,
                   edited, calls>>

Changed(c, now) == {f \in call[c].files : before[c][f] # now[f]}

(* The second snapshot: nothing changed, or the tool failed although       *)
(* something did, or the change is to be kept.                             *)
Compare(c) ==
    /\ pc[c] = "compare"
    /\ after' = [after EXCEPT ![c] = disk]
    /\ \/ /\ Goto(c, CASE stopped[c] -> "undo"
                       [] Changed(c, disk) = {} -> "discard"
                       [] failed[c] -> "undo"
                       [] OTHER -> "flush")
          /\ UNCHANGED mishaps
       \/ Fails /\ Goto(c, "undo")
    /\ UNCHANGED <<disk, journal, live, service, auditLock, call, before, todo, failed,
                   stopped, operator, edited, calls>>

Discard(c) ==
    /\ pc[c] = "discard"
    /\ \/ row' = NoRow /\ EndCall(c) /\ UNCHANGED mishaps
       \/ Fails /\ Goto(c, "undo") /\ GoesOn /\ UNCHANGED row
    /\ UNCHANGED <<disk, log, base, live, service, operator, edited, calls>>

Flush(c) ==
    /\ pc[c] = "flush"
    /\ \/ Goto(c, IF stopped[c] THEN "undo" ELSE "commit") /\ UNCHANGED mishaps
       \/ Fails /\ Goto(c, "undo")
    /\ UNCHANGED <<disk, journal, live, service, auditLock, callVars, stopped, operator,
                   edited, calls>>

(* _commit and _prune: one transaction, which a cancellation does not      *)
(* undo.                                                                   *)
Kept(events) ==
    SubSeq(events, IF Len(events) > MaxEvents THEN Len(events) - MaxEvents + 1 ELSE 1,
           Len(events))

EnterEvent(files, was, is) ==
    /\ log' = Kept(Append(log, [files |-> files, was |-> was, is |-> is]))
    /\ base' = [f \in Files |-> IF f \in files THEN is[f] ELSE base[f]]
    /\ row' = NoRow

Commit(c) ==
    /\ pc[c] = "commit"
    /\ \/ EnterEvent(Changed(c, after[c]), before[c], after[c]) /\ EndCall(c) /\ UNCHANGED mishaps
       \/ Fails /\ Goto(c, "undo") /\ GoesOn /\ UNCHANGED journal
    /\ UNCHANGED <<disk, live, service, operator, edited, calls>>

(***************************************************************************)
(* _restore, file by file, in the running service and at startup           *)
(***************************************************************************)
Differs(files, held) == {f \in files : disk[f] # held[f]}

RestoreOne(files, held) ==
    \E f \in Differs(files, held) : disk' = [disk EXCEPT ![f] = held[f]]

(* _recover_change_sync: restore, refresh the memory of this agent,        *)
(* discard. When the restore or the discard fails the prepared event       *)
(* stays; a refresh that fails does not keep it.                           *)
Refreshed(c) ==
    [live EXCEPT ![AgentOf[c]] =
        [f \in Files |-> IF f \in call[c].files \cap Memories THEN disk[f] ELSE @[f]]]

Undo(c) ==
    /\ pc[c] = "undo"
    /\ \/ /\ RestoreOne(call[c].files, before[c])
          /\ GoesOn /\ UNCHANGED <<row, live, pc, mishaps>>
       \/ /\ Differs(call[c].files, before[c]) = {}
          /\ row' = NoRow /\ EndCall(c)
          /\ (live' = Refreshed(c) /\ UNCHANGED mishaps) \/ (Fails /\ UNCHANGED live)
          /\ UNCHANGED disk
       \/ Fails /\ EndCall(c) /\ UNCHANGED <<disk, row, live>>
    /\ UNCHANGED <<log, base, service, operator, edited, calls>>

(* recover_prepared, before the channels start.                            *)
Recover ==
    /\ service = "down" /\ row # NoRow
    /\ \/ RestoreOne(row.files, row.held) /\ UNCHANGED row
       \/ Differs(row.files, row.held) = {} /\ row' = NoRow /\ UNCHANGED disk
    /\ UNCHANGED <<log, base, live, service, auditLock, pc, callVars, stopped, operator,
                   edited, calls, mishaps>>

(* load_from_disk of a new agent.                                          *)
StartService ==
    /\ service = "down" /\ row = NoRow
    /\ service' = "up"
    /\ live' = [a \in Agents |-> disk]
    /\ UNCHANGED <<disk, journal, auditLock, pc, callVars, stopped, operator, edited, calls,
                   mishaps>>

(***************************************************************************)
(* Stops, crashes, edits by others                                         *)
(***************************************************************************)
(* A cancelled turn leaves the queue of the lock at once, and a step of    *)
(* the journal when its thread has returned.                               *)
StopTurn(c) ==
    /\ pc[c] # "idle" /\ ~stopped[c] /\ Fails
    /\ IF pc[c] = "wait" THEN EndCall(c)
       ELSE /\ stopped' = [stopped EXCEPT ![c] = TRUE]
            /\ UNCHANGED <<pc, auditLock, callVars>>
    /\ UNCHANGED <<disk, journal, live, service, operator, edited, calls>>

Crash ==
    /\ service = "up" /\ Fails
    /\ service' = "down" /\ auditLock' = Unheld /\ operator' = 0
    /\ pc' = [c \in Chats |-> "idle"]
    /\ stopped' = [c \in Chats |-> FALSE]
    /\ call' = [c \in Chats |-> NoCall]
    /\ before' = [c \in Chats |-> Empty]
    /\ after' = [c \in Chats |-> Empty]
    /\ todo' = [c \in Chats |-> {}]
    /\ failed' = [c \in Chats |-> FALSE]
    /\ live' = [x \in Agents |-> Empty]
    /\ UNCHANGED <<disk, journal, edited, calls>>

EditOutside(f) ==
    /\ Fails
    /\ \E x \in Entries : disk' = [disk EXCEPT ![f] = @ \cup {x}]
    /\ edited' = edited \cup {f}
    /\ UNCHANGED <<journal, live, service, auditLock, pc, callVars, stopped, operator, calls>>

(***************************************************************************)
(* rollback: a synchronous call, nothing else runs in the event loop, and  *)
(* no other call is under way                                              *)
(***************************************************************************)
Quiet == \A c \in Chats : pc[c] = "idle"

Rollback(i) ==
    /\ service = "up" /\ operator = 0 /\ Quiet
    /\ calls < MaxCalls /\ calls' = calls + 1
    /\ \A f \in log[i].files : disk[f] = log[i].is[f]
    /\ MayPrepare
    /\ row' = [files |-> log[i].files, held |-> disk]
    /\ operator' = i
    /\ UNCHANGED <<disk, log, base, live, service, auditLock, pc, callVars, stopped, edited,
                   mishaps>>

RollbackStep ==
    /\ operator # 0
    /\ LET event == log[operator]
       IN  \/ RestoreOne(event.files, event.was) /\ UNCHANGED <<journal, operator, mishaps>>
           \/ /\ Differs(event.files, event.was) = {}
              /\ EnterEvent({f \in event.files : row.held[f] # disk[f]}, row.held, disk)
              /\ operator' = 0
              /\ UNCHANGED <<disk, mishaps>>
           \/ /\ Fails /\ operator' = 0
              /\ \/ /\ disk' = [f \in Files |-> IF f \in row.files THEN row.held[f] ELSE disk[f]]
                    /\ row' = NoRow
                 \/ UNCHANGED <<disk, row>>
              /\ UNCHANGED <<log, base>>
    /\ UNCHANGED <<live, service, auditLock, pc, callVars, stopped, edited, calls>>

-----------------------------------------------------------------------------
Step(c) ==
    \/ Lock(c) \/ Snapshot(c) \/ Prepare(c) \/ Withdraw(c)
    \/ InvokeMemory(c) \/ InvokeSkill(c) \/ Compare(c) \/ Discard(c)
    \/ Flush(c) \/ Commit(c) \/ Undo(c)

AuditNext ==
    \/ \E c \in Chats, k \in Requests : Preview(c, k)
    \/ \E c \in Chats : Step(c) \/ StopTurn(c)
    \/ Recover \/ StartService \/ Crash \/ RollbackStep
    \/ \E f \in Files : EditOutside(f)
    \/ \E i \in DOMAIN log : Rollback(i)

AuditSpec == AuditInit /\ [][AuditNext]_auditVars

(* Threads return, the lock is handed on in the order it was asked for,    *)
(* and the supervisor starts the service again.                            *)
FairAuditSpec ==
    /\ AuditSpec
    /\ \A c \in Chats : WF_auditVars(Step(c) /\ pc[c] # "wait") /\ SF_auditVars(Lock(c))
    /\ WF_auditVars(Recover) /\ WF_auditVars(StartService) /\ WF_auditVars(RollbackStep)

-----------------------------------------------------------------------------
Images == [Files -> Contents]

(* Every variable has its type. *)
AuditTypeOK ==
    /\ disk \in Images /\ base \in Images /\ live \in [Agents -> Images]
    /\ row \in [files : SUBSET Files, held : Images]
    /\ Len(log) <= MaxEvents
    /\ log \in Seq([files : SUBSET Files, was : Images, is : Images])
    /\ service \in {"up", "down"} /\ auditLock \in Chats \cup {Unheld}
    /\ pc \in [Chats -> {"idle", "wait", "snapshot", "prepare", "withdraw", "invoke",
                         "compare", "discard", "flush", "commit", "undo"}]
    /\ call \in [Chats -> Requests \cup {NoCall}]
    /\ before \in [Chats -> Images] /\ after \in [Chats -> Images]
    /\ todo \in [Chats -> SUBSET Files] /\ edited \subseteq Files
    /\ failed \in [Chats -> BOOLEAN] /\ stopped \in [Chats -> BOOLEAN]
    /\ operator \in 0 .. Len(log)
    /\ calls \in 0 .. MaxCalls /\ mishaps \in 0 .. MaxMishaps

(* Whatever is on disk is what the journal's committed events say, or the  *)
(* prepared event can bring it back: through failing commits and restores, *)
(* cancelled turns, crashes between the write and its event, and rollbacks *)
(* (observe, recover_prepared). A file that somebody else edited is not    *)
(* accounted for.                                                          *)
Accounted ==
    \A f \in Files \ edited :
        disk[f] # base[f] => f \in row.files /\ row.held[f] = base[f]

(* The committed events of a file form one history: each begins with what  *)
(* the one before it left, in particular no event was prepared beside      *)
(* another, or behind one that could not be undone.                        *)
Later(i, j, f) == i < j /\ f \in log[i].files /\ f \in log[j].files

OneHistory ==
    \A f \in Files \ edited : \A i, j \in DOMAIN log :
        Later(i, j, f) /\ ~(\E m \in DOMAIN log : Later(i, m, f) /\ Later(m, j, f))
            => log[j].was[f] = log[i].is[f]

(* A committed memory change is the call applied to the file as it was: no *)
(* entry another conversation, or another channel's agent, has written is  *)
(* lost ("pick up writes from other sessions").                            *)
NothingLost ==
    [][\A c \in Chats :
         pc[c] = "commit" /\ row # NoRow /\ row' = NoRow /\ IsMemory(call[c])
           => LET f == Target(call[c])
              IN  f \notin edited => after[c][f] = Outcome(call[c], base[f])]_auditVars

(* Every call ends, whatever fails on its way: the audit lock is given     *)
(* back.                                                                   *)
LearningEnds == \A c \in Chats : pc[c] # "idle" ~> pc[c] = "idle"

(* The same, grouped as the run checks them                                *)

(* Every variable has its type, and the history accounts for the files, in *)
(* one line of events.                                                     *)
AuditTrue == AuditTypeOK /\ Accounted /\ OneHistory
=============================================================================
