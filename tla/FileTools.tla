----------------------------- MODULE FileTools -----------------------------
(***************************************************************************)
(* The file tools of two conversations that share a workspace: read_file,  *)
(* write_file and patch (tools/files.py), the operations under them        *)
(* (tools/file_operations.py), the application of a multi-file patch       *)
(* (tools/patch_parser.py) and the registry of read and write stamps that  *)
(* warns a conversation before it overwrites what it has not seen          *)
(* (tools/file_state.py).                                                  *)
(*                                                                         *)
(* A file is the stamp of its last write, 0 when it is absent: the stamp   *)
(* stands for its bytes, its inode and its mtime alike, for every write of *)
(* the tools goes to a new file that is renamed over the old one, and a    *)
(* move keeps the inode.                                                   *)
(***************************************************************************)
EXTENDS Integers, Sequences, FiniteSets, FiniteSetsExt

CONSTANTS
    Chats,      \* conversations, each with one tool call at a time
    Paths,      \* resolved paths, numbered in the order of their names
    Calls,      \* the mutating calls the model may ask for
    Outside,    \* whoever edits a file without the file tools
    MaxClock,   \* bound on stamps
    MaxCalls,   \* bound on the calls of a conversation
    MaxFaults   \* bound on failing operations, edits from outside and stops

ASSUME FileAssumption ==
    /\ Paths \subseteq Nat \ {0} /\ IsFiniteSet(Paths)
    /\ Outside \notin Chats
    /\ MaxClock \in Nat \ {0} /\ MaxCalls \in Nat /\ MaxFaults \in Nat

Gone == 0
Stamps == 1 .. MaxClock
Files == 0 .. MaxClock

(* What a mutating call does, in order: write_file is one "put", patch in  *)
(* replace mode one "edit", patch in patch mode a list of "add", "update", *)
(* "delete" and "move".                                                    *)
Kinds == {"put", "edit", "add", "update", "delete", "move"}
Op(k, p, q) == [kind |-> k, path |-> p, to |-> q]

(* What parse_v4a_patch hands on: operations it knows, each with its path, *)
(* a move with its destination; anything else is an error of the call.     *)
Parsed(ops) ==
    /\ ops \in Seq([kind : Kinds, path : Paths, to : Paths])
    /\ \A i \in DOMAIN ops : ops[i].kind # "move" => ops[i].to = ops[i].path

ASSUME CallsAssumption == \A ops \in Calls : ops # <<>> /\ Parsed(ops)

VARIABLES
    disk,       \* the files
    clock,      \* the last stamp given
    reads,      \* FileStateRegistry._reads: the stamp of each conversation's view
    lastWriter, \* FileStateRegistry._last_writer
    locks,      \* FileStateRegistry._path_locks
    pc,         \* where each conversation's call is
    job,        \* its call: the operations
    view,       \* the read under way: path, bytes, whether a part only
    stray,      \* the read of a stopped turn whose thread goes on
    next,       \* the next operation of a mutating call
    warned,     \* check_stale warned the call
    backup,     \* _backup_paths: what the call's paths held
    failed,     \* the call has an error
    unrestored, \* the paths whose rollback failed as well, as the error names them
    seen,       \* what the model was last shown, or wrote, of each path
    author,     \* who made the bytes of each stamp
    mine,       \* the stamps made by the call under way
    calls, faults

fileVars == <<disk, clock, reads, lastWriter, locks, pc, job, view, stray, next,
          warned, backup, failed, unrestored, seen, author, mine, calls, faults>>
callVars == <<job, next, warned, backup, failed, unrestored, mine>>
registry == <<reads, lastWriter>>

None == [path |-> 0, bytes |-> Gone, partial |-> FALSE]
NoStamp == [mtime |-> Gone, ts |-> 0, partial |-> FALSE]
NoWriter == [chat |-> Outside, ts |-> 0]

(* Mutation: the destination of a move is left out. *)
SourcesOnly(ops) == {ops[i].path : i \in DOMAIN ops}

(* _v4a_paths: every path a call may touch, a move's destination included. *)
Touched(ops) == {ops[i].path : i \in DOMAIN ops} \cup {ops[i].to : i \in DOMAIN ops}

FileInit ==
    /\ disk \in [Paths -> {Gone, 1}]
    /\ clock = 1
    /\ reads = [c \in Chats |-> [p \in Paths |-> NoStamp]]
    /\ lastWriter = [p \in Paths |-> NoWriter]
    /\ locks = [p \in Paths |-> Outside]
    /\ pc = [c \in Chats |-> "idle"]
    /\ job = [c \in Chats |-> <<>>]
    /\ view = [c \in Chats |-> None]
    /\ stray = [c \in Chats |-> None]
    /\ next = [c \in Chats |-> 1]
    /\ warned = [c \in Chats |-> FALSE]
    /\ backup = [c \in Chats |-> [p \in Paths |-> Gone]]
    /\ failed = [c \in Chats |-> FALSE]
    /\ unrestored = [c \in Chats |-> {}]
    /\ seen = [c \in Chats |-> [p \in Paths |-> Gone]]
    /\ author = [s \in Stamps |-> Outside]
    /\ mine = [c \in Chats |-> {}]
    /\ calls = [c \in Chats |-> 0]
    /\ faults = 0

Tick == clock < MaxClock /\ clock' = clock + 1

(***************************************************************************)
(* Reading: the bytes first, their stamp afterwards, without the path lock *)
(***************************************************************************)
Readable(p) == disk[p] # Gone

ReadBytes(c, p, partial) ==
    /\ pc[c] = "idle" /\ calls[c] < MaxCalls
    /\ Readable(p)
    /\ view' = [view EXCEPT ![c] = [path |-> p, bytes |-> disk[p], partial |-> partial]]
    /\ pc' = [pc EXCEPT ![c] = "read"]
    /\ calls' = [calls EXCEPT ![c] = @ + 1]
    /\ UNCHANGED <<disk, clock, registry, locks, callVars, stray, seen, author, faults>>

(* record_read: the mtime is asked for when the bytes have been read; a    *)
(* file that is gone by then leaves no stamp.                              *)
RecordRead(c, v) ==
    IF disk[v.path] = Gone
    THEN UNCHANGED <<clock, reads>>
    ELSE /\ Tick
         /\ reads' = [reads EXCEPT ![c][v.path] =
                [mtime |-> disk[v.path], ts |-> clock + 1, partial |-> v.partial]]

ReadEnds(c) ==
    /\ pc[c] = "read"
    /\ RecordRead(c, view[c])
    /\ seen' = IF view[c].partial THEN seen
               ELSE [seen EXCEPT ![c][view[c].path] = view[c].bytes]
    /\ pc' = [pc EXCEPT ![c] = "idle"]
    /\ view' = [view EXCEPT ![c] = None]
    /\ UNCHANGED <<disk, lastWriter, locks, callVars, stray, author, calls, faults>>

(* /stop cancels the turn; only writes wait for their thread               *)
(* (_finish_started_file_call), a read goes on without its caller.         *)
ReadStopped(c) ==
    /\ pc[c] = "read" /\ stray[c] = None /\ faults < MaxFaults
    /\ stray' = [stray EXCEPT ![c] = view[c]]
    /\ view' = [view EXCEPT ![c] = None]
    /\ pc' = [pc EXCEPT ![c] = "idle"]
    /\ faults' = faults + 1
    /\ UNCHANGED <<disk, clock, registry, locks, callVars, seen, author, calls>>

StrayReadEnds(c) ==
    /\ stray[c] # None
    /\ RecordRead(c, stray[c])
    /\ stray' = [stray EXCEPT ![c] = None]
    /\ UNCHANGED <<disk, lastWriter, locks, pc, callVars, view, seen, author, calls, faults>>

(***************************************************************************)
(* Writing and patching                                                    *)
(***************************************************************************)
(* The checks before the locks: an "add" whose file exists is refused.     *)
Accepted(ops) == \A i \in DOMAIN ops : ops[i].kind = "add" => disk[ops[i].path] = Gone

StartCall(c, ops) ==
    /\ pc[c] = "idle" /\ calls[c] < MaxCalls
    /\ Accepted(ops)
    /\ pc' = [pc EXCEPT ![c] = "lock"]
    /\ job' = [job EXCEPT ![c] = ops]
    /\ next' = [next EXCEPT ![c] = 1]
    /\ warned' = [warned EXCEPT ![c] = FALSE]
    /\ failed' = [failed EXCEPT ![c] = FALSE]
    /\ unrestored' = [unrestored EXCEPT ![c] = {}]
    /\ mine' = [mine EXCEPT ![c] = {}]
    /\ calls' = [calls EXCEPT ![c] = @ + 1]
    /\ UNCHANGED <<disk, clock, registry, locks, view, stray, backup, seen, author, faults>>

Missing(c) == {p \in Touched(job[c]) : locks[p] # c}

(* Mutation: the locks are taken in the order of the patch. *)
InPatchOrder(c) ==
    LET at == Min({i \in DOMAIN job[c] : Touched(<<job[c][i]>>) \cap Missing(c) # {}})
    IN  IF job[c][at].path \in Missing(c) THEN job[c][at].path ELSE job[c][at].to

(* sorted(paths, key=str): the locks are taken one by one, in the order of *)
(* the names.                                                              *)
NextLock(c) == Min(Missing(c))

TakeLock(c) ==
    /\ pc[c] = "lock" /\ Missing(c) # {}
    /\ locks[NextLock(c)] = Outside
    /\ locks' = [locks EXCEPT ![NextLock(c)] = c]
    /\ UNCHANGED <<disk, clock, registry, pc, callVars, view, stray, seen, author, calls, faults>>

(* check_stale: whether a write of this path by this conversation deserves *)
(* a warning.                                                              *)
Stale(c, p) ==
    LET stamp == reads[c][p]
        last == lastWriter[p]
    IN  /\ stamp # NoStamp \/ last # NoWriter
        /\ disk[p] # Gone
        /\ \/ stamp = NoStamp
           \/ last.chat \notin {Outside, c} /\ last.ts > stamp.ts
           \/ stamp.mtime # disk[p]
           \/ stamp.partial

Check(c) ==
    /\ pc[c] = "lock" /\ Missing(c) = {}
    /\ warned' = [warned EXCEPT ![c] = \E p \in Touched(job[c]) : Stale(c, p)]
    /\ pc' = [pc EXCEPT ![c] = "backup"]
    /\ UNCHANGED <<disk, clock, registry, locks, job, next, backup, failed, unrestored, mine,
                   view, stray, seen, author, calls, faults>>

TakeBackups(c) ==
    /\ pc[c] = "backup"
    /\ backup' = [backup EXCEPT ![c] =
            [p \in Paths |-> IF p \in Touched(job[c]) THEN disk[p] ELSE Gone]]
    /\ pc' = [pc EXCEPT ![c] = "validate"]
    /\ UNCHANGED <<disk, clock, registry, locks, job, next, warned, failed, unrestored, mine,
                   view, stray, seen, author, calls, faults>>

(* Mutation: only moves are looked at. *)
MovesOnly(op, present) ==
    op.kind = "move" => op.path \in present /\ op.to \notin present

(* _validate_operations: the operations are tried on an overlay of the     *)
(* files, the set of paths that exist; "present" is the overlay behind the *)
(* first i operations. An "add" is not entered into the overlay.           *)
Fits(op, present) ==
    CASE op.kind \in {"edit", "update", "delete"} -> op.path \in present
      [] op.kind = "move" -> op.path \in present /\ op.to \notin present
      [] OTHER -> TRUE

After(op, present) ==
    CASE op.kind = "delete" -> present \ {op.path}
      [] op.kind = "move" -> (present \ {op.path}) \cup {op.to}
      [] OTHER -> present

Present(ops) ==
    LET present[i \in 0 .. Len(ops)] ==
            IF i = 0 THEN {p \in Paths : disk[p] # Gone} ELSE After(ops[i], present[i - 1])
    IN  present

Validated(ops) == \A i \in DOMAIN ops : Fits(ops[i], Present(ops)[i - 1])

(* fuzzy_find_and_replace: the first strategy that finds the text decides. *)
(* No match, an ambiguous one and one with drifted escapes are errors      *)
(* alike; the text is not modelled.                                        *)
Matches == BOOLEAN

(* patch_replace reads the file and matches at this point; hunks that      *)
(* match nothing are found here in either mode, and nothing is written     *)
(* yet.                                                                    *)
Validate(c) ==
    /\ pc[c] = "validate"
    /\ \E hunksMatch \in Matches :
          failed' = [failed EXCEPT ![c] = ~(Validated(job[c]) /\ hunksMatch)]
    /\ pc' = [pc EXCEPT ![c] = IF failed'[c] THEN "finish" ELSE "apply"]
    /\ UNCHANGED <<disk, clock, registry, locks, job, next, warned, backup, unrestored,
                   mine, view, stray, seen, author, calls, faults>>

(* write_file and patch_replace of file_operations: a new file renamed     *)
(* over the path. The operation may fail before the rename, or in the      *)
(* verification behind it.                                                 *)
Written(c, p) ==
    /\ Tick
    /\ disk' = [disk EXCEPT ![p] = clock + 1]
    /\ author' = [author EXCEPT ![clock + 1] = c]
    /\ mine' = [mine EXCEPT ![c] = @ \cup {clock + 1}]

Untouched(c) == UNCHANGED <<clock, disk, author, mine>>

Write(c, op) ==
    \/ Written(c, op.path) /\ UNCHANGED <<failed, faults>>
    \/ /\ faults < MaxFaults /\ faults' = faults + 1
       /\ failed' = [failed EXCEPT ![c] = TRUE]
       /\ Written(c, op.path) \/ Untouched(c)

(* An "edit" that is in place already writes nothing.                      *)
Edit(c, op) ==
    \/ Write(c, op)
    \/ Untouched(c) /\ UNCHANGED <<failed, faults>>

(* An "update" reads its file once more.                                   *)
Update(c, op) ==
    IF disk[op.path] = Gone
    THEN Untouched(c) /\ failed' = [failed EXCEPT ![c] = TRUE] /\ UNCHANGED faults
    ELSE Write(c, op)

Put(c, op) == Write(c, op)

(* delete_file, and mv, which replaces whatever the destination holds.     *)
Deleted(p) == [disk EXCEPT ![p] = Gone]
Moved(p, q) == [disk EXCEPT ![q] = disk[p], ![p] = Gone]

Relocate(c, op) ==
    /\ UNCHANGED <<clock, author, mine>>
    /\ \/ /\ disk[op.path] # Gone
          /\ disk' = IF op.kind = "delete" THEN Deleted(op.path) ELSE Moved(op.path, op.to)
          /\ UNCHANGED <<failed, faults>>
       \/ /\ disk[op.path] = Gone \/ faults < MaxFaults
          /\ faults' = IF disk[op.path] = Gone THEN faults ELSE faults + 1
          /\ failed' = [failed EXCEPT ![c] = TRUE]
          /\ UNCHANGED disk

(* apply_v4a_operations: an operation that fails is noted, the next ones   *)
(* are tried all the same.                                                 *)
ApplyOp(c) ==
    /\ pc[c] = "apply"
    /\ LET op == job[c][next[c]]
       IN  CASE op.kind = "put" -> Put(c, op)
             [] op.kind = "edit" -> Edit(c, op)
             [] op.kind = "update" -> Update(c, op)
             [] op.kind = "add" -> Write(c, op)
             [] OTHER -> Relocate(c, op)
    /\ next' = [next EXCEPT ![c] = @ + 1]
    /\ pc' = [pc EXCEPT ![c] = IF next[c] = Len(job[c]) THEN "finish" ELSE "apply"]
    /\ UNCHANGED <<registry, locks, job, warned, backup, unrestored, view, stray, seen, calls>>

Release(c) == locks' = [p \in Paths |-> IF locks[p] = c THEN Outside ELSE locks[p]]

(* note_write: the writer is recorded and has seen what it wrote; a path   *)
(* that is gone gets no stamp.                                             *)
NoteWrites(c, noted) ==
    /\ IF noted = {} THEN UNCHANGED clock ELSE Tick
    /\ lastWriter' = [p \in Paths |-> IF p \in noted
                        THEN [chat |-> c, ts |-> clock + 1] ELSE lastWriter[p]]
    /\ reads' = [reads EXCEPT ![c] = [p \in Paths |-> IF p \in noted
                        THEN [mtime |-> disk[p], ts |-> clock + 1, partial |-> FALSE]
                        ELSE reads[c][p]]]
    /\ seen' = [seen EXCEPT ![c] = [p \in Paths |-> IF p \in noted
                        THEN disk[p] ELSE seen[c][p]]]

Succeed(c) ==
    /\ pc[c] = "finish" /\ ~failed[c]
    /\ NoteWrites(c, {p \in Touched(job[c]) : disk[p] # Gone})
    /\ Release(c)
    /\ pc' = [pc EXCEPT ![c] = "idle"]
    /\ UNCHANGED <<disk, callVars, view, stray, author, calls, faults>>

(* _restore_backups after an error, or after a skill that does not         *)
(* validate: every path gets back what it held, an added file goes.  A     *)
(* path whose turn fails stays as it is and is named in the error          *)
(* ("Rollback also failed"), the others are tried all the same.            *)
Restored(c, lost) ==
    [p \in Paths |-> IF p \in Touched(job[c]) \ lost THEN backup[c][p] ELSE disk[p]]

Restore(c) ==
    /\ pc[c] = "finish"
    /\ failed' = [failed EXCEPT ![c] = TRUE]
    /\ \E lost \in SUBSET Touched(job[c]) :
          /\ unrestored' = [unrestored EXCEPT ![c] = lost]
          /\ disk' = Restored(c, lost)
          /\ \/ lost = {} /\ UNCHANGED faults
             \/ lost # {} /\ faults < MaxFaults /\ faults' = faults + 1
    /\ Release(c)
    /\ pc' = [pc EXCEPT ![c] = "idle"]
    /\ UNCHANGED <<clock, registry, job, next, warned, backup, mine, view, stray,
                   seen, author, calls>>

(***************************************************************************)
(* A shell command or an editor changes a file, behind the tools' back     *)
(***************************************************************************)
EditOutside(p) ==
    /\ faults < MaxFaults /\ faults' = faults + 1
    /\ Tick
    /\ disk' = [disk EXCEPT ![p] = clock + 1]
    /\ UNCHANGED <<registry, locks, pc, callVars, view, stray, seen, author, calls>>

(* A patch call behind its guards.                                         *)
PatchStep(c) ==
    \/ TakeLock(c) \/ Check(c) \/ TakeBackups(c) \/ Validate(c) \/ ApplyOp(c)
    \/ Succeed(c) \/ Restore(c)

FileNext ==
    \/ \E c \in Chats, p \in Paths, partial \in BOOLEAN : ReadBytes(c, p, partial)
    \/ \E c \in Chats, ops \in Calls : StartCall(c, ops)
    \/ \E c \in Chats :
          \/ ReadEnds(c) \/ ReadStopped(c) \/ StrayReadEnds(c)
          \/ PatchStep(c)
    \/ \E p \in Paths : EditOutside(p)

FileSpec == FileInit /\ [][FileNext]_fileVars

(* The threads go on, and a lock that is free is taken.                    *)
FairFileSpec ==
    /\ FileSpec
    /\ \A c \in Chats :
          /\ WF_fileVars(ReadEnds(c)) /\ WF_fileVars(StrayReadEnds(c))
          /\ WF_fileVars(TakeLock(c)) /\ WF_fileVars(Check(c)) /\ WF_fileVars(TakeBackups(c))
          /\ WF_fileVars(Validate(c)) /\ WF_fileVars(ApplyOp(c))
          /\ WF_fileVars(Succeed(c) \/ Restore(c))

-----------------------------------------------------------------------------
Views == [path : {0} \cup Paths, bytes : Files, partial : BOOLEAN]

(* Every variable has its type. *)
FileTypeOK ==
    /\ disk \in [Paths -> Files] /\ clock \in Files
    /\ reads \in [Chats -> [Paths -> [mtime : Files, ts : Files, partial : BOOLEAN]]]
    /\ lastWriter \in [Paths -> [chat : Chats \cup {Outside}, ts : Files]]
    /\ locks \in [Paths -> Chats \cup {Outside}]
    /\ pc \in [Chats -> {"idle", "read", "lock", "backup", "validate", "apply", "finish"}]
    /\ job \in [Chats -> Calls \cup {<<>>}] /\ next \in [Chats -> Nat \ {0}]
    /\ \A c \in Chats : next[c] <= Len(job[c]) + 1
    /\ view \in [Chats -> Views] /\ stray \in [Chats -> Views]
    /\ warned \in [Chats -> BOOLEAN] /\ failed \in [Chats -> BOOLEAN]
    /\ unrestored \in [Chats -> SUBSET Paths]
    /\ backup \in [Chats -> [Paths -> Files]] /\ seen \in [Chats -> [Paths -> Files]]
    /\ author \in [Stamps -> Chats \cup {Outside}] /\ mine \in [Chats -> SUBSET Stamps]
    /\ calls \in [Chats -> 0 .. MaxCalls] /\ faults \in 0 .. MaxFaults

Fails(c) == pc[c] = "finish" /\ pc'[c] = "idle" /\ failed'[c]

(* A call that fails leaves nothing behind: what it wrote is on no path,   *)
(* and every file it may have touched is back, wherever the call had got   *)
(* to (_restore_backups, _rollback_invalid_skill), but for the paths its   *)
(* error says could not be rolled back.                                    *)
FailedLeavesNothing ==
    [][\A c \in Chats : Fails(c) =>
         \A p \in Paths \ unrestored'[c] :
            /\ disk'[p] \notin mine[c]
            /\ backup[c][p] # Gone => disk'[p] = backup[c][p]]_fileVars

(* A patch that was validated applies: unless an operation fails, or a     *)
(* file is edited from outside, no operation of it finds the files other   *)
(* than the overlay of _validate_operations had them, whatever the other   *)
(* conversation does.                                                      *)
ValidatedApplies ==
    [][\A c \in Chats :
            pc[c] = "apply" /\ failed'[c] /\ ~failed[c] => faults' > 0]_fileVars

(* A full rewrite that replaces a file the other conversation made, and    *)
(* which this one has not seen.                                            *)
Blind(c, p) ==
    /\ pc[c] = "apply" /\ job[c][next[c]].kind = "put" /\ job[c][next[c]].path = p
    /\ disk'[p] # disk[p]
    /\ disk[p] # Gone /\ author[disk[p]] \notin {c, Outside}
    /\ seen[c][p] # disk[p]

(* "... this module catches the case where subagent B writes a file that   *)
(* subagent A already read, so A's next write would overwrite B's changes  *)
(* with stale content" (tools/file_state.py).                              *)
SiblingIsWarned ==
    [][\A c \in Chats, p \in Paths : Blind(c, p) => warned[c]]_fileVars

(* Nobody waits in a circle: of any calls that wait for a path lock, one   *)
(* waits for a lock that none of them holds (the sorted acquisition of     *)
(* _patch, "for path in sorted(paths, key=str)").                          *)
Waits(c) == pc[c] = "lock" /\ Missing(c) # {}

NoCircle ==
    \A group \in (SUBSET Chats) \ {{}} :
        (\A c \in group : Waits(c)) => \E c \in group : locks[NextLock(c)] \notin group

(* Every call comes to an end: the path locks of two patches are taken in  *)
(* one order.                                                              *)
CallEnds == \A c \in Chats : pc[c] = "lock" ~> pc[c] = "idle"

(* The same, grouped as the run checks them                                *)

(* Every variable has its type, and a call changes all it says or nothing. *)
AllOrNothing == []FileTypeOK /\ FailedLeavesNothing

(* Nobody waits in a circle for the path locks, and behind them a patch    *)
(* that was validated applies.                                             *)
PatchGoesThrough == []NoCircle /\ ValidatedApplies
=============================================================================
