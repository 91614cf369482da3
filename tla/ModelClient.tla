---------------------------- MODULE ModelClient ----------------------------
(***************************************************************************)
(* How the agent calls the model: the pooled client every turn leases      *)
(* (Agent._ensure_client, _release_client, close), the attempts of a call  *)
(* (_call_model, _stream_once, codex/stream.py) and the credential store   *)
(* behind it, with its single-use refresh tokens (codex/auth.py).          *)
(*                                                                         *)
(* A token stands for one pair of access and refresh token, numbered in    *)
(* the order they are issued; the client of a token bears its number, for  *)
(* a client is only built when the access token is a new one.  Credentials *)
(* are resolved in a thread that a cancelled caller leaves behind.         *)
(***************************************************************************)
EXTENDS Integers, FiniteSets

CONSTANTS
    Turns,          \* coroutines of the agent, one model call each
    Others,         \* the doctor, the image tool, another process: they resolve only
    Replaying,      \* the turns whose history holds encrypted replay
    MaxReconnects,  \* MAX_STREAM_RECONNECTS
    MaxToken,       \* bound on the tokens issued
    Budget          \* bound on sign-ins, cancellations, crashes, lost answers, refusals

Free == "free"     \* no one: a lock that nobody holds

ASSUME ModelAssumption ==
    /\ IsFiniteSet(Turns) /\ Turns \cap Others = {} /\ Replaying \subseteq Turns
    /\ MaxReconnects \in Nat /\ MaxToken \in Nat \ {0}
    /\ Budget \in Nat
    /\ Free \notin Turns \cup Others

Actors == Turns \cup Others
Tokens == 1 .. MaxToken
None == 0

VARIABLES
    file,       \* the token in the credentials file
    flock,      \* who holds its lock
    issued,     \* the last token the server has issued
    spent,      \* refresh tokens that have been used
    aged,       \* access tokens about to expire
    origin,     \* the sign-in a token descends from
    current,    \* Agent._client and ._credentials
    leases,     \* Agent._client_leases
    retired,    \* Agent._retired_clients
    closed,     \* clients that have been closed
    authLock,   \* Agent._auth_lock
    shut,       \* Agent.close has run
    pc,         \* where each call is
    uses,       \* the client it streams with
    force, renewed, stripped, tries,    \* the locals of _call_model
    again,      \* what follows the release: another attempt
    thread,     \* resolve_credentials of each actor
    seen,       \* the token it has read outside the lock
    got,        \* its result
    asked,      \* actors that have made their call
    dropped,    \* clients whose closing or release was cancelled
    lost,       \* sign-ins one of whose refreshes got lost
    reused,     \* sign-ins one of whose refresh tokens was presented twice
    faults

store == <<file, flock, issued, spent, aged, origin, lost, reused>>
pool == <<current, leases, retired, closed, authLock, shut, dropped>>
call == <<pc, uses, force, renewed, stripped, tries, again, asked>>
resolving == <<thread, seen, got>>
vars == <<store, pool, call, resolving, faults>>

Init ==
    /\ file = 1 /\ flock = Free /\ issued = 1
    /\ spent = {} /\ aged = {}
    /\ origin = [t \in Tokens |-> 0]
    /\ current = None /\ retired = {} /\ closed = {}
    /\ leases = [t \in Tokens |-> 0]
    /\ authLock = Free /\ shut = FALSE
    /\ pc = [c \in Turns |-> "idle"]
    /\ uses = [c \in Turns |-> None]
    /\ force = [c \in Turns |-> FALSE] /\ renewed = [c \in Turns |-> FALSE]
    /\ stripped = [c \in Turns |-> FALSE] /\ tries = [c \in Turns |-> 0]
    /\ again = [c \in Turns |-> FALSE]
    /\ thread = [a \in Actors |-> "idle"]
    /\ seen = [a \in Actors |-> None] /\ got = [a \in Actors |-> None]
    /\ asked = {} /\ dropped = {} /\ lost = {} /\ reused = {}
    /\ faults = 0

Fault == faults < Budget /\ faults' = faults + 1

(***************************************************************************)
(* The credential store                                                    *)
(***************************************************************************)
(* access_token_is_expiring *)
Expiring(t) == t \in aged

Becomes(a, s) == thread' = [thread EXCEPT ![a] = s]

Forced(a) == a \in Turns /\ force[a]

Awaited(a) == a \in Turns /\ pc[a] = "resolve"

(* The result, which is forgotten where nobody waits for it any more. *)
Yields(a, t) ==
    /\ Becomes(a, IF Awaited(a) THEN "done" ELSE "idle")
    /\ got' = [got EXCEPT ![a] = IF Awaited(a) THEN t ELSE None]
    /\ seen' = [seen EXCEPT ![a] = None]
    /\ flock' = IF flock = a THEN Free ELSE flock

Fails(a) ==
    /\ Becomes(a, IF Awaited(a) THEN "failed" ELSE "idle")
    /\ got' = [got EXCEPT ![a] = None]
    /\ seen' = [seen EXCEPT ![a] = None]
    /\ flock' = IF flock = a THEN Free ELSE flock

(* read_credentials: a token that is still good needs no lock. *)
ReadFile(a) ==
    /\ thread[a] = "read"
    /\ IF Forced(a) \/ Expiring(file)
       THEN /\ Becomes(a, "wait")
            /\ seen' = [seen EXCEPT ![a] = file]
            /\ UNCHANGED <<got, flock>>
       ELSE Yields(a, file)
    /\ UNCHANGED <<file, issued, spent, aged, origin, lost, reused>>
    /\ UNCHANGED <<pool, call, faults>>

(* What a waiter finds in the file under the lock is somebody's refresh:   *)
(* its own now.                                                            *)
Adopted(a) == file # seen[a] /\ ~Expiring(file)

(* Mutation: nobody waits for the lock. *)
AnyTime == TRUE

(* credentials_lock: the lock is polled, for a bounded time. *)
Unlocked == flock = Free

TakeLock(a) ==
    /\ thread[a] = "wait" /\ Unlocked
    /\ IF Adopted(a)
       THEN Yields(a, file)
       ELSE /\ flock' = a
            /\ Becomes(a, "exchange")
            /\ got' = [got EXCEPT ![a] = file]
            /\ seen' = [seen EXCEPT ![a] = None]
    /\ UNCHANGED <<file, issued, spent, aged, origin, lost, reused>>
    /\ UNCHANGED <<pool, call, faults>>

GiveUpLock(a) ==
    /\ thread[a] = "wait" /\ flock # Free
    /\ Fails(a)
    /\ Fault
    /\ UNCHANGED <<file, issued, spent, aged, origin, lost, reused>>
    /\ UNCHANGED <<pool, call>>

(* refresh_credentials: the refresh token rotates, the old one is dead.    *)
Exchange(a) ==
    /\ thread[a] = "exchange"
    /\ got[a] \notin spent /\ issued < MaxToken
    /\ spent' = spent \cup {got[a]}
    /\ issued' = issued + 1
    /\ origin' = [origin EXCEPT ![issued + 1] = origin[got[a]]]
    /\ got' = [got EXCEPT ![a] = issued + 1]
    /\ Becomes(a, "write")
    /\ UNCHANGED <<file, flock, aged, lost, reused, pool, call, seen, faults>>

(* The server refuses a refresh token it has seen; or it is not reached,   *)
(* or limits the rate (it always does at the bound of the tokens); or its  *)
(* answer gets lost.                                                       *)
ExchangeFails(a) ==
    /\ thread[a] = "exchange"
    /\ Fails(a)
    /\ \/ /\ got[a] \in spent
          /\ reused' = reused \cup {origin[got[a]]}
          /\ UNCHANGED <<spent, lost, faults>>
       \/ /\ got[a] \notin spent
          /\ Fault \/ (issued = MaxToken /\ UNCHANGED faults)
          /\ UNCHANGED <<spent, lost, reused>>
       \/ /\ got[a] \notin spent /\ Fault
          /\ spent' = spent \cup {got[a]}
          /\ lost' = lost \cup {origin[got[a]]}
          /\ UNCHANGED reused
    /\ UNCHANGED <<file, issued, aged, origin, pool, call>>

(* write_credentials, still under the lock. *)
WriteFile(a) ==
    /\ thread[a] = "write"
    /\ file' = got[a]
    /\ Yields(a, got[a])
    /\ UNCHANGED <<issued, spent, aged, origin, lost, reused>>
    /\ UNCHANGED <<pool, call, faults>>

(* The device flow: the user signs in again. *)
SignedIn ==
    /\ issued < MaxToken
    /\ issued' = issued + 1
    /\ origin' = [origin EXCEPT ![issued + 1] = origin[file] + 1]

(* The command login stores the new pair, under the lock. *)
Login ==
    /\ Unlocked
    /\ SignedIn
    /\ file' = issued'
    /\ Fault
    /\ UNCHANGED <<flock, spent, aged, lost, reused>>
    /\ UNCHANGED <<pool, call, resolving>>

(* Time passes: a token in use comes near its end. *)
Age(t) ==
    /\ t = issued /\ t = file /\ t \notin aged
    /\ issued < MaxToken
    /\ aged' = 1 .. t
    /\ UNCHANGED <<file, flock, issued, spent, origin, lost, reused>>
    /\ UNCHANGED <<pool, call, resolving, faults>>

(***************************************************************************)
(* Others resolve once and use the token as they like; they matter once    *)
(* the one they have read is expiring.  They may die.                      *)
(***************************************************************************)
Resolve(o) ==
    /\ o \notin asked /\ Expiring(file)
    /\ asked' = asked \cup {o}
    /\ seen' = [seen EXCEPT ![o] = file]
    /\ Becomes(o, "wait")
    /\ UNCHANGED <<store, pool, pc, uses, force, renewed, stripped, tries, again>>
    /\ UNCHANGED <<got, faults>>

Forget(a) ==
    /\ thread' = [thread EXCEPT ![a] = "idle"]
    /\ seen' = [seen EXCEPT ![a] = None]
    /\ got' = [got EXCEPT ![a] = None]

Die(o) ==
    /\ thread[o] \in {"exchange", "write"}
    /\ Fault
    /\ flock' = IF flock = o THEN Free ELSE flock
    /\ lost' = IF thread[o] = "write" THEN lost \cup {origin[got[o]]} ELSE lost
    /\ Forget(o)
    /\ UNCHANGED <<file, issued, spent, aged, origin, reused, pool, call>>

(***************************************************************************)
(* The pool                                                                *)
(***************************************************************************)
Goes(c, s) == pc' = [pc EXCEPT ![c] = s]

Lease(c, t) ==
    /\ leases' = [leases EXCEPT ![t] = @ + 1]
    /\ uses' = [uses EXCEPT ![c] = t]
    /\ Goes(c, "stream")

Begin(c) ==
    /\ pc[c] = "idle" /\ c \notin asked /\ ~shut
    /\ asked' = asked \cup {c}
    /\ Goes(c, "ensure")
    /\ UNCHANGED <<store, pool, resolving, uses, force, renewed, stripped, tries, again, faults>>

(* _ensure_client: the resident client, unless its token is expiring or    *)
(* was just refused; otherwise the store is asked, under the lock.         *)
Ensure(c) ==
    /\ pc[c] = "ensure" /\ authLock = Free
    /\ IF current # None /\ ~force[c] /\ ~Expiring(current)
       THEN Lease(c, current) /\ UNCHANGED <<authLock, thread>>
       ELSE /\ thread[c] = "idle"
            /\ authLock' = c
            /\ Goes(c, "resolve")
            /\ Becomes(c, "read")
            /\ UNCHANGED <<leases, uses>>
    /\ UNCHANGED <<store, current, retired, closed, shut, dropped, seen, got, faults>>
    /\ UNCHANGED <<force, renewed, stripped, tries, again, asked>>

(* Mutation: a replaced client is closed at once. *)
NeverLeased(t) == FALSE

(* Whether a client is in use when another takes its place. *)
Leased(t) == leases[t] > 0

(* A new token gets a new client.  The old one is closed at once, or left  *)
(* to the last of its leases.  A cancellation within client.close() is     *)
(* not modelled.                                                           *)
Resolved(c) ==
    /\ pc[c] = "resolve" /\ thread[c] = "done"
    /\ current' = got[c]
    /\ LET old == {current} \ {None, got[c]}
           busy == {t \in old : Leased(t)}
       IN  /\ retired' = retired \cup busy
           /\ closed' = closed \cup (old \ busy)
    /\ Lease(c, got[c])
    /\ authLock' = Free
    /\ Forget(c)
    /\ UNCHANGED <<store, shut, dropped, faults>>
    /\ UNCHANGED <<force, renewed, stripped, tries, again, asked>>

(* The model forgets the locals of a call that has ended. *)
End(c) ==
    /\ Goes(c, "idle")
    /\ uses' = [uses EXCEPT ![c] = None]
    /\ force' = [force EXCEPT ![c] = FALSE]
    /\ renewed' = [renewed EXCEPT ![c] = FALSE]
    /\ stripped' = [stripped EXCEPT ![c] = FALSE]
    /\ tries' = [tries EXCEPT ![c] = 0]
    /\ again' = [again EXCEPT ![c] = FALSE]
    /\ UNCHANGED asked

ResolveFailed(c) ==
    /\ pc[c] = "resolve" /\ thread[c] = "failed"
    /\ authLock' = Free
    /\ Forget(c)
    /\ End(c)
    /\ UNCHANGED <<store, current, leases, retired, closed, shut, dropped, faults>>

(***************************************************************************)
(* The attempts                                                            *)
(***************************************************************************)
(* What ends an attempt; its client is released before anything else.      *)
Attempt(c, more) ==
    /\ pc[c] = "stream"
    /\ Goes(c, "release")
    /\ again' = [again EXCEPT ![c] = more]
    /\ UNCHANGED <<store, pool, resolving, uses, asked>>

(* The stream ends by itself, with an answer or an error of the request. *)
Finish(c) ==
    /\ Attempt(c, FALSE)
    /\ UNCHANGED <<force, renewed, stripped, tries, faults>>

(* 401 and 403: refresh once.  The server refuses an aged token, and may   *)
(* refuse any other.                                                       *)
Refused(c) ==
    /\ Attempt(c, ~renewed[c])
    /\ (Expiring(uses[c]) /\ UNCHANGED faults) \/ Fault
    /\ force' = [force EXCEPT ![c] = ~renewed[c]]
    /\ renewed' = [renewed EXCEPT ![c] = TRUE]
    /\ UNCHANGED <<stripped, tries>>

(* The masked rejection of encrypted replay: strip it once. *)
ReplayRejected(c) ==
    /\ c \in Replaying /\ ~stripped[c]
    /\ Attempt(c, TRUE)
    /\ stripped' = [stripped EXCEPT ![c] = TRUE]
    /\ force' = [force EXCEPT ![c] = FALSE]
    /\ UNCHANGED <<renewed, tries, faults>>

Reconnects(c) == tries[c] < MaxReconnects

(* No first event, a silent stream, or a broken connection. *)
Silence(c) ==
    /\ Attempt(c, Reconnects(c))
    /\ tries' = [tries EXCEPT ![c] = IF @ < MaxReconnects THEN @ + 1 ELSE @]
    /\ force' = [force EXCEPT ![c] = FALSE]
    /\ UNCHANGED <<renewed, stripped, faults>>

Continue(c) ==
    IF again[c]
    THEN /\ Goes(c, "ensure")
         /\ uses' = [uses EXCEPT ![c] = None]
         /\ again' = [again EXCEPT ![c] = FALSE]
         /\ UNCHANGED <<force, renewed, stripped, tries, asked>>
    ELSE End(c)

(* Mutation: nobody closes a retired client. *)
NeverRetired(t) == FALSE

(* Only a retired client is closed with its last lease. *)
Retired(t) == t \in retired

(* _release_client *)
Release(c) ==
    /\ pc[c] = "release" /\ authLock = Free
    /\ LET t == uses[c]
           last == {u \in {t} : leases[u] = 1 /\ Retired(u)}
       IN  /\ leases' = [leases EXCEPT ![t] = IF @ > 0 THEN @ - 1 ELSE @]
           /\ closed' = closed \cup last
           /\ retired' = retired \ last
    /\ Continue(c)
    /\ UNCHANGED <<store, current, authLock, shut, dropped, resolving, faults>>

(* A /stop or a shutdown cancels the call where it waits: at a lock, in    *)
(* the resolution (whose thread goes on), or in the stream, which is then  *)
(* released.                                                               *)
Cancel(c) ==
    /\ Fault
    /\ IF pc[c] = "stream"
       THEN /\ Goes(c, "release")
            /\ again' = [again EXCEPT ![c] = FALSE]
            /\ UNCHANGED <<authLock, dropped, uses, force, renewed, stripped, tries, asked>>
       ELSE /\ pc[c] # "idle"
            /\ authLock' = IF authLock = c THEN Free ELSE authLock
            /\ dropped' = dropped \cup ({uses[c]} \ {None})
            /\ End(c)
    /\ IF thread[c] \in {"done", "failed"} THEN Forget(c) ELSE UNCHANGED resolving
    /\ UNCHANGED <<store, current, leases, retired, closed, shut>>

(* Agent.close, at the end of the runtime, when the turns are drained. *)
Close ==
    /\ ~shut /\ authLock = Free
    /\ \A c \in Turns : pc[c] = "idle"
    /\ shut' = TRUE
    /\ closed' = closed \cup retired \cup ({current} \ {None})
    /\ retired' = {} /\ current' = None
    /\ leases' = [t \in Tokens |-> 0]
    /\ UNCHANGED <<store, authLock, dropped, call, resolving, faults>>

-----------------------------------------------------------------------------
Resolution(a) == ReadFile(a) \/ TakeLock(a) \/ WriteFile(a) \/ Exchange(a) \/ ExchangeFails(a)
Pooling(c) == Ensure(c) \/ Resolved(c) \/ ResolveFailed(c)
              \/ Release(c)
Streaming(c) == Finish(c) \/ Refused(c) \/ ReplayRejected(c) \/ Silence(c)

Next ==
    \/ \E a \in Actors : Resolution(a) \/ GiveUpLock(a)
    \/ \E c \in Turns : Begin(c) \/ Pooling(c) \/ Streaming(c) \/ Cancel(c)
    \/ \E o \in Others : Resolve(o) \/ Die(o)
    \/ \E t \in Tokens : Age(t)
    \/ Login \/ Close

Spec == Init /\ [][Next]_vars

(* Threads and coroutines are scheduled, requests are answered or time     *)
(* out, a stream ends or is cut off by the two watchdogs.                  *)
FairSpec == Spec
    /\ \A a \in Actors : WF_vars(Resolution(a))
    /\ \A c \in Turns : WF_vars(Pooling(c) \/ Streaming(c))

-----------------------------------------------------------------------------
TypeOK ==
    /\ file \in Tokens /\ flock \in Actors \cup {Free} /\ issued \in Tokens
    /\ spent \subseteq Tokens /\ aged \subseteq Tokens
    /\ current \in Tokens \cup {None} /\ authLock \in Turns \cup {Free}
    /\ leases \in [Tokens -> 0 .. Cardinality(Turns)]
    /\ retired \subseteq Tokens /\ closed \subseteq Tokens

(* A token refresh by one turn never closes the client another one is      *)
(* streaming with.                                                         *)
LeasedIsOpen == \A c \in Turns : pc[c] = "stream" /\ ~shut => uses[c] \notin closed

(* No refresh token is presented twice, however many turns and processes   *)
(* find the access token stale at once, unless the answer to the first     *)
(* time got lost.                                                          *)
SpentOnce == reused \subseteq lost

(* A refresh that was under way does not overwrite a new sign-in: what is  *)
(* in the file descends from the latest one.                               *)
LatestSignIn == \A t \in 1 .. issued : origin[t] <= origin[file]

(* Every call of the model ends, although streams may break and tokens be  *)
(* refused again and again; and a client that was replaced while in use    *)
(* has been closed by then, unless its very release was cancelled.         *)
CallsEnd == []<>((\A c \in Turns : pc[c] = "idle") /\ retired \subseteq dropped)

(* The same, grouped as the run checks them                                *)

(* The refresh token is used once, and a new sign-in is not undone.        *)
SignInKept == TypeOK /\ SpentOnce /\ LatestSignIn
=============================================================================
