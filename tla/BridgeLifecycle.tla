--------------------------- MODULE BridgeLifecycle ---------------------------
(***************************************************************************)
(* The service of one agent, the bridge processes it starts, the pairing   *)
(* command, and what they share: the runtime lock, the pid file, the port  *)
(* and the WhatsApp credentials (main.py, runtime_lock.py,                 *)
(* channels/whatsapp.py, bridge.js, bridge_helpers.js).                    *)
(*                                                                         *)
(* Credentials are the set of the updates they contain; every update (the  *)
(* pairing is one) has a number of its own, and 0 stands for the keys a    *)
(* bridge makes up when it finds no file, which are of no use by           *)
(* themselves.  What a bridge keeps in creds.json only; the key files, the *)
(* messages (InboundClaims) and the turns (TurnLifecycle) are left out.    *)
(***************************************************************************)
EXTENDS Naturals

CONSTANTS
    MaxBridges,     \* process slots; that of a dead bridge is used again
    MaxUpdates,     \* credential updates in a behaviour
    Attempts,       \* BRIDGE_RESTART_ATTEMPTS
    Sessions,       \* what the session directory may hold at first
    Budget          \* faults and operator commands in a behaviour

ASSUME BridgeAssumption ==
    /\ {MaxBridges, MaxUpdates, Attempts} \subseteq Nat \ {0}
    /\ Budget \in Nat
    /\ \A s \in Sessions : s \subseteq 0 .. MaxUpdates

Bridges == 1 .. MaxBridges
Updates == 0 .. MaxUpdates

(* validate_whatsapp_session *)
Usable(creds) == creds \ {0} # {}

VARIABLES
    life,       \* of a bridge: none, boot, run, drain, flush, dead
    pairing,    \* the bridges started with --pair-only
    link,       \* its socket: unread, starting, open, closed
    mem,        \* the credentials its socket has in memory
    saves,      \* the saves of them that wait for the file
    unclean,    \* the bridges that will exit, or have exited, with a code
    file,       \* creds.json
    issued,     \* the number of updates so far
    linked,     \* the phone has not removed the device
    lock,       \* who holds the runtime lock: none, service, setup
    pc,         \* where the service is
    tries,      \* attempts left to bring the bridge back
    restarting, \* the bridge is being brought back
    child,      \* the bridge the service has started, or 0
    pidfile,    \* the bridge the pid file names, or 0
    work,       \* what uses the channel: turns, cron jobs
    setup,      \* where the pairing command is
    partner,    \* the bridge the pairing command has started, or 0
    enabled,    \* whatsapp.enabled
    supervised, \* systemd runs the service
    spent       \* of Budget

bridgeVars == <<life, pairing, link, mem, saves, unclean>>
credVars == <<file, issued, linked>>
serviceVars == <<pc, tries, restarting, child, pidfile, work>>
setupVars == <<setup, partner, enabled>>
vars == <<bridgeVars, credVars, lock, serviceVars, setupVars, supervised, spent>>

Lives(b) == life[b] \in {"boot", "run", "drain", "flush"}

(* The port is bound until the shutdown closes the server. *)
Listening(b) == life[b] = "run" /\ b \notin pairing

Mark(b, phase) == life' = [life EXCEPT ![b] = phase]

Spend == spent < Budget /\ spent' = spent + 1

-----------------------------------------------------------------------------
(* The bridge process                                                      *)

(* process.exit, or the end of the event loop: what was not saved is gone. *)
Exit(gone) ==
    /\ life' = [b \in Bridges |-> IF b \in gone THEN "dead" ELSE life[b]]
    /\ link' = [b \in Bridges |-> IF b \in gone THEN "unread" ELSE link[b]]
    /\ mem' = [b \in Bridges |-> IF b \in gone THEN {} ELSE mem[b]]
    /\ saves' = [b \in Bridges |-> IF b \in gone THEN 0 ELSE saves[b]]
    /\ UNCHANGED pairing

Fails(b) == Exit({b}) /\ unclean' = unclean \cup {b}

(* app.listen: a port in use is an uncaught error. *)
Listen(b) ==
    /\ life[b] = "boot"
    /\ IF b \notin pairing /\ \E o \in Bridges : Listening(o)
       THEN Fails(b)
       ELSE Mark(b, "run") /\ UNCHANGED <<pairing, link, mem, saves, unclean>>
    /\ UNCHANGED credVars

(* Mutation: the file is read beside the saves under way. *)
ReadAnytime(b) == TRUE

(* withAtomicPathLock: first come, first served. *)
SavesDone(b) == saves[b] = 0

(* useAtomicMultiFileAuthState: without a file, new keys. *)
Loaded == IF file = {} THEN {0} ELSE file

(* startSocket, at the start and at every reconnect: the credentials are   *)
(* read anew, after the saves that were queued before.                     *)
ReadCreds(b) ==
    /\ life[b] = "run" /\ link[b] \in {"unread", "closed"} /\ SavesDone(b)
    /\ mem' = [mem EXCEPT ![b] = Loaded]
    /\ link' = [link EXCEPT ![b] = "starting"]
    /\ UNCHANGED <<life, pairing, saves, unclean, credVars>>

(* creds.update: the save is queued at once. *)
Save(b, creds) ==
    /\ mem' = [mem EXCEPT ![b] = creds]
    /\ saves' = [saves EXCEPT ![b] = @ + 1]

Renewed(b) ==
    /\ issued < MaxUpdates
    /\ issued' = issued + 1
    /\ Save(b, mem[b] \cup {issued + 1})
    /\ UNCHANGED <<life, pairing, unclean, file, linked>>

(* The QR code is scanned; WhatsApp then asks for a restart (515). *)
Scan(b) ==
    /\ life[b] = "run" /\ link[b] = "starting" /\ ~Usable(mem[b]) /\ saves[b] = 0
    /\ Renewed(b)
    /\ link' = [link EXCEPT ![b] = "closed"]

(* finishPairOnly: the pairing ends with a flush. *)
FinishPairing(b) == Mark(b, "flush") /\ saves' = [saves EXCEPT ![b] = @ + 1]

(* connection.update "open" *)
Open(b) ==
    /\ life[b] = "run" /\ link[b] = "starting" /\ Usable(mem[b])
    /\ IF ~linked THEN Fails(b)
       ELSE /\ link' = [link EXCEPT ![b] = "open"]
            /\ IF b \in pairing
               THEN FinishPairing(b)
               ELSE UNCHANGED <<life, saves>>
            /\ UNCHANGED <<pairing, mem, unclean>>
    /\ UNCHANGED credVars

Update(b) ==
    /\ link[b] = "open" /\ life[b] \in {"run", "drain"} /\ saves[b] < 2
    /\ Renewed(b)
    /\ UNCHANGED link

(* connection.update "close": the scheduler starts the socket again. *)
Close(b) ==
    /\ Spend
    /\ life[b] = "run" /\ link[b] = "open"
    /\ link' = [link EXCEPT ![b] = "closed"]
    /\ UNCHANGED <<life, pairing, mem, saves, unclean, credVars>>

(* writeData serializes what is in memory now and replaces the file. *)
Write(b) ==
    /\ Lives(b) /\ saves[b] > 0
    /\ file' = mem[b]
    /\ saves' = [saves EXCEPT ![b] = @ - 1]
    /\ UNCHANGED <<life, pairing, link, mem, unclean, issued, linked>>

(* A save fails: the last good file stays.  The bridge stops at once, or   *)
(* goes on with its shutdown and reports the failure at its end.           *)
WriteFails(b) ==
    /\ Spend
    /\ Lives(b) /\ saves[b] > 0
    /\ IF life[b] = "run" THEN Fails(b)
       ELSE /\ unclean' = unclean \cup {b}
            /\ saves' = [saves EXCEPT ![b] = @ - 1]
            /\ UNCHANGED <<life, pairing, link, mem>>
    /\ UNCHANGED credVars

(* SIGINT, SIGTERM or POST /shutdown *)
Told(b) ==
    IF life[b] = "run"
    THEN Mark(b, "drain") /\ UNCHANGED <<pairing, link, mem, saves, unclean>>
    ELSE IF life[b] = "boot" THEN Fails(b)
    ELSE UNCHANGED bridgeVars

(* drainTasksForShutdown: the messages that were being stored have been,   *)
(* or were waited for too long.                                            *)
InboundDrained(b) == unclean' \in {unclean, unclean \cup {b}}

(* shutdown: then the socket is closed and its credentials are saved once  *)
(* more.                                                                   *)
Drained(b) ==
    /\ life[b] = "drain"
    /\ Mark(b, "flush")
    /\ link' = [link EXCEPT ![b] = IF @ = "unread" THEN @ ELSE "closed"]
    /\ saves' = [saves EXCEPT ![b] = IF link[b] = "unread" THEN @ ELSE @ + 1]
    /\ InboundDrained(b)
    /\ UNCHANGED <<pairing, mem, credVars>>

Flushed(b) == saves[b] = 0

Leave(b) ==
    /\ life[b] = "flush" /\ Flushed(b)
    /\ Exit({b}) /\ UNCHANGED <<unclean, credVars>>

(* flushCredentialSavesForShutdown gives up after five seconds. *)
FlushTimesOut(b) ==
    /\ Spend
    /\ life[b] = "flush" /\ ~Flushed(b) /\ b \notin pairing
    /\ Fails(b)
    /\ UNCHANGED credVars

BridgeCrashes(b) == Spend /\ Lives(b) /\ Fails(b) /\ UNCHANGED credVars

(* The device is removed on the phone: the next connection is refused. *)
Unlink ==
    /\ Spend /\ linked
    /\ linked' = FALSE
    /\ UNCHANGED <<bridgeVars, file, issued>>

BridgeStep(b) ==
    Listen(b) \/ ReadCreds(b) \/ Open(b) \/ Write(b) \/ Drained(b) \/ Leave(b)

BridgeEvent(b) ==
    Close(b) \/ WriteFails(b) \/ FlushTimesOut(b) \/ BridgeCrashes(b)

-----------------------------------------------------------------------------
(* The service                                                             *)

Goto(place) == pc' = place

(* A slot for a new process; that of a dead one nobody refers to is free. *)
Slots == {b \in Bridges : life[b] \in {"none", "dead"} /\ b \notin {child, pidfile, partner}}

Spawned(b, new) ==
    /\ b \in Slots /\ \A o \in Slots : b <= o
    /\ Mark(b, "boot")
    /\ pairing' = IF new = "pair" THEN pairing \cup {b} ELSE pairing \ {b}
    /\ unclean' = unclean \ {b}
    /\ UNCHANGED <<link, mem, saves>>

(* RuntimeLock.acquire; a service that finds no enabled channel returns.   *)
Start ==
    /\ pc = "off" /\ lock = "none" /\ enabled
    /\ lock' = "service"
    /\ Goto("preflight")
    /\ UNCHANGED <<bridgeVars, credVars, tries, restarting, child, pidfile, work>>

(* command_run returns: the channels are stopped, the lock is released.    *)
Return ==
    /\ Goto("off") /\ lock' = "none"
    /\ tries' = 0 /\ restarting' = FALSE
    /\ child' = 0 /\ work' = {}

(* _preflight: a file that is there must be usable. *)
Preflight ==
    /\ pc = "preflight"
    /\ IF file # {} /\ ~Usable(file)
       THEN Return
       ELSE Goto("stale") /\ UNCHANGED <<lock, tries, restarting, child, work>>
    /\ UNCHANGED <<bridgeVars, credVars, pidfile>>

(* _stop_stale_bridge: the bridge of an earlier run that proves itself at  *)
(* its port is told to stop; it counts as stopped once its port is closed. *)
StopStale ==
    /\ pc = "stale"
    /\ IF pidfile # 0 /\ Listening(pidfile) THEN Told(pidfile) ELSE UNCHANGED bridgeVars
    /\ pidfile' = 0
    /\ Goto("spawn")
    /\ UNCHANGED <<credVars, lock, tries, restarting, child, work>>

(* It does not answer in time: it is left alone. *)
StaleUnverified ==
    /\ Spend
    /\ pc = "stale" /\ pidfile # 0 /\ Listening(pidfile)
    /\ pidfile' = 0
    /\ Goto("spawn")
    /\ UNCHANGED <<bridgeVars, credVars, lock, tries, restarting, child, work>>

(* _spawn_bridge: the process, *)
Spawn ==
    /\ pc = "spawn"
    /\ \E b \in Bridges : Spawned(b, "resident") /\ child' = b
    /\ Goto("record")
    /\ UNCHANGED <<credVars, lock, tries, restarting, pidfile, work>>

(* and then its record. *)
Record ==
    /\ pc = "record"
    /\ pidfile' = child
    /\ Goto("await")
    /\ UNCHANGED <<bridgeVars, credVars, lock, tries, restarting, child, work>>

(* _wait_until_connected *)
Connected ==
    /\ pc = "await" /\ life[child] = "run" /\ link[child] = "open"
    /\ Goto(IF restarting THEN "serve" ELSE "recover")
    /\ restarting' = FALSE /\ tries' = 0
    /\ UNCHANGED <<bridgeVars, credVars, lock, child, pidfile, work>>

(* Mutation: nobody looks at the process. *)
NeverExited(b) == FALSE

(* process.poll() *)
Exited(b) == ~Lives(b)

(* The next attempt, or the end of the start. *)
Attempt(place) ==
    /\ IF restarting /\ tries > 0
       THEN tries' = tries - 1 /\ Goto("unlink") /\ UNCHANGED restarting
       ELSE /\ restarting' = FALSE /\ tries' = 0
            /\ Goto(place)

ChildExited ==
    /\ pc = "await" /\ Exited(child)
    /\ Attempt(IF restarting THEN "drain" ELSE "unlink")
    /\ UNCHANGED <<bridgeVars, credVars, lock, child, pidfile, work>>

ReadyTimesOut ==
    /\ Spend
    /\ pc = "await" /\ Lives(child)
    /\ Attempt(IF restarting THEN "drain" ELSE "unlink")
    /\ UNCHANGED <<bridgeVars, credVars, lock, child, pidfile, work>>

(* The deliveries and turns of an earlier process are settled, the intake  *)
(* is opened and the scheduler is started.                                 *)
Recover ==
    /\ pc = "recover"
    /\ Goto("serve")
    /\ UNCHANGED <<bridgeVars, credVars, lock, tries, restarting, child, pidfile, work>>

RecoverFails ==
    /\ Spend
    /\ pc = "recover"
    /\ Goto("unlink")
    /\ UNCHANGED <<bridgeVars, credVars, lock, tries, restarting, child, pidfile, work>>

(* Turns and cron jobs come and go; each of them uses the bridge. *)
Begin(w) ==
    /\ pc = "serve" /\ w \notin work
    /\ work' = work \cup {w}
    /\ UNCHANGED <<bridgeVars, credVars, lock, pc, tries, restarting, child, pidfile>>

End(w) ==
    /\ w \in work
    /\ work' = work \ {w}
    /\ UNCHANGED <<bridgeVars, credVars, lock, pc, tries, restarting, child, pidfile>>

(* _poll_loop finds the bridge dead: _restart_bridge. *)
BridgeDied ==
    /\ pc = "serve" /\ Exited(child)
    /\ restarting' = TRUE /\ tries' = Attempts - 1
    /\ Goto("unlink")
    /\ UNCHANGED <<bridgeVars, credVars, lock, child, pidfile, work>>

(* A signal, or another channel that gives up, ends the service; a restart *)
(* of the bridge is cancelled where it waits.                              *)
Stop ==
    /\ pc = "serve" \/ (pc \in {"await", "unlink"} /\ restarting)
    /\ restarting' = FALSE /\ tries' = 0
    /\ Goto("drain")
    /\ UNCHANGED <<bridgeVars, credVars, lock, child, pidfile, work>>

(* Mutation: the channel is closed while cron jobs and turns go on. *)
Undrained == work

(* CronScheduler.stop, then the drain of the channel: what does not end in *)
(* time is cancelled.                                                      *)
Drain == {}

Quiesce ==
    /\ pc = "drain"
    /\ work' = Drain
    /\ Goto("unlink")
    /\ UNCHANGED <<bridgeVars, credVars, lock, tries, restarting, child, pidfile>>

(* _terminate_bridge: the record, if it is this bridge's, *)
Unrecord ==
    /\ pc = "unlink"
    /\ pidfile' = IF pidfile = child THEN 0 ELSE pidfile
    /\ Goto("term")
    /\ UNCHANGED <<bridgeVars, credVars, lock, tries, restarting, child, work>>

(* the signal, *)
Terminate ==
    /\ pc = "term"
    /\ Told(child)
    /\ Goto("reap")
    /\ UNCHANGED <<credVars, lock, tries, restarting, child, pidfile, work>>

Reaped(b) == ~Lives(b)

(* and the wait for its end. *)
Reap ==
    /\ pc = "reap" /\ Reaped(child)
    /\ IF restarting
       THEN Goto("spawn") /\ child' = 0 /\ UNCHANGED <<lock, tries, restarting, work>>
       ELSE Return
    /\ UNCHANGED <<bridgeVars, credVars, pidfile>>

(* It takes more than ten seconds: SIGKILL. *)
Kill ==
    /\ Spend
    /\ pc = "reap" /\ Lives(child)
    /\ Fails(child)
    /\ UNCHANGED <<credVars, lock, serviceVars>>

(* The service dies; systemd takes its bridges with it (KillMode=mixed). *)
Dies ==
    /\ Spend
    /\ pc # "off"
    /\ Return
    /\ IF supervised
       THEN LET mine == {b \in Bridges \ pairing : Lives(b)}
            IN  Exit(mine) /\ unclean' = unclean \cup mine
       ELSE UNCHANGED bridgeVars
    /\ UNCHANGED <<credVars, pidfile>>

ServiceStep ==
    \/ Preflight \/ StopStale \/ Spawn \/ Record \/ Connected \/ ChildExited
    \/ Recover \/ BridgeDied \/ Quiesce \/ Unrecord \/ Terminate \/ Reap

ServiceFault == StaleUnverified \/ ReadyTimesOut \/ RecoverFails \/ Kill \/ Dies

-----------------------------------------------------------------------------
(* pilotage whatsapp (command_whatsapp_pair)                               *)

Step(place) == setup' = place

(* Another runtime holds the lock: it returns at once. *)
SetUp ==
    /\ Spend
    /\ setup = "off" /\ lock = "none"
    /\ lock' = "setup" /\ Step("ask")
    /\ UNCHANGED <<bridgeVars, credVars, partner, enabled>>

SetupEnds ==
    /\ Step("off") /\ lock' = "none" /\ partner' = 0

(* An existing pairing is kept, or the operator gives up. *)
Keep ==
    /\ setup = "ask"
    /\ enabled' \in {enabled} \cup (IF file = {} THEN {} ELSE {Usable(file)})
    /\ SetupEnds
    /\ UNCHANGED <<bridgeVars, credVars>>

(* "A failed or interrupted pairing must not leave an unusable channel     *)
(* selected for the resident runtime."                                     *)
Disabled == FALSE

Disable ==
    /\ setup = "ask"
    /\ enabled' = Disabled
    /\ Step("clear")
    /\ UNCHANGED <<bridgeVars, credVars, lock, partner>>

Clear ==
    /\ setup = "clear"
    /\ file' = {}
    /\ Step("spawn")
    /\ UNCHANGED <<bridgeVars, issued, linked, lock, partner, enabled>>

SpawnPairing ==
    /\ setup = "spawn"
    /\ \E b \in Bridges : Spawned(b, "pair") /\ partner' = b
    /\ linked' = TRUE
    /\ Step("pair")
    /\ UNCHANGED <<file, issued, lock, enabled>>

(* The bridge has ended: its code and the credentials are checked. *)
Paired ==
    /\ setup = "pair" /\ ~Lives(partner)
    /\ enabled' = (enabled \/ (partner \notin unclean /\ Usable(file)))
    /\ SetupEnds
    /\ UNCHANGED <<bridgeVars, credVars>>

(* Ctrl+C reaches both; the bridge is killed if it does not end at once. *)
Interrupt ==
    /\ setup = "pair" /\ life[partner] \in {"boot", "run"}
    /\ Told(partner)
    /\ Step("stop")
    /\ UNCHANGED <<credVars, lock, partner, enabled>>

Interrupted ==
    /\ setup = "stop"
    /\ IF Lives(partner) THEN Fails(partner) ELSE UNCHANGED bridgeVars
    /\ SetupEnds
    /\ UNCHANGED <<credVars, enabled>>

(* The terminal goes away: the command and its bridge die. *)
HangUp ==
    /\ Spend
    /\ setup # "off"
    /\ IF partner # 0 /\ Lives(partner) THEN Fails(partner) ELSE UNCHANGED bridgeVars
    /\ SetupEnds
    /\ UNCHANGED <<credVars, enabled>>

SetupStep ==
    \/ Keep \/ Disable \/ Clear \/ SpawnPairing \/ Paired \/ Interrupt \/ Interrupted

-----------------------------------------------------------------------------
(* The whole                                                               *)

Init ==
    /\ life = [b \in Bridges |-> "none"]
    /\ pairing = {} /\ unclean = {}
    /\ link = [b \in Bridges |-> "unread"]
    /\ mem = [b \in Bridges |-> {}]
    /\ saves = [b \in Bridges |-> 0]
    /\ file \in Sessions
    /\ issued \in file \cup {0} /\ \A u \in file : u <= issued
    /\ linked = TRUE
    /\ lock = "none" /\ pc = "off"
    /\ tries = 0 /\ restarting = FALSE
    /\ child = 0 /\ pidfile = 0 /\ work = {}
    /\ setup = "off" /\ partner = 0
    /\ enabled \in BOOLEAN
    /\ supervised \in BOOLEAN
    /\ spent = 0

BridgeActs ==
    /\ \E b \in Bridges : BridgeStep(b) \/ Scan(b) \/ Update(b)
    /\ UNCHANGED <<lock, serviceVars, setupVars, supervised, spent>>

BridgeTroubled ==
    /\ Unlink \/ \E b \in Bridges : BridgeEvent(b)
    /\ UNCHANGED <<lock, serviceVars, setupVars, supervised>>

ServiceActs ==
    /\ Start \/ ServiceStep \/ Stop \/ \E w \in {"turn", "cron"} : Begin(w) \/ End(w)
    /\ UNCHANGED <<setupVars, supervised, spent>>

ServiceTroubled == ServiceFault /\ UNCHANGED <<setupVars, supervised>>

SetupActs == SetupStep /\ UNCHANGED <<serviceVars, supervised, spent>>

SetupTroubled == (SetUp \/ HangUp) /\ UNCHANGED <<serviceVars, supervised>>

Next ==
    BridgeActs \/ BridgeTroubled \/ ServiceActs \/ ServiceTroubled \/ SetupActs \/ SetupTroubled

Spec == Init /\ [][Next]_vars

(* The event loops of the processes go on, the operator answers the setup, *)
(* and systemd (Restart=always) or the operator starts the service again.  *)
Fairness ==
    /\ \A b \in Bridges :
         WF_vars(BridgeStep(b) /\ UNCHANGED <<lock, serviceVars, setupVars, supervised, spent>>)
    /\ WF_vars((Start \/ ServiceStep) /\ UNCHANGED <<setupVars, supervised, spent>>)
    /\ WF_vars(SetupActs)

FairSpec == Spec /\ Fairness

-----------------------------------------------------------------------------
(* What the service promises                                               *)

(* Every variable has its type. *)
TypeOK ==
    /\ life \in [Bridges -> {"none", "boot", "run", "drain", "flush", "dead"}]
    /\ pairing \subseteq Bridges /\ unclean \subseteq Bridges
    /\ link \in [Bridges -> {"unread", "starting", "open", "closed"}]
    /\ mem \in [Bridges -> SUBSET Updates]
    /\ saves \in [Bridges -> 0 .. 3]
    /\ file \subseteq Updates /\ issued \in Updates /\ linked \in BOOLEAN
    /\ lock \in {"none", "service", "setup"}
    /\ pc \in {"off", "preflight", "stale", "spawn", "record", "await", "recover", "serve",
               "drain", "unlink", "term", "reap"}
    /\ tries \in 0 .. Attempts /\ restarting \in BOOLEAN
    /\ child \in 0 .. MaxBridges /\ pidfile \in 0 .. MaxBridges
    /\ work \subseteq {"turn", "cron"}
    /\ setup \in {"off", "ask", "clear", "spawn", "pair", "stop"}
    /\ partner \in 0 .. MaxBridges /\ enabled \in BOOLEAN
    /\ supervised \in BOOLEAN /\ spent \in 0 .. Budget

(* Under systemd every bridge belongs to the process that holds the lock:  *)
(* one bridge at a time uses the session, whatever died or was restarted;  *)
(* and it is not taken down while turns or cron jobs answer through it.    *)
BridgeOwned ==
    /\ supervised => \A b \in Bridges : Lives(b) => b \in {child, partner}
    /\ {child, partner} \cap Bridges # {} => lock # "none"
    /\ pc \in {"term", "reap"} /\ ~restarting => work = {}

(* No update of the credentials is undone: not by a reconnect that reads   *)
(* the file too early, nor by another bridge; and a bridge that exits      *)
(* without a code has saved them all.                                      *)
CredsKept ==
    [][supervised =>
         /\ file \subseteq file' \/ setup = "clear"
         /\ \A b \in Bridges :
              /\ Lives(b) /\ Lives(b)' => mem[b] \subseteq mem'[b]
              /\ life[b] = "flush" /\ life'[b] = "dead" /\ b \notin unclean'
                   => mem[b] \subseteq file']_vars

(* An enabled channel that has a usable session keeps one, however a new   *)
(* pairing ends; one that has none is enabled only by a pairing.           *)
EnabledIsPaired ==
    [][supervised /\ (enabled => Usable(file)) => (enabled' => Usable(file'))]_vars

(* An unknown bridge of an earlier service holds the port. *)
Squatted == \E b \in Bridges \ {child, pidfile} : Listening(b)

(* A bridge shows its QR code. *)
Scannable == \E b \in Bridges : link[b] = "starting" /\ ~Usable(mem[b])

(* The service answers again after every failure, unless the channel is    *)
(* disabled, or waits for the operator: to pair it, or to end a bridge     *)
(* that no service owns.                                                   *)
ServiceReturns ==
    []<>(pc = "serve" \/ ~enabled \/ ~linked \/ ~Usable(file) \/ Scannable \/ Squatted)

(* A missing session "is deliberate: the resident bridge must surface the  *)
(* first-connection QR flow": a service without a pairing is not refused.  *)
QrIsShown == pc = "preflight" => Usable(file) \/ file = {}

(* The same, grouped as the run checks them                                *)

(* Every bridge belongs to the one process that may have it, and ends      *)
(* behind its work.                                                        *)
BridgeSingle == TypeOK /\ BridgeOwned

(* The session is never undone or overwritten, and a channel without one   *)
(* is not switched on.                                                     *)
SessionSafe == CredsKept /\ EnabledIsPaired
=============================================================================
