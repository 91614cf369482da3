---------------------------- MODULE BridgeProofs ----------------------------
(***************************************************************************)
(* What TLAPS proves of BridgeLifecycle, for any number of process slots,  *)
(* any session the directory may hold at first and any bounds.             *)
(***************************************************************************)
EXTENDS BridgeLifecycle, TLAPS

-----------------------------------------------------------------------------
(* The inductive invariant                                                 *)

\* The types, by the actors whose variables they are.
BridgeTypes ==
    /\ life \in [Bridges -> {"none", "boot", "run", "drain", "flush", "dead"}]
    /\ pairing \subseteq Bridges /\ unclean \subseteq Bridges
    /\ link \in [Bridges -> {"unread", "starting", "open", "closed"}]
    /\ mem \in [Bridges -> SUBSET Updates]
    /\ saves \in [Bridges -> 0 .. 3]

SessionTypes == file \subseteq Updates /\ issued \in Updates

ServiceTypes ==
    /\ lock \in {"none", "service", "setup"}
    /\ pc \in {"off", "preflight", "stale", "spawn", "record", "await", "recover", "serve",
               "drain", "unlink", "term", "reap"}
    /\ tries \in 0 .. Attempts
    /\ child \in Bridges \cup {0} /\ pidfile \in Bridges \cup {0}
    /\ work \subseteq {"turn", "cron"}

SetupTypes ==
    /\ setup \in {"off", "ask", "clear", "spawn", "pair", "stop"}
    /\ partner \in Bridges \cup {0} /\ spent \in 0 .. Budget

Flags == {linked, restarting, enabled, supervised} \subseteq BOOLEAN

Types == BridgeTypes /\ SessionTypes /\ ServiceTypes /\ SetupTypes /\ Flags

\* A bridge without a socket has nothing to save; every read of the
\* credentials is behind the saves, and one save more is queued at the end.
Sockets ==
    \A b \in Bridges :
        /\ life[b] \in {"none", "dead", "boot"} => link[b] = "unread"
        /\ link[b] = "unread" => mem[b] = {} /\ saves[b] = 0
        /\ life[b] \in {"run", "drain"} => saves[b] <= 2
        /\ life[b] = "run" /\ link[b] = "starting" => saves[b] = 0

\* The lock is held by the service or by the pairing command, and whoever has
\* started a bridge holds it.
Roles ==
    /\ pc # "off" <=> lock = "service"
    /\ setup # "off" <=> lock = "setup"
    /\ pc \in {"off", "preflight", "stale", "spawn"} <=> child = 0
    /\ setup \in {"pair", "stop"} <=> partner # 0
    /\ child \notin pairing
    /\ supervised => \A b \in Bridges : Lives(b) => b \in {child, partner}

\* Turns and jobs use the bridge while it serves, is drained, or is brought
\* back.
Worked == ~restarting /\ pc \notin {"serve", "drain"} => work = {}

\* What a bridge has in memory contains the file, and the file contains it
\* once the saves are done.
Creds ==
    /\ supervised => \A b \in Bridges :
        /\ Lives(b) /\ link[b] # "unread" => file \subseteq mem[b]
        /\ life[b] = "run" /\ saves[b] = 0 => mem[b] \subseteq Loaded
        /\ life[b] = "flush" /\ saves[b] = 0 /\ b \notin unclean => mem[b] \subseteq file
    /\ setup = "clear" => ~enabled

\* The inductive invariant.
IInv == Types /\ Sockets /\ Roles /\ Worked /\ Creds


\* One step of what SessionSafe asks for.
SavedStep ==
    supervised =>
      /\ file \subseteq file' \/ setup = "clear"
      /\ \A b \in Bridges :
           /\ Lives(b) /\ Lives(b)' => mem[b] \subseteq mem'[b]
           /\ life[b] = "flush" /\ life'[b] = "dead" /\ b \notin unclean'
                => mem[b] \subseteq file'

\* The other half of SessionSafe, as one step.
PairedStep == supervised /\ (enabled => Usable(file)) => (enabled' => Usable(file'))

\* A step takes one of the faults and commands that are left, or none.
Charged == spent' = spent \/ (spent' = spent + 1 /\ spent < Budget)

\* What every step has to show.
Inductive == IInv' /\ SavedStep /\ PairedStep

-----------------------------------------------------------------------------
(* The invariant is inductive                                              *)

\* The bounds are numbers.
LEMMA Bounds ==
    /\ MaxBridges \in Nat /\ MaxUpdates \in Nat
    /\ Attempts \in Nat /\ Attempts > 0 /\ Budget \in Nat
BY BridgeAssumption

\* Zero is no bridge, and the update that comes with a made-up session.
LEMMA Ranges ==
    /\ \A b \in 0 .. MaxBridges : b # 0 <=> b \in Bridges
    /\ \A b \in Bridges : b \in 0 .. MaxBridges
    /\ 0 \in Updates /\ \A u \in Updates : u < MaxUpdates => u + 1 \in Updates
BY Bounds DEF Bridges, Updates

\* Before the first start it holds, whatever the session directory holds.
LEMMA InitHolds ==
  ASSUME Init
  PROVE  IInv
<1> USE BridgeAssumption, Bounds, Ranges DEF Init
<1>1. Types
  <2>1. BridgeTypes
      BY DEF BridgeTypes
  <2>2. SessionTypes
      BY DEF SessionTypes, Updates
  <2>3. ServiceTypes /\ SetupTypes
      BY DEF ServiceTypes, SetupTypes
  <2>4. Flags
      BY DEF Flags
  <2> QED
      BY <2>1, <2>2, <2>3, <2>4 DEF Types
<1>2. Sockets /\ Roles /\ Worked /\ Creds
    BY DEF Sockets, Roles, Worked, Creds, Lives
<1> QED
    BY <1>1, <1>2 DEF IInv

\* A step that leaves the bridges, the session and the setup alone.
LEMMA Untouched ==
  ASSUME IInv, UNCHANGED <<bridgeVars, credVars, setup, enabled, supervised>>
  PROVE  Sockets' /\ Creds' /\ SavedStep /\ PairedStep
BY DEF IInv, Types, bridgeVars, credVars, Sockets, Creds, SavedStep, PairedStep, Lives, Loaded, Usable

\* The steps of a bridge keep it, and undo no update of the credentials.
LEMMA BridgeHolds ==
  ASSUME IInv, NEW b \in Bridges, UNCHANGED <<lock, serviceVars, setupVars, supervised>>, Charged,
         BridgeStep(b) \/ Scan(b) \/ Update(b) \/ BridgeEvent(b)
  PROVE  Inductive
<1> USE Bounds, Ranges DEF IInv, Types, Charged, bridgeVars, credVars, serviceVars, setupVars
<1>1. ASSUME Listen(b)
      PROVE  Inductive
  <2> USE <1>1 DEF Listen, Fails, Exit, Mark
  <2>1. BridgeTypes' /\ SessionTypes'
      BY DEF BridgeTypes, SessionTypes, ServiceTypes, SetupTypes, Sockets, Roles, Loaded
  <2>2. ServiceTypes'
      BY DEF ServiceTypes
  <2>3. SetupTypes'
      BY DEF SetupTypes
  <2>4. Flags'
      BY DEF Flags, Usable, credVars
  <2>5. Sockets'
      BY DEF Sockets, BridgeTypes, ServiceTypes, Lives
  <2>6. Roles' /\ Worked'
      BY DEF Roles, Worked, BridgeTypes, ServiceTypes, SetupTypes, Lives
  <2>7. Creds'
      BY DEF Creds, Sockets, Roles, BridgeTypes, ServiceTypes, Lives, Loaded
  <2>8. SavedStep /\ PairedStep
      BY DEF SavedStep, PairedStep, Creds, Sockets, Roles, BridgeTypes, ServiceTypes, Lives, Usable, Loaded
  <2> QED
      BY <2>1, <2>2, <2>3, <2>4, <2>5, <2>6, <2>7, <2>8 DEF Inductive, IInv, Types
<1>2. ASSUME ReadCreds(b)
      PROVE  Inductive
  <2> USE <1>2 DEF ReadCreds, SavesDone
  <2>1. BridgeTypes' /\ SessionTypes'
      BY DEF BridgeTypes, SessionTypes, ServiceTypes, SetupTypes, Sockets, Roles, Loaded
  <2>2. ServiceTypes'
      BY DEF ServiceTypes
  <2>3. SetupTypes'
      BY DEF SetupTypes
  <2>4. Flags'
      BY DEF Flags, Usable, credVars
  <2>5. Sockets'
      BY DEF Sockets, BridgeTypes, ServiceTypes, Lives
  <2>6. Roles' /\ Worked'
      BY DEF Roles, Worked, BridgeTypes, ServiceTypes, SetupTypes, Lives
  <2>7. Creds'
      BY DEF Creds, Sockets, Roles, BridgeTypes, ServiceTypes, Lives, Loaded
  <2>8. SavedStep /\ PairedStep
      BY DEF SavedStep, PairedStep, Creds, Sockets, Roles, BridgeTypes, ServiceTypes, Lives, Usable, Loaded
  <2> QED
      BY <2>1, <2>2, <2>3, <2>4, <2>5, <2>6, <2>7, <2>8 DEF Inductive, IInv, Types
<1>3. ASSUME Open(b)
      PROVE  Inductive
  <2> USE <1>3 DEF Open, Fails, Exit, FinishPairing, Mark
  <2>1. BridgeTypes' /\ SessionTypes'
      BY DEF BridgeTypes, SessionTypes, ServiceTypes, SetupTypes, Sockets, Roles, Loaded
  <2>2. ServiceTypes'
      BY DEF ServiceTypes
  <2>3. SetupTypes'
      BY DEF SetupTypes
  <2>4. Flags'
      BY DEF Flags, Usable, credVars
  <2>5. Sockets'
      BY DEF Sockets, BridgeTypes, ServiceTypes, Lives
  <2>6. Roles' /\ Worked'
      BY DEF Roles, Worked, BridgeTypes, ServiceTypes, SetupTypes, Lives
  <2>7. Creds'
      BY DEF Creds, Sockets, Roles, BridgeTypes, ServiceTypes, Lives, Loaded
  <2>8. SavedStep /\ PairedStep
      BY DEF SavedStep, PairedStep, Creds, Sockets, Roles, BridgeTypes, ServiceTypes, Lives, Usable, Loaded
  <2> QED
      BY <2>1, <2>2, <2>3, <2>4, <2>5, <2>6, <2>7, <2>8 DEF Inductive, IInv, Types
<1>4. ASSUME Write(b)
      PROVE  Inductive
  <2> USE <1>4 DEF Write
  <2>1. BridgeTypes' /\ SessionTypes'
      BY DEF BridgeTypes, SessionTypes, ServiceTypes, SetupTypes, Sockets, Roles, Loaded
  <2>2. ServiceTypes'
      BY DEF ServiceTypes
  <2>3. SetupTypes'
      BY DEF SetupTypes
  <2>4. Flags'
      BY DEF Flags, Usable, credVars
  <2>5. Sockets'
      BY DEF Sockets, BridgeTypes, ServiceTypes, Lives
  <2>6. Roles' /\ Worked'
      BY DEF Roles, Worked, BridgeTypes, ServiceTypes, SetupTypes, Lives
  <2>7. Creds'
      BY DEF Creds, Sockets, Roles, BridgeTypes, ServiceTypes, Lives, Loaded
  <2>8. SavedStep /\ PairedStep
      BY DEF SavedStep, PairedStep, Creds, Sockets, Roles, BridgeTypes, ServiceTypes, Lives, Usable, Loaded
  <2> QED
      BY <2>1, <2>2, <2>3, <2>4, <2>5, <2>6, <2>7, <2>8 DEF Inductive, IInv, Types
<1>5. ASSUME Drained(b)
      PROVE  Inductive
  <2> USE <1>5 DEF Drained, InboundDrained, Mark
  <2>1. BridgeTypes' /\ SessionTypes'
      BY DEF BridgeTypes, SessionTypes, ServiceTypes, SetupTypes, Sockets, Roles, Loaded
  <2>2. ServiceTypes'
      BY DEF ServiceTypes
  <2>3. SetupTypes'
      BY DEF SetupTypes
  <2>4. Flags'
      BY DEF Flags, Usable, credVars
  <2>5. Sockets'
      BY DEF Sockets, BridgeTypes, ServiceTypes, Lives
  <2>6. Roles' /\ Worked'
      BY DEF Roles, Worked, BridgeTypes, ServiceTypes, SetupTypes, Lives
  <2>7. Creds'
      BY DEF Creds, Sockets, Roles, BridgeTypes, ServiceTypes, Lives, Loaded
  <2>8. SavedStep /\ PairedStep
      BY DEF SavedStep, PairedStep, Creds, Sockets, Roles, BridgeTypes, ServiceTypes, Lives, Usable, Loaded
  <2> QED
      BY <2>1, <2>2, <2>3, <2>4, <2>5, <2>6, <2>7, <2>8 DEF Inductive, IInv, Types
<1>6. ASSUME Leave(b)
      PROVE  Inductive
  <2> USE <1>6 DEF Leave, Exit, Flushed
  <2>1. BridgeTypes' /\ SessionTypes'
      BY DEF BridgeTypes, SessionTypes, ServiceTypes, SetupTypes, Sockets, Roles, Loaded
  <2>2. ServiceTypes'
      BY DEF ServiceTypes
  <2>3. SetupTypes'
      BY DEF SetupTypes
  <2>4. Flags'
      BY DEF Flags, Usable, credVars
  <2>5. Sockets'
      BY DEF Sockets, BridgeTypes, ServiceTypes, Lives
  <2>6. Roles' /\ Worked'
      BY DEF Roles, Worked, BridgeTypes, ServiceTypes, SetupTypes, Lives
  <2>7. Creds'
      BY DEF Creds, Sockets, Roles, BridgeTypes, ServiceTypes, Lives, Loaded
  <2>8. SavedStep /\ PairedStep
      BY DEF SavedStep, PairedStep, Creds, Sockets, Roles, BridgeTypes, ServiceTypes, Lives, Usable, Loaded
  <2> QED
      BY <2>1, <2>2, <2>3, <2>4, <2>5, <2>6, <2>7, <2>8 DEF Inductive, IInv, Types
<1>7. ASSUME Scan(b)
      PROVE  Inductive
  <2> USE <1>7 DEF Scan, Renewed, Save
  <2>1. BridgeTypes' /\ SessionTypes'
      BY DEF BridgeTypes, SessionTypes, ServiceTypes, SetupTypes, Sockets, Roles, Loaded
  <2>2. ServiceTypes'
      BY DEF ServiceTypes
  <2>3. SetupTypes'
      BY DEF SetupTypes
  <2>4. Flags'
      BY DEF Flags, Usable, credVars
  <2>5. Sockets'
      BY DEF Sockets, BridgeTypes, ServiceTypes, Lives
  <2>6. Roles' /\ Worked'
      BY DEF Roles, Worked, BridgeTypes, ServiceTypes, SetupTypes, Lives
  <2>7. Creds'
      BY DEF Creds, Sockets, Roles, BridgeTypes, ServiceTypes, Lives, Loaded
  <2>8. SavedStep /\ PairedStep
      BY DEF SavedStep, PairedStep, Creds, Sockets, Roles, BridgeTypes, ServiceTypes, Lives, Usable, Loaded
  <2> QED
      BY <2>1, <2>2, <2>3, <2>4, <2>5, <2>6, <2>7, <2>8 DEF Inductive, IInv, Types
<1>8. ASSUME Update(b)
      PROVE  Inductive
  <2> USE <1>8 DEF Update, Renewed, Save
  <2>1. BridgeTypes' /\ SessionTypes'
      BY DEF BridgeTypes, SessionTypes, ServiceTypes, SetupTypes, Sockets, Roles, Loaded
  <2>2. ServiceTypes'
      BY DEF ServiceTypes
  <2>3. SetupTypes'
      BY DEF SetupTypes
  <2>4. Flags'
      BY DEF Flags, Usable, credVars
  <2>5. Sockets'
      BY DEF Sockets, BridgeTypes, ServiceTypes, Lives
  <2>6. Roles' /\ Worked'
      BY DEF Roles, Worked, BridgeTypes, ServiceTypes, SetupTypes, Lives
  <2>7. Creds'
      BY DEF Creds, Sockets, Roles, BridgeTypes, ServiceTypes, Lives, Loaded
  <2>8. SavedStep /\ PairedStep
      BY DEF SavedStep, PairedStep, Creds, Sockets, Roles, BridgeTypes, ServiceTypes, Lives, Usable, Loaded
  <2> QED
      BY <2>1, <2>2, <2>3, <2>4, <2>5, <2>6, <2>7, <2>8 DEF Inductive, IInv, Types
<1>9. ASSUME Close(b)
      PROVE  Inductive
  <2> USE <1>9 DEF Close, Spend
  <2>1. BridgeTypes' /\ SessionTypes'
      BY DEF BridgeTypes, SessionTypes, ServiceTypes, SetupTypes, Sockets, Roles, Loaded
  <2>2. ServiceTypes'
      BY DEF ServiceTypes
  <2>3. SetupTypes'
      BY DEF SetupTypes
  <2>4. Flags'
      BY DEF Flags, Usable, credVars
  <2>5. Sockets'
      BY DEF Sockets, BridgeTypes, ServiceTypes, Lives
  <2>6. Roles' /\ Worked'
      BY DEF Roles, Worked, BridgeTypes, ServiceTypes, SetupTypes, Lives
  <2>7. Creds'
      BY DEF Creds, Sockets, Roles, BridgeTypes, ServiceTypes, Lives, Loaded
  <2>8. SavedStep /\ PairedStep
      BY DEF SavedStep, PairedStep, Creds, Sockets, Roles, BridgeTypes, ServiceTypes, Lives, Usable, Loaded
  <2> QED
      BY <2>1, <2>2, <2>3, <2>4, <2>5, <2>6, <2>7, <2>8 DEF Inductive, IInv, Types
<1>10. ASSUME WriteFails(b)
      PROVE  Inductive
  <2> USE <1>10 DEF WriteFails, Spend, Fails, Exit
  <2>1. BridgeTypes' /\ SessionTypes'
      BY DEF BridgeTypes, SessionTypes, ServiceTypes, SetupTypes, Sockets, Roles, Loaded
  <2>2. ServiceTypes'
      BY DEF ServiceTypes
  <2>3. SetupTypes'
      BY DEF SetupTypes
  <2>4. Flags'
      BY DEF Flags, Usable, credVars
  <2>5. Sockets'
      BY DEF Sockets, BridgeTypes, ServiceTypes, Lives
  <2>6. Roles' /\ Worked'
      BY DEF Roles, Worked, BridgeTypes, ServiceTypes, SetupTypes, Lives
  <2>7. Creds'
      BY DEF Creds, Sockets, Roles, BridgeTypes, ServiceTypes, Lives, Loaded
  <2>8. SavedStep /\ PairedStep
      BY DEF SavedStep, PairedStep, Creds, Sockets, Roles, BridgeTypes, ServiceTypes, Lives, Usable, Loaded
  <2> QED
      BY <2>1, <2>2, <2>3, <2>4, <2>5, <2>6, <2>7, <2>8 DEF Inductive, IInv, Types
<1>11. ASSUME FlushTimesOut(b)
      PROVE  Inductive
  <2> USE <1>11 DEF FlushTimesOut, Spend, Flushed, Fails, Exit
  <2>1. BridgeTypes' /\ SessionTypes'
      BY DEF BridgeTypes, SessionTypes, ServiceTypes, SetupTypes, Sockets, Roles, Loaded
  <2>2. ServiceTypes'
      BY DEF ServiceTypes
  <2>3. SetupTypes'
      BY DEF SetupTypes
  <2>4. Flags'
      BY DEF Flags, Usable, credVars
  <2>5. Sockets'
      BY DEF Sockets, BridgeTypes, ServiceTypes, Lives
  <2>6. Roles' /\ Worked'
      BY DEF Roles, Worked, BridgeTypes, ServiceTypes, SetupTypes, Lives
  <2>7. Creds'
      BY DEF Creds, Sockets, Roles, BridgeTypes, ServiceTypes, Lives, Loaded
  <2>8. SavedStep /\ PairedStep
      BY DEF SavedStep, PairedStep, Creds, Sockets, Roles, BridgeTypes, ServiceTypes, Lives, Usable, Loaded
  <2> QED
      BY <2>1, <2>2, <2>3, <2>4, <2>5, <2>6, <2>7, <2>8 DEF Inductive, IInv, Types
<1>12. ASSUME BridgeCrashes(b)
      PROVE  Inductive
  <2> USE <1>12 DEF BridgeCrashes, Spend, Fails, Exit
  <2>1. BridgeTypes' /\ SessionTypes'
      BY DEF BridgeTypes, SessionTypes, ServiceTypes, SetupTypes, Sockets, Roles, Loaded
  <2>2. ServiceTypes'
      BY DEF ServiceTypes
  <2>3. SetupTypes'
      BY DEF SetupTypes
  <2>4. Flags'
      BY DEF Flags, Usable, credVars
  <2>5. Sockets'
      BY DEF Sockets, BridgeTypes, ServiceTypes, Lives
  <2>6. Roles' /\ Worked'
      BY DEF Roles, Worked, BridgeTypes, ServiceTypes, SetupTypes, Lives
  <2>7. Creds'
      BY DEF Creds, Sockets, Roles, BridgeTypes, ServiceTypes, Lives, Loaded
  <2>8. SavedStep /\ PairedStep
      BY DEF SavedStep, PairedStep, Creds, Sockets, Roles, BridgeTypes, ServiceTypes, Lives, Usable, Loaded
  <2> QED
      BY <2>1, <2>2, <2>3, <2>4, <2>5, <2>6, <2>7, <2>8 DEF Inductive, IInv, Types
<1> QED
    BY <1>1, <1>2, <1>3, <1>4, <1>5, <1>6, <1>7, <1>8, <1>9, <1>10, <1>11, <1>12
    DEF BridgeStep, BridgeEvent

\* The steps of the service keep it, those that concern no bridge and those that
\* start or end one.
LEMMA ServiceHolds ==
  ASSUME IInv, UNCHANGED <<setupVars, supervised>>, Charged,
         \/ Start \/ ServiceStep \/ Stop \/ ServiceFault
         \/ \E w \in {"turn", "cron"} : Begin(w) \/ End(w)
  PROVE  Inductive
<1> USE Bounds, Ranges DEF IInv, Types, Charged, bridgeVars, credVars, serviceVars, setupVars
<1>1. ASSUME Start
      PROVE  Inductive
  <2> USE <1>1 DEF Start, Goto
  <2>1. BridgeTypes' /\ SessionTypes'
      BY DEF BridgeTypes, SessionTypes, bridgeVars, credVars
  <2>2. ServiceTypes'
      BY DEF ServiceTypes
  <2>3. SetupTypes'
      BY DEF SetupTypes
  <2>4. Flags'
      BY DEF Flags, Usable, credVars
  <2>5. Roles' /\ Worked'
      BY DEF Roles, Worked, BridgeTypes, ServiceTypes, SetupTypes, Lives
  <2>6. Sockets' /\ Creds' /\ SavedStep /\ PairedStep
      BY Untouched DEF bridgeVars, credVars, setupVars
  <2> QED
      BY <2>1, <2>2, <2>3, <2>4, <2>5, <2>6 DEF Inductive, IInv, Types
<1>2. ASSUME Preflight
      PROVE  Inductive
  <2> USE <1>2 DEF Preflight, Goto, Return
  <2>1. BridgeTypes' /\ SessionTypes'
      BY DEF BridgeTypes, SessionTypes, bridgeVars, credVars
  <2>2. ServiceTypes'
    <3>1. CASE file # {} /\ ~Usable(file)
        BY <3>1 DEF ServiceTypes
    <3>2. CASE ~(file # {} /\ ~Usable(file))
        BY <3>2 DEF ServiceTypes
    <3> QED
        BY <3>1, <3>2
  <2>3. SetupTypes'
      BY DEF SetupTypes
  <2>4. Flags'
      BY DEF Flags, Usable, credVars
  <2>5. Roles' /\ Worked'
      BY DEF Roles, Worked, BridgeTypes, ServiceTypes, SetupTypes, Lives
  <2>6. Sockets' /\ Creds' /\ SavedStep /\ PairedStep
      BY Untouched DEF bridgeVars, credVars, setupVars
  <2> QED
      BY <2>1, <2>2, <2>3, <2>4, <2>5, <2>6 DEF Inductive, IInv, Types
<1>3. ASSUME Record
      PROVE  Inductive
  <2> USE <1>3 DEF Record, Goto
  <2>1. BridgeTypes' /\ SessionTypes'
      BY DEF BridgeTypes, SessionTypes, bridgeVars, credVars
  <2>2. ServiceTypes'
      BY DEF ServiceTypes
  <2>3. SetupTypes'
      BY DEF SetupTypes
  <2>4. Flags'
      BY DEF Flags, Usable, credVars
  <2>5. Roles' /\ Worked'
      BY DEF Roles, Worked, BridgeTypes, ServiceTypes, SetupTypes, Lives
  <2>6. Sockets' /\ Creds' /\ SavedStep /\ PairedStep
      BY Untouched DEF bridgeVars, credVars, setupVars
  <2> QED
      BY <2>1, <2>2, <2>3, <2>4, <2>5, <2>6 DEF Inductive, IInv, Types
<1>4. ASSUME Connected
      PROVE  Inductive
  <2> USE <1>4 DEF Connected, Goto
  <2>1. BridgeTypes' /\ SessionTypes'
      BY DEF BridgeTypes, SessionTypes, bridgeVars, credVars
  <2>2. ServiceTypes'
      BY DEF ServiceTypes
  <2>3. SetupTypes'
      BY DEF SetupTypes
  <2>4. Flags'
      BY DEF Flags, Usable, credVars
  <2>5. Roles' /\ Worked'
      BY DEF Roles, Worked, BridgeTypes, ServiceTypes, SetupTypes, Lives
  <2>6. Sockets' /\ Creds' /\ SavedStep /\ PairedStep
      BY Untouched DEF bridgeVars, credVars, setupVars
  <2> QED
      BY <2>1, <2>2, <2>3, <2>4, <2>5, <2>6 DEF Inductive, IInv, Types
<1>5. ASSUME ChildExited
      PROVE  Inductive
  <2> USE <1>5 DEF ChildExited, Attempt, Goto
  <2>1. BridgeTypes' /\ SessionTypes'
      BY DEF BridgeTypes, SessionTypes, bridgeVars, credVars
  <2>2. ServiceTypes'
      BY DEF ServiceTypes
  <2>3. SetupTypes'
      BY DEF SetupTypes
  <2>4. Flags'
      BY DEF Flags, Usable, credVars
  <2>5. Roles' /\ Worked'
      BY DEF Roles, Worked, BridgeTypes, ServiceTypes, SetupTypes, Lives
  <2>6. Sockets' /\ Creds' /\ SavedStep /\ PairedStep
      BY Untouched DEF bridgeVars, credVars, setupVars
  <2> QED
      BY <2>1, <2>2, <2>3, <2>4, <2>5, <2>6 DEF Inductive, IInv, Types
<1>6. ASSUME Recover
      PROVE  Inductive
  <2> USE <1>6 DEF Recover, Goto
  <2>1. BridgeTypes' /\ SessionTypes'
      BY DEF BridgeTypes, SessionTypes, bridgeVars, credVars
  <2>2. ServiceTypes'
      BY DEF ServiceTypes
  <2>3. SetupTypes'
      BY DEF SetupTypes
  <2>4. Flags'
      BY DEF Flags, Usable, credVars
  <2>5. Roles' /\ Worked'
      BY DEF Roles, Worked, BridgeTypes, ServiceTypes, SetupTypes, Lives
  <2>6. Sockets' /\ Creds' /\ SavedStep /\ PairedStep
      BY Untouched DEF bridgeVars, credVars, setupVars
  <2> QED
      BY <2>1, <2>2, <2>3, <2>4, <2>5, <2>6 DEF Inductive, IInv, Types
<1>7. ASSUME BridgeDied
      PROVE  Inductive
  <2> USE <1>7 DEF BridgeDied, Exited, Goto
  <2>1. BridgeTypes' /\ SessionTypes'
      BY DEF BridgeTypes, SessionTypes, bridgeVars, credVars
  <2>2. ServiceTypes'
      BY DEF ServiceTypes
  <2>3. SetupTypes'
      BY DEF SetupTypes
  <2>4. Flags'
      BY DEF Flags, Usable, credVars
  <2>5. Roles' /\ Worked'
      BY DEF Roles, Worked, BridgeTypes, ServiceTypes, SetupTypes, Lives
  <2>6. Sockets' /\ Creds' /\ SavedStep /\ PairedStep
      BY Untouched DEF bridgeVars, credVars, setupVars
  <2> QED
      BY <2>1, <2>2, <2>3, <2>4, <2>5, <2>6 DEF Inductive, IInv, Types
<1>8. ASSUME Quiesce
      PROVE  Inductive
  <2> USE <1>8 DEF Quiesce, Drain, Goto
  <2>1. BridgeTypes' /\ SessionTypes'
      BY DEF BridgeTypes, SessionTypes, bridgeVars, credVars
  <2>2. ServiceTypes'
      BY DEF ServiceTypes
  <2>3. SetupTypes'
      BY DEF SetupTypes
  <2>4. Flags'
      BY DEF Flags, Usable, credVars
  <2>5. Roles' /\ Worked'
      BY DEF Roles, Worked, BridgeTypes, ServiceTypes, SetupTypes, Lives
  <2>6. Sockets' /\ Creds' /\ SavedStep /\ PairedStep
      BY Untouched DEF bridgeVars, credVars, setupVars
  <2> QED
      BY <2>1, <2>2, <2>3, <2>4, <2>5, <2>6 DEF Inductive, IInv, Types
<1>9. ASSUME Unrecord
      PROVE  Inductive
  <2> USE <1>9 DEF Unrecord, Goto
  <2>1. BridgeTypes' /\ SessionTypes'
      BY DEF BridgeTypes, SessionTypes, bridgeVars, credVars
  <2>2. ServiceTypes'
      BY DEF ServiceTypes
  <2>3. SetupTypes'
      BY DEF SetupTypes
  <2>4. Flags'
      BY DEF Flags, Usable, credVars
  <2>5. Roles' /\ Worked'
      BY DEF Roles, Worked, BridgeTypes, ServiceTypes, SetupTypes, Lives
  <2>6. Sockets' /\ Creds' /\ SavedStep /\ PairedStep
      BY Untouched DEF bridgeVars, credVars, setupVars
  <2> QED
      BY <2>1, <2>2, <2>3, <2>4, <2>5, <2>6 DEF Inductive, IInv, Types
<1>10. ASSUME Reap
      PROVE  Inductive
  <2> USE <1>10 DEF Reap, Reaped, Goto, Return
  <2>1. BridgeTypes' /\ SessionTypes'
      BY DEF BridgeTypes, SessionTypes, bridgeVars, credVars
  <2>2. ServiceTypes'
    <3>1. CASE restarting
        BY <3>1 DEF ServiceTypes
    <3>2. CASE ~(restarting)
        BY <3>2 DEF ServiceTypes
    <3> QED
        BY <3>1, <3>2
  <2>3. SetupTypes'
      BY DEF SetupTypes
  <2>4. Flags'
      BY DEF Flags, Usable, credVars
  <2>5. Roles' /\ Worked'
      BY DEF Roles, Worked, BridgeTypes, ServiceTypes, SetupTypes, Lives
  <2>6. Sockets' /\ Creds' /\ SavedStep /\ PairedStep
      BY Untouched DEF bridgeVars, credVars, setupVars
  <2> QED
      BY <2>1, <2>2, <2>3, <2>4, <2>5, <2>6 DEF Inductive, IInv, Types
<1>11. ASSUME Stop
      PROVE  Inductive
  <2> USE <1>11 DEF Stop, Goto
  <2>1. BridgeTypes' /\ SessionTypes'
      BY DEF BridgeTypes, SessionTypes, bridgeVars, credVars
  <2>2. ServiceTypes'
      BY DEF ServiceTypes
  <2>3. SetupTypes'
      BY DEF SetupTypes
  <2>4. Flags'
      BY DEF Flags, Usable, credVars
  <2>5. Roles' /\ Worked'
      BY DEF Roles, Worked, BridgeTypes, ServiceTypes, SetupTypes, Lives
  <2>6. Sockets' /\ Creds' /\ SavedStep /\ PairedStep
      BY Untouched DEF bridgeVars, credVars, setupVars
  <2> QED
      BY <2>1, <2>2, <2>3, <2>4, <2>5, <2>6 DEF Inductive, IInv, Types
<1>12. ASSUME \E w \in {"turn", "cron"} : Begin(w) \/ End(w)
      PROVE  Inductive
  <2> USE <1>12 DEF Begin, End
  <2>1. BridgeTypes' /\ SessionTypes'
      BY DEF BridgeTypes, SessionTypes, bridgeVars, credVars
  <2>2. ServiceTypes'
      BY DEF ServiceTypes
  <2>3. SetupTypes'
      BY DEF SetupTypes
  <2>4. Flags'
      BY DEF Flags, Usable, credVars
  <2>5. Roles' /\ Worked'
      BY DEF Roles, Worked, BridgeTypes, ServiceTypes, SetupTypes, Lives
  <2>6. Sockets' /\ Creds' /\ SavedStep /\ PairedStep
      BY Untouched DEF bridgeVars, credVars, setupVars
  <2> QED
      BY <2>1, <2>2, <2>3, <2>4, <2>5, <2>6 DEF Inductive, IInv, Types
<1>13. ASSUME ReadyTimesOut
      PROVE  Inductive
  <2> USE <1>13 DEF ReadyTimesOut, Spend, Attempt, Goto
  <2>1. BridgeTypes' /\ SessionTypes'
      BY DEF BridgeTypes, SessionTypes, bridgeVars, credVars
  <2>2. ServiceTypes'
      BY DEF ServiceTypes
  <2>3. SetupTypes'
      BY DEF SetupTypes
  <2>4. Flags'
      BY DEF Flags, Usable, credVars
  <2>5. Roles' /\ Worked'
      BY DEF Roles, Worked, BridgeTypes, ServiceTypes, SetupTypes, Lives
  <2>6. Sockets' /\ Creds' /\ SavedStep /\ PairedStep
      BY Untouched DEF bridgeVars, credVars, setupVars
  <2> QED
      BY <2>1, <2>2, <2>3, <2>4, <2>5, <2>6 DEF Inductive, IInv, Types
<1>14. ASSUME RecoverFails
      PROVE  Inductive
  <2> USE <1>14 DEF RecoverFails, Spend, Goto
  <2>1. BridgeTypes' /\ SessionTypes'
      BY DEF BridgeTypes, SessionTypes, bridgeVars, credVars
  <2>2. ServiceTypes'
      BY DEF ServiceTypes
  <2>3. SetupTypes'
      BY DEF SetupTypes
  <2>4. Flags'
      BY DEF Flags, Usable, credVars
  <2>5. Roles' /\ Worked'
      BY DEF Roles, Worked, BridgeTypes, ServiceTypes, SetupTypes, Lives
  <2>6. Sockets' /\ Creds' /\ SavedStep /\ PairedStep
      BY Untouched DEF bridgeVars, credVars, setupVars
  <2> QED
      BY <2>1, <2>2, <2>3, <2>4, <2>5, <2>6 DEF Inductive, IInv, Types
<1>15. ASSUME StaleUnverified
      PROVE  Inductive
  <2> USE <1>15 DEF StaleUnverified, Spend, Goto
  <2>1. BridgeTypes' /\ SessionTypes'
      BY DEF BridgeTypes, SessionTypes, bridgeVars, credVars
  <2>2. ServiceTypes'
      BY DEF ServiceTypes
  <2>3. SetupTypes'
      BY DEF SetupTypes
  <2>4. Flags'
      BY DEF Flags, Usable, credVars
  <2>5. Roles' /\ Worked'
      BY DEF Roles, Worked, BridgeTypes, ServiceTypes, SetupTypes, Lives
  <2>6. Sockets' /\ Creds' /\ SavedStep /\ PairedStep
      BY Untouched DEF bridgeVars, credVars, setupVars
  <2> QED
      BY <2>1, <2>2, <2>3, <2>4, <2>5, <2>6 DEF Inductive, IInv, Types
<1>16. ASSUME StopStale
      PROVE  Inductive
  <2> USE <1>16 DEF StopStale, Told, Fails, Exit, Mark, Goto
  <2>1. BridgeTypes' /\ SessionTypes'
      BY DEF BridgeTypes, SessionTypes, ServiceTypes, SetupTypes, Sockets, Roles, Loaded
  <2>2. ServiceTypes'
      BY DEF ServiceTypes
  <2>3. SetupTypes'
      BY DEF SetupTypes
  <2>4. Flags'
      BY DEF Flags, Usable, credVars
  <2>5. Sockets'
      BY DEF Sockets, BridgeTypes, ServiceTypes, Lives
  <2>6. Roles' /\ Worked'
      BY DEF Roles, Worked, BridgeTypes, ServiceTypes, SetupTypes, Lives
  <2>7. Creds'
      BY DEF Creds, Sockets, Roles, BridgeTypes, ServiceTypes, Lives, Loaded
  <2>8. SavedStep /\ PairedStep
      BY DEF SavedStep, PairedStep, Creds, Sockets, Roles, BridgeTypes, ServiceTypes, Lives, Usable, Loaded
  <2> QED
      BY <2>1, <2>2, <2>3, <2>4, <2>5, <2>6, <2>7, <2>8 DEF Inductive, IInv, Types
<1>17. ASSUME Spawn
      PROVE  Inductive
  <2> USE <1>17 DEF Spawn, Spawned, Slots, Mark, Goto
  <2>1. BridgeTypes' /\ SessionTypes'
      BY DEF BridgeTypes, SessionTypes, ServiceTypes, SetupTypes, Sockets, Roles, Loaded
  <2>2. ServiceTypes'
      BY DEF ServiceTypes
  <2>3. SetupTypes'
      BY DEF SetupTypes
  <2>4. Flags'
      BY DEF Flags, Usable, credVars
  <2>5. Sockets'
      BY DEF Sockets, BridgeTypes, ServiceTypes, Lives
  <2>6. Roles' /\ Worked'
      BY DEF Roles, Worked, BridgeTypes, ServiceTypes, SetupTypes, Lives
  <2>7. Creds'
      BY DEF Creds, Sockets, Roles, BridgeTypes, ServiceTypes, Lives, Loaded
  <2>8. SavedStep /\ PairedStep
      BY DEF SavedStep, PairedStep, Creds, Sockets, Roles, BridgeTypes, ServiceTypes, Lives, Usable, Loaded
  <2> QED
      BY <2>1, <2>2, <2>3, <2>4, <2>5, <2>6, <2>7, <2>8 DEF Inductive, IInv, Types
<1>18. ASSUME Terminate
      PROVE  Inductive
  <2> USE <1>18 DEF Terminate, Told, Fails, Exit, Mark, Goto
  <2>1. BridgeTypes' /\ SessionTypes'
      BY DEF BridgeTypes, SessionTypes, ServiceTypes, SetupTypes, Sockets, Roles, Loaded
  <2>2. ServiceTypes'
      BY DEF ServiceTypes
  <2>3. SetupTypes'
      BY DEF SetupTypes
  <2>4. Flags'
      BY DEF Flags, Usable, credVars
  <2>5. Sockets'
      BY DEF Sockets, BridgeTypes, ServiceTypes, Lives
  <2>6. Roles' /\ Worked'
      BY DEF Roles, Worked, BridgeTypes, ServiceTypes, SetupTypes, Lives
  <2>7. Creds'
      BY DEF Creds, Sockets, Roles, BridgeTypes, ServiceTypes, Lives, Loaded
  <2>8. SavedStep /\ PairedStep
      BY DEF SavedStep, PairedStep, Creds, Sockets, Roles, BridgeTypes, ServiceTypes, Lives, Usable, Loaded
  <2> QED
      BY <2>1, <2>2, <2>3, <2>4, <2>5, <2>6, <2>7, <2>8 DEF Inductive, IInv, Types
<1>19. ASSUME Kill
      PROVE  Inductive
  <2> USE <1>19 DEF Kill, Spend, Fails, Exit
  <2>1. BridgeTypes' /\ SessionTypes'
      BY DEF BridgeTypes, SessionTypes, ServiceTypes, SetupTypes, Sockets, Roles, Loaded
  <2>2. ServiceTypes'
      BY DEF ServiceTypes
  <2>3. SetupTypes'
      BY DEF SetupTypes
  <2>4. Flags'
      BY DEF Flags, Usable, credVars
  <2>5. Sockets'
      BY DEF Sockets, BridgeTypes, ServiceTypes, Lives
  <2>6. Roles' /\ Worked'
      BY DEF Roles, Worked, BridgeTypes, ServiceTypes, SetupTypes, Lives
  <2>7. Creds'
      BY DEF Creds, Sockets, Roles, BridgeTypes, ServiceTypes, Lives, Loaded
  <2>8. SavedStep /\ PairedStep
      BY DEF SavedStep, PairedStep, Creds, Sockets, Roles, BridgeTypes, ServiceTypes, Lives, Usable, Loaded
  <2> QED
      BY <2>1, <2>2, <2>3, <2>4, <2>5, <2>6, <2>7, <2>8 DEF Inductive, IInv, Types
<1>20. ASSUME Dies
      PROVE  Inductive
  <2> USE <1>20 DEF Dies, Spend, Return, Exit, Goto
  <2>1. BridgeTypes' /\ SessionTypes'
      BY DEF BridgeTypes, SessionTypes, ServiceTypes, SetupTypes, Sockets, Roles, Loaded
  <2>2. ServiceTypes'
      BY DEF ServiceTypes
  <2>3. SetupTypes'
      BY DEF SetupTypes
  <2>4. Flags'
      BY DEF Flags, Usable, credVars
  <2>5. Sockets'
      BY DEF Sockets, BridgeTypes, ServiceTypes, Lives
  <2>6. Roles' /\ Worked'
      BY DEF Roles, Worked, BridgeTypes, ServiceTypes, SetupTypes, Lives
  <2>7. Creds'
      BY DEF Creds, Sockets, Roles, BridgeTypes, ServiceTypes, Lives, Loaded
  <2>8. SavedStep /\ PairedStep
      BY DEF SavedStep, PairedStep, Creds, Sockets, Roles, BridgeTypes, ServiceTypes, Lives, Usable, Loaded
  <2> QED
      BY <2>1, <2>2, <2>3, <2>4, <2>5, <2>6, <2>7, <2>8 DEF Inductive, IInv, Types
<1> QED
    BY <1>1, <1>2, <1>3, <1>4, <1>5, <1>6, <1>7, <1>8, <1>9, <1>10, <1>11, <1>12, <1>13, <1>14, <1>15, <1>16, <1>17, <1>18, <1>19, <1>20
    DEF ServiceStep, ServiceFault

\* The steps of the pairing command keep it.
LEMMA SetupHolds ==
  ASSUME IInv, UNCHANGED <<serviceVars, supervised>>, Charged,
         SetupStep \/ SetUp \/ HangUp
  PROVE  Inductive
<1> USE Bounds, Ranges DEF IInv, Types, Charged, bridgeVars, credVars, serviceVars, setupVars
<1>1. ASSUME SetUp
      PROVE  Inductive
  <2> USE <1>1 DEF SetUp, Spend, Step
  <2>1. BridgeTypes' /\ SessionTypes'
      BY DEF BridgeTypes, SessionTypes, ServiceTypes, SetupTypes, Sockets, Roles, Loaded
  <2>2. ServiceTypes'
      BY DEF ServiceTypes
  <2>3. SetupTypes'
      BY DEF SetupTypes
  <2>4. Flags'
      BY DEF Flags, Usable, credVars
  <2>5. Sockets'
      BY DEF Sockets, BridgeTypes, ServiceTypes, Lives
  <2>6. Roles' /\ Worked'
      BY DEF Roles, Worked, BridgeTypes, ServiceTypes, SetupTypes, Lives
  <2>7. Creds'
      BY DEF Creds, Sockets, Roles, BridgeTypes, ServiceTypes, Lives, Loaded
  <2>8. SavedStep /\ PairedStep
      BY DEF SavedStep, PairedStep, Creds, Sockets, Roles, BridgeTypes, ServiceTypes, Lives, Usable, Loaded
  <2> QED
      BY <2>1, <2>2, <2>3, <2>4, <2>5, <2>6, <2>7, <2>8 DEF Inductive, IInv, Types
<1>2. ASSUME Keep
      PROVE  Inductive
  <2> USE <1>2 DEF Keep, SetupEnds, Step
  <2>1. BridgeTypes' /\ SessionTypes'
      BY DEF BridgeTypes, SessionTypes, ServiceTypes, SetupTypes, Sockets, Roles, Loaded
  <2>2. ServiceTypes'
      BY DEF ServiceTypes
  <2>3. SetupTypes'
      BY DEF SetupTypes
  <2>4. Flags'
      BY DEF Flags, Usable, credVars
  <2>5. Sockets'
      BY DEF Sockets, BridgeTypes, ServiceTypes, Lives
  <2>6. Roles' /\ Worked'
      BY DEF Roles, Worked, BridgeTypes, ServiceTypes, SetupTypes, Lives
  <2>7. Creds'
      BY DEF Creds, Sockets, Roles, BridgeTypes, ServiceTypes, Lives, Loaded
  <2>8. SavedStep /\ PairedStep
      BY DEF SavedStep, PairedStep, Creds, Sockets, Roles, BridgeTypes, ServiceTypes, Lives, Usable, Loaded
  <2> QED
      BY <2>1, <2>2, <2>3, <2>4, <2>5, <2>6, <2>7, <2>8 DEF Inductive, IInv, Types
<1>3. ASSUME Disable
      PROVE  Inductive
  <2> USE <1>3 DEF Disable, Disabled, Step
  <2>1. BridgeTypes' /\ SessionTypes'
      BY DEF BridgeTypes, SessionTypes, ServiceTypes, SetupTypes, Sockets, Roles, Loaded
  <2>2. ServiceTypes'
      BY DEF ServiceTypes
  <2>3. SetupTypes'
      BY DEF SetupTypes
  <2>4. Flags'
      BY DEF Flags, Usable, credVars
  <2>5. Sockets'
      BY DEF Sockets, BridgeTypes, ServiceTypes, Lives
  <2>6. Roles' /\ Worked'
      BY DEF Roles, Worked, BridgeTypes, ServiceTypes, SetupTypes, Lives
  <2>7. Creds'
      BY DEF Creds, Sockets, Roles, BridgeTypes, ServiceTypes, Lives, Loaded
  <2>8. SavedStep /\ PairedStep
      BY DEF SavedStep, PairedStep, Creds, Sockets, Roles, BridgeTypes, ServiceTypes, Lives, Usable, Loaded
  <2> QED
      BY <2>1, <2>2, <2>3, <2>4, <2>5, <2>6, <2>7, <2>8 DEF Inductive, IInv, Types
<1>4. ASSUME Clear
      PROVE  Inductive
  <2> USE <1>4 DEF Clear, Step
  <2>1. BridgeTypes' /\ SessionTypes'
      BY DEF BridgeTypes, SessionTypes, ServiceTypes, SetupTypes, Sockets, Roles, Loaded
  <2>2. ServiceTypes'
      BY DEF ServiceTypes
  <2>3. SetupTypes'
      BY DEF SetupTypes
  <2>4. Flags'
      BY DEF Flags, Usable, credVars
  <2>5. Sockets'
      BY DEF Sockets, BridgeTypes, ServiceTypes, Lives
  <2>6. Roles' /\ Worked'
      BY DEF Roles, Worked, BridgeTypes, ServiceTypes, SetupTypes, Lives
  <2>7. Creds'
      BY DEF Creds, Sockets, Roles, BridgeTypes, ServiceTypes, Lives, Loaded
  <2>8. SavedStep /\ PairedStep
      BY DEF SavedStep, PairedStep, Creds, Sockets, Roles, BridgeTypes, ServiceTypes, Lives, Usable, Loaded
  <2> QED
      BY <2>1, <2>2, <2>3, <2>4, <2>5, <2>6, <2>7, <2>8 DEF Inductive, IInv, Types
<1>5. ASSUME SpawnPairing
      PROVE  Inductive
  <2> USE <1>5 DEF SpawnPairing, Spawned, Slots, Mark, Step
  <2>1. BridgeTypes' /\ SessionTypes'
      BY DEF BridgeTypes, SessionTypes, ServiceTypes, SetupTypes, Sockets, Roles, Loaded
  <2>2. ServiceTypes'
      BY DEF ServiceTypes
  <2>3. SetupTypes'
      BY DEF SetupTypes
  <2>4. Flags'
      BY DEF Flags, Usable, credVars
  <2>5. Sockets'
      BY DEF Sockets, BridgeTypes, ServiceTypes, Lives
  <2>6. Roles' /\ Worked'
      BY DEF Roles, Worked, BridgeTypes, ServiceTypes, SetupTypes, Lives
  <2>7. Creds'
      BY DEF Creds, Sockets, Roles, BridgeTypes, ServiceTypes, Lives, Loaded
  <2>8. SavedStep /\ PairedStep
      BY DEF SavedStep, PairedStep, Creds, Sockets, Roles, BridgeTypes, ServiceTypes, Lives, Usable, Loaded
  <2> QED
      BY <2>1, <2>2, <2>3, <2>4, <2>5, <2>6, <2>7, <2>8 DEF Inductive, IInv, Types
<1>6. ASSUME Paired
      PROVE  Inductive
  <2> USE <1>6 DEF Paired, SetupEnds, Step
  <2>1. BridgeTypes' /\ SessionTypes'
      BY DEF BridgeTypes, SessionTypes, ServiceTypes, SetupTypes, Sockets, Roles, Loaded
  <2>2. ServiceTypes'
      BY DEF ServiceTypes
  <2>3. SetupTypes'
      BY DEF SetupTypes
  <2>4. Flags'
      BY DEF Flags, Usable, credVars
  <2>5. Sockets'
      BY DEF Sockets, BridgeTypes, ServiceTypes, Lives
  <2>6. Roles' /\ Worked'
      BY DEF Roles, Worked, BridgeTypes, ServiceTypes, SetupTypes, Lives
  <2>7. Creds'
      BY DEF Creds, Sockets, Roles, BridgeTypes, ServiceTypes, Lives, Loaded
  <2>8. SavedStep /\ PairedStep
      BY DEF SavedStep, PairedStep, Creds, Sockets, Roles, BridgeTypes, ServiceTypes, Lives, Usable, Loaded
  <2> QED
      BY <2>1, <2>2, <2>3, <2>4, <2>5, <2>6, <2>7, <2>8 DEF Inductive, IInv, Types
<1>7. ASSUME Interrupt
      PROVE  Inductive
  <2> USE <1>7 DEF Interrupt, Told, Fails, Exit, Mark, Step
  <2>1. BridgeTypes' /\ SessionTypes'
      BY DEF BridgeTypes, SessionTypes, ServiceTypes, SetupTypes, Sockets, Roles, Loaded
  <2>2. ServiceTypes'
      BY DEF ServiceTypes
  <2>3. SetupTypes'
      BY DEF SetupTypes
  <2>4. Flags'
      BY DEF Flags, Usable, credVars
  <2>5. Sockets'
      BY DEF Sockets, BridgeTypes, ServiceTypes, Lives
  <2>6. Roles' /\ Worked'
      BY DEF Roles, Worked, BridgeTypes, ServiceTypes, SetupTypes, Lives
  <2>7. Creds'
      BY DEF Creds, Sockets, Roles, BridgeTypes, ServiceTypes, Lives, Loaded
  <2>8. SavedStep /\ PairedStep
      BY DEF SavedStep, PairedStep, Creds, Sockets, Roles, BridgeTypes, ServiceTypes, Lives, Usable, Loaded
  <2> QED
      BY <2>1, <2>2, <2>3, <2>4, <2>5, <2>6, <2>7, <2>8 DEF Inductive, IInv, Types
<1>8. ASSUME Interrupted
      PROVE  Inductive
  <2> USE <1>8 DEF Interrupted, SetupEnds, Fails, Exit, Step
  <2>1. BridgeTypes' /\ SessionTypes'
      BY DEF BridgeTypes, SessionTypes, ServiceTypes, SetupTypes, Sockets, Roles, Loaded
  <2>2. ServiceTypes'
      BY DEF ServiceTypes
  <2>3. SetupTypes'
      BY DEF SetupTypes
  <2>4. Flags'
      BY DEF Flags, Usable, credVars
  <2>5. Sockets'
      BY DEF Sockets, BridgeTypes, ServiceTypes, Lives
  <2>6. Roles' /\ Worked'
      BY DEF Roles, Worked, BridgeTypes, ServiceTypes, SetupTypes, Lives
  <2>7. Creds'
      BY DEF Creds, Sockets, Roles, BridgeTypes, ServiceTypes, Lives, Loaded
  <2>8. SavedStep /\ PairedStep
      BY DEF SavedStep, PairedStep, Creds, Sockets, Roles, BridgeTypes, ServiceTypes, Lives, Usable, Loaded
  <2> QED
      BY <2>1, <2>2, <2>3, <2>4, <2>5, <2>6, <2>7, <2>8 DEF Inductive, IInv, Types
<1>9. ASSUME HangUp
      PROVE  Inductive
  <2> USE <1>9 DEF HangUp, Spend, SetupEnds, Fails, Exit, Step
  <2>1. BridgeTypes' /\ SessionTypes'
      BY DEF BridgeTypes, SessionTypes, ServiceTypes, SetupTypes, Sockets, Roles, Loaded
  <2>2. ServiceTypes'
      BY DEF ServiceTypes
  <2>3. SetupTypes'
      BY DEF SetupTypes
  <2>4. Flags'
      BY DEF Flags, Usable, credVars
  <2>5. Sockets'
      BY DEF Sockets, BridgeTypes, ServiceTypes, Lives
  <2>6. Roles' /\ Worked'
      BY DEF Roles, Worked, BridgeTypes, ServiceTypes, SetupTypes, Lives
  <2>7. Creds'
      BY DEF Creds, Sockets, Roles, BridgeTypes, ServiceTypes, Lives, Loaded
  <2>8. SavedStep /\ PairedStep
      BY DEF SavedStep, PairedStep, Creds, Sockets, Roles, BridgeTypes, ServiceTypes, Lives, Usable, Loaded
  <2> QED
      BY <2>1, <2>2, <2>3, <2>4, <2>5, <2>6, <2>7, <2>8 DEF Inductive, IInv, Types
<1> QED
    BY <1>1, <1>2, <1>3, <1>4, <1>5, <1>6, <1>7, <1>8, <1>9
    DEF SetupStep

\* The phone removes the device.
LEMMA UnlinkHolds ==
  ASSUME IInv, Unlink, UNCHANGED <<lock, serviceVars, setupVars, supervised>>
  PROVE  Inductive
<1> USE DEF IInv, Types, bridgeVars, serviceVars, setupVars, Unlink, Spend
<1>1. Types'
  <2>1. BridgeTypes' /\ SessionTypes' /\ ServiceTypes'
      BY DEF Types, BridgeTypes, SessionTypes, ServiceTypes
  <2>2. SetupTypes'
      BY Bounds DEF Types, SetupTypes
  <2>3. Flags'
      BY DEF Types, Flags
  <2> QED
      BY <2>1, <2>2, <2>3 DEF Types
<1>2. Sockets' /\ Roles' /\ Worked' /\ Creds'
    BY DEF Sockets, Roles, Worked, Creds, Lives, Loaded
<1>3. SavedStep /\ PairedStep
    BY DEF SavedStep, PairedStep, Usable
<1> QED
    BY <1>1, <1>2, <1>3 DEF Inductive

\* A step in which nothing moves.
LEMMA StutterHolds ==
  ASSUME IInv, UNCHANGED vars
  PROVE  Inductive
<1> USE DEF IInv, vars, bridgeVars, credVars, serviceVars, setupVars
<1>1. Types'
    BY DEF Types, BridgeTypes, SessionTypes, ServiceTypes, SetupTypes, Flags
<1>2. Sockets' /\ Creds' /\ SavedStep /\ PairedStep
    BY Untouched
<1>3. Roles' /\ Worked'
    BY DEF Roles, Worked, Lives
<1> QED
    BY <1>1, <1>2, <1>3 DEF Inductive

\* No step leads out of the invariant, or undoes what is saved.
LEMMA StepHolds ==
  ASSUME IInv, [Next]_vars
  PROVE  Inductive
<1>1. CASE BridgeActs
  <2>1. PICK b \in Bridges : BridgeStep(b) \/ Scan(b) \/ Update(b)
      BY <1>1 DEF BridgeActs
  <2>2. UNCHANGED <<lock, serviceVars, setupVars, supervised>> /\ Charged
      BY <1>1 DEF BridgeActs, Charged
  <2> QED
      BY <2>1, <2>2, BridgeHolds
<1>2. CASE BridgeTroubled
  <2>1. UNCHANGED <<lock, serviceVars, setupVars, supervised>>
      BY <1>2 DEF BridgeTroubled
  <2>2. CASE Unlink
      BY <2>1, <2>2, UnlinkHolds
  <2>3. CASE \E b \in Bridges : BridgeEvent(b)
    <3>1. PICK b \in Bridges : BridgeEvent(b)
        BY <2>3
    <3>2. Charged
        BY <3>1 DEF BridgeEvent, Close, WriteFails, FlushTimesOut, BridgeCrashes, Spend, Charged
    <3> QED
        BY <2>1, <3>1, <3>2, BridgeHolds
  <2> QED
      BY <1>2, <2>2, <2>3 DEF BridgeTroubled
<1>3. CASE ServiceActs
  <2>1. UNCHANGED <<setupVars, supervised>> /\ Charged
      BY <1>3 DEF ServiceActs, Charged
  <2> QED
      BY <1>3, <2>1, ServiceHolds DEF ServiceActs
<1>4. CASE ServiceTroubled
  <2>1. UNCHANGED <<setupVars, supervised>> /\ Charged
      BY <1>4 DEF ServiceTroubled, ServiceFault, StaleUnverified, ReadyTimesOut,
                  RecoverFails, Kill, Dies, Spend, Charged
  <2> QED
      BY <1>4, <2>1, ServiceHolds DEF ServiceTroubled
<1>5. CASE SetupActs
  <2>1. UNCHANGED <<serviceVars, supervised>> /\ Charged
      BY <1>5 DEF SetupActs, Charged
  <2> QED
      BY <1>5, <2>1, SetupHolds DEF SetupActs
<1>6. CASE SetupTroubled
  <2>1. UNCHANGED <<serviceVars, supervised>> /\ Charged
      BY <1>6 DEF SetupTroubled, SetUp, HangUp, Spend, Charged
  <2> QED
      BY <1>6, <2>1, SetupHolds DEF SetupTroubled
<1>7. CASE UNCHANGED vars
    BY <1>7, StutterHolds
<1> QED
    BY <1>1, <1>2, <1>3, <1>4, <1>5, <1>6, <1>7 DEF Next

-----------------------------------------------------------------------------
(* The theorems                                                            *)

\* It holds in every state.
THEOREM InvariantHolds == Spec => []IInv
<1>1. Init => IInv
    BY InitHolds
<1>2. IInv /\ [Next]_vars => IInv'
    BY StepHolds DEF Inductive
<1> QED
    BY <1>1, <1>2, PTL DEF Spec

\* Under systemd a bridge that lives is the one that the service or the
\* pairing command, whichever holds the lock, has started; and it is told to
\* end behind the last turn and the last job.
THEOREM OneBridgeAtATime == Spec => []BridgeSingle
<1>1. IInv => BridgeSingle
  <2> SUFFICES ASSUME IInv
               PROVE  BridgeSingle
      OBVIOUS
  <2>1. TypeOK
    <3>1. linked \in BOOLEAN /\ restarting \in BOOLEAN
        BY DEF IInv, Types, Flags
    <3>2. enabled \in BOOLEAN /\ supervised \in BOOLEAN
        BY DEF IInv, Types, Flags
    <3>3. /\ child \in 0 .. MaxBridges /\ pidfile \in 0 .. MaxBridges
          /\ partner \in 0 .. MaxBridges
      <4>1. Bridges \cup {0} \subseteq 0 .. MaxBridges
          BY Bounds DEF Bridges
      <4> QED
          BY <4>1 DEF IInv, Types, ServiceTypes, SetupTypes
    <3> QED
        BY <3>1, <3>2, <3>3 DEF IInv, Types, BridgeTypes, SessionTypes, ServiceTypes,
                                SetupTypes, TypeOK
  <2>2. BridgeOwned
    <3>1. \A b \in Bridges : b # 0
        BY Ranges
    <3> QED
        BY <3>1 DEF IInv, Roles, Worked, BridgeOwned
  <2> QED
      BY <2>1, <2>2 DEF BridgeSingle
<1> QED
    BY <1>1, InvariantHolds, PTL

\* No reconnect, no second bridge and no death in the middle undoes an update
\* of the credentials, a bridge that exits without a code has saved them all,
\* and no pairing, however it ends, leaves a channel on without a session.
THEOREM SessionIsSafe == Spec => SessionSafe
<1>1. IInv /\ [Next]_vars => [SavedStep]_vars /\ [PairedStep]_vars
    BY StepHolds DEF Inductive
<1>2. Spec => [][SavedStep]_vars /\ [][PairedStep]_vars
    BY <1>1, InvariantHolds, PTL DEF Spec
<1> QED
    BY <1>2 DEF SessionSafe, CredsKept, EnabledIsPaired, SavedStep, PairedStep
=============================================================================
