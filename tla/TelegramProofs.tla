---------------------------- MODULE TelegramProofs ----------------------------
(***************************************************************************)
(* Proofs about the way of a conversation's updates for every number of    *)
(* updates, every script, and every number of crashes, failures and        *)
(* changes of the operator.                                                *)
(***************************************************************************)
EXTENDS TelegramIntake, FiniteSetTheorems, TLAPS

-----------------------------------------------------------------------------
(* The types the steps keep.                                               *)

\* The values of the flags and of the records in flight.
Modes == {"off", "held", "recovered", "releasing", "up", "closing", "draining",
          "leaving"}
TurnPhases == {"none", "working", "model", "ready", "answered", "returned"}
CmdPhases == {"none", "waiting", "executing", "executed", "saved"}
SlotRecord == [m : 0 .. N, at : {"idle", "downloading", "settling"}]
PutRecord == [m : 0 .. N, said : {"none", "pending", "completed"}]

\* The server's queue and the response on its way.
ServerTypes ==
    /\ confirmed \in 1 .. N + 1 /\ offset \in 1 .. N + 1
    /\ fetched \in Seq(Updates) /\ putting \in PutRecord

\* What survives a restart.
StoreTypes ==
    /\ spool \in [Updates -> {"none", "pending", "completed", "gone"}]
    /\ checkpoint \in [claims : SUBSET Updates,
                       phase : {"none", "started", "ready", "unknown"}]
    /\ outcome \in [Updates -> {"none", "started", "completed"}]

\* The way to the handlers.
IntakeTypes ==
    /\ queue \in Seq(Updates) /\ startup \in Seq(Updates)
    /\ enqueued \in SUBSET Updates /\ heldClaims \in SUBSET Updates
    /\ slot \in [Handlers -> SlotRecord]
    /\ \A h \in Handlers : slot[h].at # "idle" => slot[h].m \in Updates
    /\ seen \in SUBSET (0 .. N) /\ cached \in SUBSET Updates

\* Batches, turn and commands.
WorkTypes ==
    /\ batch \in Seq(Updates) /\ late \in Seq(Updates) /\ queued \in Seq(Updates)
    /\ turn \in [claims : Seq(Updates), at : TurnPhases]
    /\ cmd \in [Updates -> CmdPhases]
    /\ after \in [Updates -> SUBSET Updates]
    /\ dropped \in [Updates -> SUBSET Updates]

\* What the proofs' histories hold, the flags and the script.
FlagTypes ==
    /\ kind \in Scripts /\ spent \in 0 .. Budget[kind]
    /\ allowed \in BOOLEAN /\ failed \in BOOLEAN /\ mode \in Modes
    /\ answers \in [Updates -> 0 .. 2] /\ waived \in SUBSET Updates

\* All of them.
Types == ServerTypes /\ StoreTypes /\ IntakeTypes /\ WorkTypes /\ FlagTypes

-----------------------------------------------------------------------------
(* Nothing lost.                                                           *)

\* What has been answered, executed, made void or needs nothing: the causes
\* that no step takes away again.
Warrant(m) ==
    \/ answers[m] > 0 \/ outcome[m] = "completed" \/ m \in waived
    \/ kind[m] \in {"ignored", "edit", "other"}

\* The updates the process has come to, or the server will not send again
\* once it is told the offset.
Reached(m) ==
    \/ m < confirmed \/ m < offset \/ (fetched # <<>> /\ m < Head(fetched))
    \/ \E n \in Updates : m <= n /\ spool[n] = "pending"

\* Behind it, every update is on record as pending or needs nothing more.
KeptSoFar ==
    \A m \in Updates :
        Reached(m) \/ spool[m] \in {"completed", "gone"} =>
            spool[m] = "pending" \/ Warrant(m)

\* A response holds the next updates in a row, and the first is being put.
Polled ==
    /\ \A i \in DOMAIN fetched : fetched[i] = Head(fetched) + i - 1
    /\ fetched # <<>> => confirmed <= Head(fetched)
    /\ putting # Nobody =>
         /\ fetched # <<>> /\ putting.m = Head(fetched)
         /\ spool[putting.m] # "none"
         /\ putting.said = "completed" => spool[putting.m] # "pending"
    /\ mode = "off" \/ Stopping => fetched = <<>> /\ putting = Nobody

\* What is pending is with the process.
PendingIsEnqueued ==
    mode # "off" /\ ~Stopping =>
        \A m \in Updates : spool[m] = "pending" =>
            m \in enqueued \/ putting.m = m \/ Warrant(m)

\* What a handler waits with for a download.
Downloading == {slot[h].m : h \in {g \in Handlers : slot[g].at = "downloading"}}

\* The updates on their way to being accepted.
Pipe == ToSet(queue) \cup ToSet(startup) \cup Downloading

\* Two updates of which the second would be taken for a repetition of the
\* first, although it needs an answer of its own.
Clashes == {p \in Updates \X Updates : MessageKey(p[1]) = p[2] /\ ~Warrant(p[2])}

\* No element stands in relation bad to one behind it.
NoPair(s, bad) == \A i, j \in DOMAIN s : i < j => <<s[i], s[j]>> \notin bad

\* What is in the pipe is in an order that lets none be taken for another.
PipeInOrder ==
    /\ NoPair(queue, Clashes) /\ NoPair(startup, Clashes)
    /\ \A x \in ToSet(startup), y \in ToSet(queue) : <<x, y>> \notin Clashes
    /\ \A x \in Downloading, y \in ToSet(startup) \cup ToSet(queue) :
         <<x, y>> \notin Clashes

\* The message of what is in the pipe or was accepted is enqueued or done.
PipeIsEnqueued ==
    /\ \A x \in Pipe, y \in Updates :
         MessageKey(x) = y => y \in enqueued \/ Warrant(y)
    /\ \A y \in seen \cap Updates : y \in enqueued \/ Warrant(y)

\* What is in the pipe was not accepted before, unless it is done.
PipeIsUnseen == \A x \in Pipe \cap seen : Warrant(x)

\* Before the inbound is released nothing is accepted but /approve.
HeldIsIdle ==
    mode \in {"off", "held", "recovered"} =>
        /\ turn = NoTurn /\ batch = <<>> /\ late = <<>> /\ queued = <<>>
        /\ Downloading = {}

\* The dispatcher downloads only behind what was held, and beside the held
\* messages nothing is released once the gate is open.
GateKept ==
    /\ mode = "off" => queue = <<>> /\ startup = <<>> /\ seen = {} /\ cached = {}
    /\ mode \in {"up", "draining", "leaving"} =>
         startup = <<>> /\ slot["release"] = Idle
    /\ slot["dispatcher"].at = "downloading" =>
         startup = <<>> /\ slot["release"].at # "downloading" /\ ~Gated

\* What is settled has its warrant, and so has what is remembered as settled.
SettledForCause ==
    /\ \A m \in cached : Warrant(m)
    /\ \A h \in Handlers : slot[h].at = "settling" => Warrant(slot[h].m)
    /\ \A m \in Updates : cmd[m] = "saved" => outcome[m] = "completed"

\* The checkpoint is the running turn's, and ready when it was answered.
TurnCheckpointed ==
    /\ turn.at \in {"model", "ready", "answered"} => checkpoint.claims = Claims
    /\ turn.at = "model" => checkpoint.phase = "started"
    /\ turn.at \in {"ready", "answered"} => checkpoint.phase = "ready"
    /\ checkpoint.phase = "ready" => \A m \in checkpoint.claims : answers[m] > 0
    /\ turn.at = "returned" => \A m \in Claims : Warrant(m)

\* The part of the invariant about the way to the handlers, ...
OnTheWay ==
    /\ KeptSoFar /\ Polled /\ PendingIsEnqueued
    /\ PipeInOrder /\ PipeIsEnqueued /\ PipeIsUnseen

\* ... and the one about what is settled and where turns stand.
Standing == HeldIsIdle /\ GateKept /\ SettledForCause /\ TurnCheckpointed

-----------------------------------------------------------------------------
(* Answered once.                                                          *)

\* The batches that wait for a turn, and the turn's.
InBatch == ToSet(batch)
InLate == ToSet(late)
InQueue == ToSet(queued)
Waiting == InBatch \cup InLate \cup InQueue \cup (IF turn.at = "working" THEN Claims ELSE {})
Work == InBatch \cup InLate \cup InQueue \cup Claims

\* An answered update is settled or its turn's checkpoint says so.
AnswerRemembered ==
    \A m \in Updates : answers[m] > 0 =>
        spool[m] \in {"completed", "gone"} \/ m \in checkpoint.claims

\* A checkpoint that is not ready has no answers.
UnreadyUnanswered ==
    checkpoint.phase # "ready" => \A m \in checkpoint.claims : answers[m] = 0

\* What is remembered as settled is, and what was answered and retired too.
SettledOnRecord ==
    /\ \A m \in cached : spool[m] = "completed"
    /\ turn.at = "answered" => \A m \in Claims : spool[m] = "completed"
    /\ \A m \in Updates : spool[m] = "gone" => m < confirmed \/ ~allowed

\* What waits for a turn has no answer but one the checkpoint knows of.
WaitingUnanswered ==
    \A m \in Waiting : answers[m] = 0 \/ m \in checkpoint.claims

\* What was accepted is known, and is in one place.
WorkKnown == \A m \in Work : MessageKey(m) \in seen
WorkApart ==
    /\ InBatch \cap InLate = {} /\ InBatch \cap InQueue = {} /\ InLate \cap InQueue = {}
    /\ Claims \cap (InBatch \cup InLate \cup InQueue) = {}

\* An answered update will not be accepted again.
Harmless(m) ==
    answers[m] = 0 \/ MessageKey(m) \in seen \/ m \in checkpoint.claims
PipeUnanswered ==
    /\ \A x \in ToSet(queue) \cup ToSet(startup) :
         kind[x] \in Texts => Harmless(x) \/ x \in cached
    /\ \A x \in Downloading : Harmless(x)
    /\ putting # Nobody /\ putting.said # "completed" =>
         Harmless(putting.m) \/ putting.m \in cached

\* The part of the invariant behind "answered once".
Answering ==
    /\ AnswerRemembered /\ UnreadyUnanswered /\ SettledOnRecord
    /\ WaitingUnanswered /\ WorkKnown /\ WorkApart /\ PipeUnanswered
    /\ AnsweredOnce

\* The inductive invariant.
IInv == Types /\ OnTheWay /\ Standing /\ Answering

-----------------------------------------------------------------------------
(* Sequences and their elements.                                           *)

\* A sequence has elements of its kind only.
LEMMA SeqSet ==
  ASSUME NEW T, NEW s \in Seq(T)
  PROVE  ToSet(s) \subseteq T
BY DEF ToSet

\* Two sequences in a row.
LEMMA ConcatSet ==
  ASSUME NEW T, NEW s \in Seq(T), NEW t \in Seq(T)
  PROVE  s \o t \in Seq(T) /\ ToSet(s \o t) = ToSet(s) \cup ToSet(t)
<1>1. s \o t \in Seq(T) /\ Len(s \o t) = Len(s) + Len(t)
  OBVIOUS
<1>2. ASSUME NEW i \in DOMAIN s PROVE s[i] \in ToSet(s \o t)
  <2>1. i \in DOMAIN (s \o t) /\ (s \o t)[i] = s[i]
    OBVIOUS
  <2> QED BY <2>1, Zenon DEF ToSet
<1>3. ASSUME NEW i \in DOMAIN t PROVE t[i] \in ToSet(s \o t)
  <2>1. Len(s) + i \in DOMAIN (s \o t) /\ (s \o t)[Len(s) + i] = t[i]
    OBVIOUS
  <2> QED BY <2>1, Zenon DEF ToSet
<1>4. ASSUME NEW i \in DOMAIN (s \o t) PROVE (s \o t)[i] \in ToSet(s) \cup ToSet(t)
  <2>1. \/ i \in DOMAIN s /\ (s \o t)[i] = s[i]
        \/ i - Len(s) \in DOMAIN t /\ (s \o t)[i] = t[i - Len(s)]
    OBVIOUS
  <2> QED BY <2>1, Zenon DEF ToSet
<1> QED BY <1>1, <1>2, <1>3, <1>4, Zenon DEF ToSet

\* One more element.
LEMMA AppendSet ==
  ASSUME NEW T, NEW s \in Seq(T), NEW e \in T
  PROVE  Append(s, e) \in Seq(T) /\ ToSet(Append(s, e)) = ToSet(s) \cup {e}
<1>1. Append(s, e) \in Seq(T) /\ Len(Append(s, e)) = Len(s) + 1
  OBVIOUS
<1>2. ASSUME NEW i \in DOMAIN s PROVE s[i] \in ToSet(Append(s, e))
  <2>1. i \in DOMAIN Append(s, e) /\ Append(s, e)[i] = s[i]
    OBVIOUS
  <2> QED BY <2>1, Zenon DEF ToSet
<1>3. e \in ToSet(Append(s, e))
  <2>1. Len(s) + 1 \in DOMAIN Append(s, e) /\ Append(s, e)[Len(s) + 1] = e
    OBVIOUS
  <2> QED BY <2>1, Zenon DEF ToSet
<1>4. ASSUME NEW i \in DOMAIN Append(s, e) PROVE Append(s, e)[i] \in ToSet(s) \cup {e}
  <2>1. \/ i \in DOMAIN s /\ Append(s, e)[i] = s[i]
        \/ Append(s, e)[i] = e
    OBVIOUS
  <2> QED BY <2>1, Zenon DEF ToSet
<1> QED BY <1>1, <1>2, <1>3, <1>4, Zenon DEF ToSet

\* None, and one.
LEMMA ShortSets ==
  /\ ToSet(<<>>) = {}
  /\ \A T : <<>> \in Seq(T)
  /\ \A e : ToSet(<<e>>) = {e}
  /\ \A T : \A e \in T : <<e>> \in Seq(T)
BY DEF ToSet

\* The first element, and the rest.
LEMMA HeadAndTail ==
  ASSUME NEW T, NEW s \in Seq(T), s # <<>>
  PROVE  /\ Head(s) \in ToSet(s) /\ Head(s) \in T
         /\ Tail(s) \in Seq(T)
         /\ ToSet(s) = {Head(s)} \cup ToSet(Tail(s))
<1>1. 1 \in DOMAIN s /\ Head(s) = s[1]
  OBVIOUS
<1>2. Head(s) \in ToSet(s)
  BY <1>1, Zenon DEF ToSet
<1>3. Tail(s) \in Seq(T)
  OBVIOUS
<1>4. ASSUME NEW i \in DOMAIN s PROVE s[i] = Head(s) \/ s[i] \in ToSet(Tail(s))
  <2>1. i = 1 \/ (i - 1 \in DOMAIN Tail(s) /\ Tail(s)[i - 1] = s[i])
    OBVIOUS
  <2> QED BY <1>1, <2>1, Zenon DEF ToSet
<1>5. ASSUME NEW i \in DOMAIN Tail(s) PROVE Tail(s)[i] \in ToSet(s)
  <2>1. i + 1 \in DOMAIN s /\ Tail(s)[i] = s[i + 1]
    OBVIOUS
  <2> QED BY <2>1, Zenon DEF ToSet
<1>6. Head(s) \in T
  BY <1>1
<1> QED BY <1>2, <1>3, <1>4, <1>5, <1>6, Zenon DEF ToSet

\* A sequence without its first element keeps what is said of its pairs, and
\* the first stands in no such relation to the rest.
LEMMA PairsOfTail ==
  ASSUME NEW T, NEW s \in Seq(T), s # <<>>, NEW bad, NoPair(s, bad)
  PROVE  /\ NoPair(Tail(s), bad)
         /\ \A y \in ToSet(Tail(s)) : <<Head(s), y>> \notin bad
<1>1. /\ 1 \in DOMAIN s /\ Head(s) = s[1] /\ Tail(s) \in Seq(T)
      /\ \A i \in DOMAIN Tail(s) : i + 1 \in DOMAIN s /\ Tail(s)[i] = s[i + 1] /\ 1 < i + 1
  OBVIOUS
<1>2. \A i, j \in DOMAIN Tail(s) : i < j => i + 1 < j + 1
  BY <1>1
<1>3. NoPair(Tail(s), bad)
  BY <1>1, <1>2, Zenon DEF NoPair
<1>4. ASSUME NEW y \in ToSet(Tail(s)) PROVE <<Head(s), y>> \notin bad
  <2>1. PICK i \in DOMAIN Tail(s) : y = Tail(s)[i]
    BY Zenon DEF ToSet
  <2> QED BY <1>1, <2>1, Zenon DEF NoPair
<1> QED BY <1>3, <1>4

\* One more element, to which none before it stands in the relation.
LEMMA PairsOfAppend ==
  ASSUME NEW T, NEW s \in Seq(T), NEW e \in T, NEW bad, NoPair(s, bad),
         \A x \in ToSet(s) : <<x, e>> \notin bad
  PROVE  NoPair(Append(s, e), bad)
<1>1. \A i \in DOMAIN Append(s, e) :
        \/ i \in DOMAIN s /\ Append(s, e)[i] = s[i]
        \/ i = Len(s) + 1 /\ Append(s, e)[i] = e
  OBVIOUS
<1>2. \A i \in DOMAIN s : i <= Len(s) /\ s[i] \in ToSet(s)
  BY DEF ToSet
<1>3. SUFFICES ASSUME NEW i \in DOMAIN Append(s, e), NEW j \in DOMAIN Append(s, e), i < j
               PROVE  <<Append(s, e)[i], Append(s, e)[j]>> \notin bad
  BY Zenon DEF NoPair
<1>4. i \in DOMAIN s /\ Append(s, e)[i] = s[i]
  <2>1. i \in 1 .. Len(s) + 1 /\ j \in 1 .. Len(s) + 1 /\ Len(s) \in Nat
    OBVIOUS
  <2> QED BY <1>1, <1>3, <2>1
<1> QED BY <1>1, <1>2, <1>3, <1>4, Zenon DEF NoPair

\* A weaker relation.
LEMMA PairsWeaker ==
  ASSUME NEW s, NEW bad, NEW worse, NoPair(s, worse), bad \subseteq worse
  PROVE  NoPair(s, bad)
BY DEF NoPair

-----------------------------------------------------------------------------
(* Types.                                                                  *)

\* What the constants are.
LEMMA Bounds ==
  /\ N \in Nat \ {0} /\ Updates \subseteq Nat \ {0} /\ Updates \subseteq 0 .. N
  /\ Scripts \subseteq [Updates -> Kinds] /\ Budget \in [Scripts -> Nat]
BY TelegramAssumption DEF Updates

\* The records the steps write.
LEMMA Records ==
  /\ Nobody \in PutRecord /\ Idle \in SlotRecord /\ Idle.at = "idle"
  /\ \A m \in Updates, at \in {"idle", "downloading", "settling"} :
       [m |-> m, at |-> at] \in SlotRecord
  /\ \A m \in Updates, said \in {"none", "pending", "completed"} :
       [m |-> m, said |-> said] \in PutRecord
  /\ NoTurn \in [claims : Seq(Updates), at : TurnPhases]
  /\ \A s \in Seq(Updates) : NewTurn(s) \in [claims : Seq(Updates), at : TurnPhases]
  /\ NoCheckpoint \in [claims : SUBSET Updates, phase : {"none", "started", "ready", "unknown"}]
BY Bounds DEF Nobody, Idle, NoTurn, NoCheckpoint, NewTurn, PutRecord, SlotRecord, TurnPhases

\* The script's bound on faults.
LEMMA FaultType ==
  ASSUME kind \in Scripts, spent \in 0 .. Budget[kind], Fault
  PROVE  spent' \in 0 .. Budget[kind]
<1>1. Budget[kind] \in Nat
  BY Bounds
<1> QED BY <1>1 DEF Fault

\* A part of a response.
LEMMA Response ==
  ASSUME NEW a \in 1 .. N + 1, NEW b \in a - 1 .. N
  PROVE  /\ Interval(a, b) \in Seq(Updates)
         /\ Interval(a, b) # <<>> => Head(Interval(a, b)) = a
         /\ \A i \in DOMAIN Interval(a, b) : Interval(a, b)[i] = a + i - 1
<1>1. a \in Nat \ {0} /\ b \in Nat /\ b - a + 1 \in Nat /\ N \in Nat /\ b <= N
  BY Bounds
<1>2. \A i \in 1 .. (b - a + 1) : a + i - 1 \in 1 .. N
  BY <1>1
<1>3. Interval(a, b) \in Seq(Updates)
  BY <1>1, <1>2 DEF Interval, Updates
<1>4. \A i \in DOMAIN Interval(a, b) : Interval(a, b)[i] = a + i - 1
  BY DEF Interval
<1>5. ASSUME Interval(a, b) # <<>> PROVE Head(Interval(a, b)) = a
  <2>1. 1 \in DOMAIN Interval(a, b) /\ Head(Interval(a, b)) = Interval(a, b)[1]
    BY <1>3, <1>5
  <2> QED BY <1>1, <1>4, <2>1
<1> QED BY <1>3, <1>4, <1>5

\* Completing claims.
LEMMA CompletesType ==
  ASSUME spool \in [Updates -> {"none", "pending", "completed", "gone"}],
         cached \in SUBSET Updates, enqueued \in SUBSET Updates,
         NEW claims \in SUBSET Updates, Completes(claims)
  PROVE  /\ spool' \in [Updates -> {"none", "pending", "completed", "gone"}]
         /\ cached' \in SUBSET Updates /\ enqueued' \in SUBSET Updates
BY DEF Completes

\* What waits for a turn.
TurnTypes ==
    /\ queued \in Seq(Updates)
    /\ turn \in [claims : Seq(Updates), at : TurnPhases]

\* A batch that is sent on.
LEMMA QueueTurnType ==
  ASSUME TurnTypes, NEW claims \in Seq(Updates), QueueTurn(claims) \/ SendOn(claims)
  PROVE  TurnTypes'
<1>1. queued \o claims \in Seq(Updates)
  BY ConcatSet DEF TurnTypes
<1> QED BY <1>1, Records DEF TurnTypes, QueueTurn, SendOn

\* The end of a handler and of a command.
LEMMA ContinueType ==
  ASSUME TurnTypes, Continue PROVE TurnTypes'
<1>1. <<>> \in Seq(Updates)
  OBVIOUS
<1> QED BY <1>1, Records DEF TurnTypes, Continue

\* An update in a slot, or none.
LEMMA SlotType ==
  ASSUME slot \in [Handlers -> SlotRecord],
         \A h \in Handlers : slot[h].at # "idle" => slot[h].m \in Updates,
         NEW h \in Handlers, NEW m \in Updates,
         \/ slot' = slot
         \/ slot' = [slot EXCEPT ![h] = Idle]
         \/ slot' = [slot EXCEPT ![h] = [m |-> m, at |-> "settling"]]
         \/ slot' = [slot EXCEPT ![h] = [m |-> m, at |-> "downloading"]]
  PROVE  /\ slot' \in [Handlers -> SlotRecord]
         /\ \A g \in Handlers : slot'[g].at # "idle" => slot'[g].m \in Updates
<1>1. CASE slot' = slot
  BY <1>1
<1>2. CASE slot' = [slot EXCEPT ![h] = Idle]
  BY <1>2, Records
<1>3. ASSUME NEW at \in {"settling", "downloading"}, slot' = [slot EXCEPT ![h] = [m |-> m, at |-> at]]
      PROVE  /\ slot' \in [Handlers -> SlotRecord]
             /\ \A g \in Handlers : slot'[g].at # "idle" => slot'[g].m \in Updates
  <2>1. [m |-> m, at |-> at] \in SlotRecord /\ [m |-> m, at |-> at].m = m
    BY Records
  <2> QED BY <1>3, <2>1
<1> QED BY <1>1, <1>2, <1>3

\* What accepting an update changes.
AcceptTypes ==
    /\ slot \in [Handlers -> SlotRecord]
    /\ \A h \in Handlers : slot[h].at # "idle" => slot[h].m \in Updates
    /\ seen \in SUBSET (0 .. N)
    /\ WorkTypes /\ kind \in Scripts

\* It keeps the types.
LEMMA AcceptType ==
  ASSUME AcceptTypes, NEW m \in Updates, NEW h \in Handlers, Accept(m, h), kind' = kind
  PROVE  AcceptTypes'
<1> USE DEF AcceptTypes
<1>1. /\ slot' \in [Handlers -> SlotRecord]
      /\ \A g \in Handlers : slot'[g].at # "idle" => slot'[g].m \in Updates
  BY SlotType DEF Accept
<1>2. MessageKey(m) \in 0 .. N
  BY Bounds DEF MessageKey, Updates
<1>3. seen' \in SUBSET (0 .. N)
  BY <1>2 DEF Accept
<1>4. CASE UNCHANGED work
  BY <1>1, <1>3, <1>4 DEF work, WorkTypes
<1>5. CASE Collect(m)
  <2>1. Append(late, m) \in Seq(Updates) /\ Append(batch, m) \in Seq(Updates)
        /\ <<m>> \in Seq(Updates)
    BY DEF WorkTypes
  <2>2. TurnTypes'
    BY <1>5, QueueTurnType DEF Collect, WorkTypes, TurnTypes
  <2> QED BY <1>1, <1>3, <1>5, <2>1, <2>2 DEF Collect, WorkTypes, TurnTypes
<1>6. CASE Command(m)
  <2>1. Active \subseteq Updates /\ WaitsFor(m) \subseteq Updates
    BY DEF Active, WaitsFor, Gate
  <2>2. ToSet(batch \o queued) \subseteq Updates
    <3>1. batch \o queued \in Seq(Updates)
      BY DEF WorkTypes
    <3> QED BY <3>1, SeqSet
  <2>3. after' \in [Updates -> SUBSET Updates]
    BY <1>6, <2>1 DEF Command, WorkTypes
  <2>4. dropped' \in [Updates -> SUBSET Updates]
    BY <1>6, <2>2 DEF Command, WorkTypes
  <2>5. cmd' \in [Updates -> CmdPhases]
    BY <1>6 DEF Command, WorkTypes, CmdPhases
  <2>6. batch' \in Seq(Updates) /\ queued' \in Seq(Updates) /\ late' \in Seq(Updates)
        /\ turn' = turn
    <3>1. <<>> \in Seq(Updates)
      OBVIOUS
    <3> QED BY <1>6, <3>1 DEF Command, WorkTypes
  <2> QED BY <1>1, <1>3, <2>3, <2>4, <2>5, <2>6 DEF WorkTypes
<1> QED BY <1>4, <1>5, <1>6 DEF Accept

\* What handling one changes.
HandleTypes == AcceptTypes /\ enqueued \in SUBSET Updates /\ heldClaims \in SUBSET Updates

\* It keeps the types.
LEMMA HandleType ==
  ASSUME HandleTypes, NEW m \in Updates, NEW h \in Handlers, Handle(m, h), kind' = kind
  PROVE  HandleTypes'
<1> USE DEF HandleTypes
<1>1. CASE Accept(m, h) /\ UNCHANGED <<enqueued, heldClaims>>
  BY <1>1, AcceptType
<1>2. CASE ~Accept(m, h) \/ ~UNCHANGED <<enqueued, heldClaims>>
  <2>1. UNCHANGED <<heldClaims, seen, work>> /\ enqueued' \subseteq enqueued
    BY <1>2 DEF Handle
  <2>2. /\ slot' \in [Handlers -> SlotRecord]
        /\ \A g \in Handlers : slot'[g].at # "idle" => slot'[g].m \in Updates
    BY <1>2, SlotType DEF Handle, AcceptTypes
  <2> QED BY <2>1, <2>2 DEF AcceptTypes, WorkTypes, work
<1> QED BY <1>1, <1>2

\* The end of a command.
LEMMA TaskEndsType ==
  ASSUME WorkTypes, NEW m \in Updates, TaskEnds(m), UNCHANGED <<batch, late>>
  PROVE  WorkTypes'
<1>1. cmd' \in [Updates -> CmdPhases]
  BY DEF TaskEnds, Step, WorkTypes, CmdPhases
<1>2. after' \in [Updates -> SUBSET Updates] /\ dropped' \in [Updates -> SUBSET Updates]
  BY DEF TaskEnds, WorkTypes
<1>3. queued' \in Seq(Updates) /\ turn' \in [claims : Seq(Updates), at : TurnPhases]
  <2>1. <<>> \in Seq(Updates)
    OBVIOUS
  <2> QED BY <2>1, Records DEF TaskEnds, WorkTypes
<1> QED BY <1>1, <1>2, <1>3 DEF WorkTypes

\* A queue of pending updates.
LEMMA AscendingType ==
  ASSUME NEW S \in SUBSET Updates, NEW q \in Ascending(S)
  PROVE  /\ q \in Seq(Updates) /\ ToSet(q) = S
         /\ \A i, j \in DOMAIN q : i < j => q[i] < q[j]
<1>1. Cardinality(S) \in Nat
  <2>1. IsFiniteSet(Updates)
    BY FS_Interval, Bounds DEF Updates
  <2>2. IsFiniteSet(S)
    BY <2>1, FS_Subset
  <2> QED BY <2>2, FS_CardinalityType
<1>2. q \in [1 .. Cardinality(S) -> S] /\ DOMAIN q = 1 .. Cardinality(S)
  BY DEF Ascending
<1> QED BY <1>1, <1>2 DEF Ascending

\* Initially.
LEMMA InitTypes ==
  ASSUME Init PROVE Types
<1>1. 0 \in 0 .. Budget[kind]
  BY Bounds DEF Init
<1>2. <<>> \in Seq(Updates) /\ 1 \in 1 .. N + 1
  BY Bounds
<1>3. ServerTypes
  BY <1>2, Records DEF Init, ServerTypes
<1>4. StoreTypes
  BY Records DEF Init, StoreTypes
<1>5. IntakeTypes
  BY <1>2, Records DEF Init, IntakeTypes
<1>6. WorkTypes
  BY <1>2, Records DEF Init, WorkTypes, CmdPhases
<1>7. FlagTypes
  <2>1. spent \in 0 .. Budget[kind] /\ answers \in [Updates -> 0 .. 2]
    BY <1>1 DEF Init
  <2>2. allowed \in BOOLEAN /\ failed \in BOOLEAN
    BY Zenon DEF Init
  <2> QED BY <2>1, <2>2 DEF Init, FlagTypes, Modes
<1> QED BY <1>3, <1>4, <1>5, <1>6, <1>7 DEF Types

\* The types of the parts a step changes; the other parts are left alone.
LEMMA ServerStepTypes ==
  ASSUME Types, Polled, Poll \/ Record \/ Put \/ RecordFails \/ PollingFails
  PROVE  Types'
<1> USE DEF Types, ServerTypes
<1>1. CASE Poll
  <2>1. confirmed' \in 1 .. N + 1
    BY <1>1, Bounds DEF Poll
  <2>2. fetched' \in Seq(Updates)
    BY <1>1, <2>1, Response DEF Poll
  <2> QED BY <1>1, <2>1, <2>2 DEF Poll, durable, inflow, work, ghosts,
         StoreTypes, IntakeTypes, WorkTypes, FlagTypes
<1>2. ASSUME fetched # <<>>, Passed
      PROVE  offset' \in 1 .. N + 1 /\ fetched' \in Seq(Updates)
  <2>1. Head(fetched) \in Updates /\ Tail(fetched) \in Seq(Updates)
    BY <1>2, HeadAndTail
  <2> QED BY <1>2, <2>1, Bounds DEF Passed, Updates
<1>3. CASE Record
  <2> DEFINE m == Head(fetched)
  <2>1. m \in Updates
    BY <1>3, HeadAndTail DEF Record
  <2>2. Append(queue, m) \in Seq(Updates)
    BY <2>1 DEF IntakeTypes
  <2>3. spool' \in [Updates -> {"none", "pending", "completed", "gone"}]
    BY <1>3, <2>1 DEF Record, StoreTypes
  <2>4. ASSUME putting' # putting PROVE putting' \in PutRecord
    <3>1. /\ spool' = [spool EXCEPT ![m] = IF @ \in {"none", "gone"} THEN "pending" ELSE @]
          /\ putting' = [m |-> m, said |-> spool'[m]]
      BY <1>3, <2>4 DEF Record
    <3>2. spool'[m] \in {"pending", "completed"}
      BY <2>1, <3>1 DEF StoreTypes
    <3> QED BY <2>1, <3>1, <3>2, Records
  <2>5. offset' \in 1 .. N + 1 /\ fetched' \in Seq(Updates)
    BY <1>2, <1>3 DEF Record
  <2>6. queue' \in Seq(Updates) /\ waived' \in SUBSET Updates
    BY <1>3, <2>1, <2>2 DEF Record, IntakeTypes, FlagTypes
  <2> QED BY <1>3, <2>3, <2>4, <2>5, <2>6 DEF Record, work,
         StoreTypes, IntakeTypes, WorkTypes, FlagTypes
<1>4. CASE Put
  <2>1. fetched # <<>> /\ putting.m \in Updates
    BY <1>4, HeadAndTail DEF Put, Polled
  <2>2. Append(queue, putting.m) \in Seq(Updates)
    BY <2>1 DEF IntakeTypes
  <2>3. queue' \in Seq(Updates) /\ enqueued' \in SUBSET Updates
    BY <1>4, <2>1, <2>2 DEF Put, IntakeTypes
  <2>4. putting' \in PutRecord /\ offset' \in 1 .. N + 1 /\ fetched' \in Seq(Updates)
    BY <1>2, <1>4, <2>1, Records DEF Put
  <2> QED BY <1>4, <2>3, <2>4 DEF Put, durable, work, ghosts,
         StoreTypes, IntakeTypes, WorkTypes, FlagTypes
<1>5. CASE RecordFails
  <2>1. <<>> \in Seq(Updates)
    OBVIOUS
  <2> QED BY <1>5, <2>1, FaultType DEF RecordFails, durable, inflow, work, ghosts,
         StoreTypes, IntakeTypes, WorkTypes, FlagTypes
<1>6. CASE PollingFails
  BY <1>6, FaultType DEF PollingFails, server, durable, inflow, work, ghosts,
         StoreTypes, IntakeTypes, WorkTypes, FlagTypes
<1> QED BY <1>1, <1>3, <1>4, <1>5, <1>6

\* The handlers, the batches.
LEMMA HandlerStepTypes ==
  ASSUME Types,
         \/ Dispatch \/ ReleaseNext \/ Flush
         \/ \E h \in Handlers : Download(h) \/ SettleUpdate(h) \/ UpdateFails(h)
  PROVE  Types'
<1> USE DEF Types, ServerTypes
<1>1. HandleTypes
  BY DEF HandleTypes, AcceptTypes, IntakeTypes, FlagTypes
<1>2. CASE Dispatch
  <2> DEFINE m == Head(queue)
  <2>1. m \in Updates /\ queue' \in Seq(Updates)
    BY <1>2, HeadAndTail DEF Dispatch, IntakeTypes
  <2>2. CASE Hold(m)
    <3>1. Append(startup, m) \in Seq(Updates)
      BY <2>1 DEF IntakeTypes
    <3> QED BY <1>2, <2>1, <2>2, <3>1 DEF Dispatch, Hold, server, durable, work, ghosts,
           StoreTypes, IntakeTypes, WorkTypes, FlagTypes
  <2>3. CASE Handle(m, "dispatcher") /\ UNCHANGED startup
    <3>1. HandleTypes'
      BY <1>1, <1>2, <2>1, <2>3, HandleType DEF Dispatch, Handlers
    <3> QED BY <1>2, <2>1, <2>3, <3>1 DEF Dispatch, server, durable, ghosts,
           StoreTypes, IntakeTypes, FlagTypes, HandleTypes, AcceptTypes
  <2> QED BY <1>2, <2>2, <2>3 DEF Dispatch
<1>3. CASE ReleaseNext
  <2>1. Head(startup) \in Updates /\ startup' \in Seq(Updates)
    BY <1>3, HeadAndTail DEF ReleaseNext, Busy, IntakeTypes
  <2>2. HandleTypes'
    BY <1>1, <1>3, <2>1, HandleType DEF ReleaseNext, Handlers
  <2> QED BY <1>3, <2>1, <2>2 DEF ReleaseNext, server, durable, ghosts,
         StoreTypes, IntakeTypes, FlagTypes, HandleTypes, AcceptTypes
<1>4. CASE Flush
  <2>1. <<>> \in Seq(Updates)
    OBVIOUS
  <2>2. TurnTypes'
    BY <1>4, QueueTurnType DEF Flush, TurnTypes, WorkTypes
  <2> QED BY <1>4, <2>1, <2>2 DEF Flush, server, durable, inflow, ghosts,
         StoreTypes, IntakeTypes, FlagTypes, WorkTypes, TurnTypes
<1>5. ASSUME NEW h \in Handlers, Download(h) PROVE Types'
  <2>1. slot[h].m \in Updates
    BY <1>5 DEF Download, IntakeTypes
  <2>2. AcceptTypes'
    BY <1>1, <1>5, <2>1, AcceptType DEF Download, HandleTypes
  <2> QED BY <1>5, <2>2 DEF Download, server, durable, ghosts,
         StoreTypes, IntakeTypes, FlagTypes, AcceptTypes
<1>6. ASSUME NEW h \in Handlers, SettleUpdate(h) PROVE Types'
  <2>1. slot[h].m \in Updates
    BY <1>6 DEF SettleUpdate, IntakeTypes
  <2>2. /\ spool' \in [Updates -> {"none", "pending", "completed", "gone"}]
        /\ cached' \in SUBSET Updates /\ enqueued' \in SUBSET Updates
    BY <1>6, <2>1, CompletesType DEF SettleUpdate, StoreTypes, IntakeTypes
  <2>3. /\ slot' \in [Handlers -> SlotRecord]
        /\ \A g \in Handlers : slot'[g].at # "idle" => slot'[g].m \in Updates
    BY <1>6, <2>1, SlotType DEF SettleUpdate, IntakeTypes
  <2> QED BY <1>6, <2>2, <2>3 DEF SettleUpdate, server, work, ghosts,
         StoreTypes, IntakeTypes, FlagTypes, WorkTypes
<1>7. ASSUME NEW h \in Handlers, UpdateFails(h) PROVE Types'
  <2>1. slot[h].m \in Updates
    BY <1>7 DEF UpdateFails, IntakeTypes
  <2>2. /\ slot' \in [Handlers -> SlotRecord]
        /\ \A g \in Handlers : slot'[g].at # "idle" => slot'[g].m \in Updates
    BY <1>7, <2>1, SlotType DEF UpdateFails, IntakeTypes
  <2> QED BY <1>7, <2>2, FaultType DEF UpdateFails, server, durable, work, ghosts,
         StoreTypes, IntakeTypes, FlagTypes, WorkTypes
<1> QED BY <1>2, <1>3, <1>4, <1>5, <1>6, <1>7

\* What a turn changes.
TurnStepTypes ==
    /\ StoreTypes /\ TurnTypes /\ cached \in SUBSET Updates
    /\ enqueued \in SUBSET Updates /\ answers \in [Updates -> 0 .. 2]
    /\ waived \in SUBSET Updates /\ failed \in BOOLEAN
    /\ kind \in Scripts /\ spent \in 0 .. Budget[kind]

\* The turns.
LEMMA TurnTypesKept ==
  ASSUME Types, HandlerStep \/ Return \/ Raise
  PROVE  Types'
<1>1. TurnStepTypes
  BY DEF Types, StoreTypes, WorkTypes, IntakeTypes, FlagTypes, TurnStepTypes, TurnTypes
<1>2. /\ UNCHANGED <<kind, allowed, confirmed, offset, fetched, putting, queue, slot, startup>>
      /\ UNCHANGED <<heldClaims, seen, mode, batch, late, cmd, after, dropped>>
  BY DEF HandlerStep, Return, Raise, Refuse, HandlerFails, Begin, Notify, Answer, Stopped,
         Fence, Finalize, server, inflow, durable
<1>3. SUFFICES TurnStepTypes'
  BY <1>2 DEF Types, ServerTypes, StoreTypes, WorkTypes, IntakeTypes, FlagTypes,
              TurnStepTypes, TurnTypes
<1> USE DEF TurnStepTypes
<1>4. Claims \in SUBSET Updates
  BY <1>1, SeqSet DEF TurnTypes, Claims
<1>5. ASSUME Counted(Claims) PROVE answers' \in [Updates -> 0 .. 2]
  BY <1>1, <1>5 DEF Counted
<1>6. ASSUME NEW ph \in TurnPhases, At(ph), queued' = queued PROVE TurnTypes'
  BY <1>1, <1>6 DEF At, TurnTypes
<1>7. ASSUME Completes(Claims)
      PROVE  /\ spool' \in [Updates -> {"none", "pending", "completed", "gone"}]
             /\ cached' \in SUBSET Updates /\ enqueued' \in SUBSET Updates
  BY <1>1, <1>4, <1>7, CompletesType DEF StoreTypes
<1>8. CASE Begin
  BY <1>1, <1>4, <1>6, <1>8 DEF Begin, StoreTypes, ghosts, inflow, TurnPhases
<1>9. CASE Notify
  BY <1>1, <1>4, <1>6, <1>9 DEF Notify, durable, StoreTypes, inflow, TurnPhases
<1>10. CASE Answer
  BY <1>1, <1>5, <1>6, <1>10 DEF Answer, StoreTypes, inflow, TurnPhases
<1>11. CASE Stopped
  BY <1>1, <1>4, <1>6, <1>7, <1>11, Records DEF Stopped, StoreTypes, TurnPhases
<1>12. CASE Fence
  BY <1>1, <1>6, <1>7, <1>12 DEF Fence, StoreTypes, ghosts, TurnPhases
<1>13. CASE Finalize
  BY <1>1, <1>6, <1>13, Records DEF Finalize, StoreTypes, inflow, ghosts, TurnPhases
<1>14. CASE Refuse \/ Raise
  <2>1. <<>> \in Seq(Updates)
    OBVIOUS
  <2>2. TurnTypes'
    BY <1>14, <2>1, Records DEF Refuse, Raise, HandlerFails, TurnTypes
  <2>3. spent' \in 0 .. Budget[kind]
    BY <1>1, <1>14, FaultType DEF Refuse, Raise
  <2> QED BY <1>1, <1>14, <2>2, <2>3 DEF Refuse, Raise, HandlerFails, durable, inflow,
       StoreTypes, ghosts
<1>15. CASE Return
  BY <1>1, <1>7, <1>15, ContinueType DEF Return, StoreTypes, ghosts
<1> QED BY <1>8, <1>9, <1>10, <1>11, <1>12, <1>13, <1>14, <1>15 DEF HandlerStep

\* The commands.
LEMMA CommandTypes ==
  ASSUME Types, NEW m \in Updates, CommandStep(m) \/ CommandFails(m)
  PROVE  Types'
<1> USE DEF Types, ServerTypes, StoreTypes, IntakeTypes, FlagTypes
<1>1. ASSUME NEW ph \in CmdPhases, Step(m, ph) PROVE cmd' \in [Updates -> CmdPhases]
  BY <1>1 DEF Step, WorkTypes
<1>2. ASSUME NEW claims \in SUBSET Updates, Completes(claims)
      PROVE  /\ spool' \in [Updates -> {"none", "pending", "completed", "gone"}]
             /\ cached' \in SUBSET Updates /\ enqueued' \in SUBSET Updates
  BY <1>2, CompletesType
<1>3. CASE Clear(m)
  <2>1. dropped[m] \in SUBSET Updates
    BY DEF WorkTypes
  <2>2. /\ spool' \in [Updates -> {"none", "pending", "completed", "gone"}]
        /\ cached' \in SUBSET Updates /\ enqueued' \in SUBSET Updates
    BY <1>2, <1>3, <2>1 DEF Clear
  <2> QED BY <1>3, <2>1, <2>2 DEF Clear, server, WorkTypes
<1>4. CASE Reserve(m)
  <2>1. cmd' \in [Updates -> CmdPhases]
    BY <1>1, <1>4 DEF Reserve, CmdPhases
  <2> QED BY <1>4, <2>1 DEF Reserve, server, inflow, ghosts, WorkTypes
<1>5. CASE Execute(m)
  <2>1. cmd' \in [Updates -> CmdPhases]
    BY <1>1, <1>5 DEF Execute, CmdPhases
  <2> QED BY <1>5, <2>1, Records DEF Execute, server, inflow, ghosts, WorkTypes
<1>6. CASE Complete(m)
  <2>1. cmd' \in [Updates -> CmdPhases]
    BY <1>1, <1>6 DEF Complete, CmdPhases
  <2> QED BY <1>6, <2>1 DEF Complete, server, inflow, ghosts, WorkTypes
<1>7. CASE CommandEnds(m)
  <2>1. WorkTypes'
    BY <1>7, TaskEndsType DEF CommandEnds
  <2>2. /\ spool' \in [Updates -> {"none", "pending", "completed", "gone"}]
        /\ cached' \in SUBSET Updates /\ enqueued' \in SUBSET Updates
    BY <1>2, <1>7 DEF CommandEnds
  <2> QED BY <1>7, <2>1, <2>2 DEF CommandEnds, server, ghosts
<1>8. CASE CommandFails(m)
  <2>1. WorkTypes'
    BY <1>8, TaskEndsType DEF CommandFails
  <2> QED BY <1>8, <2>1, FaultType DEF CommandFails, server, inflow, ghosts, durable
<1> QED BY <1>3, <1>4, <1>5, <1>6, <1>7, <1>8 DEF CommandStep

\* A process that is gone.
LEMMA GoneTypes ==
  ASSUME Types, Gone, spent' \in 0 .. Budget[kind]
  PROVE  Types'
<1>1. <<>> \in Seq(Updates) /\ {} \in SUBSET Updates
  OBVIOUS
<1>2. ServerTypes'
  BY <1>1, Records DEF Types, ServerTypes, Gone
<1>3. StoreTypes'
  BY DEF Types, StoreTypes, Gone, durable
<1>4. IntakeTypes'
  BY <1>1, Records DEF Types, IntakeTypes, Gone
<1>5. WorkTypes'
  BY <1>1, Records DEF Types, WorkTypes, Gone, CmdPhases
<1>6. FlagTypes'
  BY DEF Types, FlagTypes, Gone, ghosts, Modes
<1> QED BY <1>2, <1>3, <1>4, <1>5, <1>6 DEF Types

\* The process and its operator.
LEMMA ProcessTypes ==
  ASSUME Types,
         \/ Start \/ Resume \/ RecordRecovered \/ Retire \/ RetireUnknown \/ Release
         \/ RecoveryBlocked \/ RecoveryFails \/ Released \/ StopIntake \/ IntakeClosed
         \/ Drained \/ Exit \/ Abort \/ Crash \/ Revoke \/ Prune
  PROVE  Types'
<1> USE DEF Types, Modes
<1>1. <<>> \in Seq(Updates) /\ {} \in SUBSET Updates
  OBVIOUS
<1>2. CASE Start
  <2>1. Pending \in SUBSET Updates
    BY DEF Pending
  <2>2. queue' \in Seq(Updates) /\ enqueued' \in SUBSET Updates
    BY <1>2, <2>1, AscendingType DEF Start, Replay, IntakeTypes
  <2>3. /\ spool' \in [Updates -> {"none", "pending", "completed", "gone"}]
        /\ waived' \in SUBSET Updates
    BY <1>2, <2>1 DEF Start, Replay, Discard, StoreTypes, FlagTypes
  <2>4. checkpoint' \in [claims : SUBSET Updates, phase : {"none", "started", "ready", "unknown"}]
    BY <1>2 DEF Start, StoreTypes
  <2> QED BY <1>2, <2>2, <2>3, <2>4 DEF Start, server, work,
           ServerTypes, StoreTypes, IntakeTypes, WorkTypes, FlagTypes
<1>3. CASE Resume \/ RecordRecovered \/ Retire \/ RetireUnknown
  <2>1. checkpoint.claims \in SUBSET Updates
    BY DEF StoreTypes
  <2>2. ASSUME Completes(checkpoint.claims)
        PROVE  /\ spool' \in [Updates -> {"none", "pending", "completed", "gone"}]
               /\ cached' \in SUBSET Updates /\ enqueued' \in SUBSET Updates
    BY <2>1, <2>2, CompletesType DEF StoreTypes, IntakeTypes
  <2>3. ASSUME Counted(checkpoint.claims) PROVE answers' \in [Updates -> 0 .. 2]
    BY <2>3 DEF Counted, FlagTypes
  <2>4. CASE Resume
    BY <2>3, <2>4 DEF Resume, server, inflow, work,
             ServerTypes, StoreTypes, IntakeTypes, WorkTypes, FlagTypes
  <2>5. CASE RecordRecovered
    BY <2>2, <2>5 DEF RecordRecovered, server, work, ghosts,
             ServerTypes, StoreTypes, IntakeTypes, WorkTypes, FlagTypes
  <2>6. CASE Retire
    BY <2>6, Records DEF Retire, server, inflow, work, ghosts,
             ServerTypes, StoreTypes, IntakeTypes, WorkTypes, FlagTypes
  <2>7. CASE RetireUnknown
    BY <2>1, <2>2, <2>7 DEF RetireUnknown, server, work,
             ServerTypes, StoreTypes, IntakeTypes, WorkTypes, FlagTypes
  <2> QED BY <1>3, <2>4, <2>5, <2>6, <2>7
<1>4. CASE RecoveryBlocked \/ RecoveryFails
  <2>1. spent' \in 0 .. Budget[kind]
    BY <1>4, FaultType DEF RecoveryBlocked, RecoveryFails, FlagTypes
  <2>2. FailsClosed
    BY <1>4, Zenon DEF RecoveryBlocked, RecoveryFails
  <2> QED BY <2>1, <2>2 DEF FailsClosed, server, durable, inflow, work, ghosts, ServerTypes, StoreTypes, IntakeTypes, WorkTypes, FlagTypes
<1>5. CASE Release
  BY <1>5 DEF Release, server, durable, inflow, work, ghosts,
             ServerTypes, StoreTypes, IntakeTypes, WorkTypes, FlagTypes
<1>6. CASE Released
  BY <1>6 DEF Released, server, durable, work, ghosts,
             ServerTypes, StoreTypes, IntakeTypes, WorkTypes, FlagTypes
<1>7. CASE StopIntake
  <2>1. spent' \in 0 .. Budget[kind]
    BY <1>7, FaultType DEF StopIntake, FlagTypes
  <2>2. ServerTypes'
    BY <1>1, <1>7, Records DEF StopIntake, ServerTypes
  <2> QED BY <1>7, <2>1, <2>2 DEF StopIntake, durable, inflow, work, ghosts,
             StoreTypes, IntakeTypes, WorkTypes, FlagTypes
<1>8. CASE IntakeClosed
  <2>1. late \o batch \in Seq(Updates)
    BY DEF WorkTypes
  <2>2. TurnTypes'
    BY <1>8, <2>1, QueueTurnType DEF IntakeClosed, TurnTypes, WorkTypes
  <2> QED BY <1>1, <1>8, <2>2 DEF IntakeClosed, server, durable, ghosts, TurnTypes,
             ServerTypes, StoreTypes, IntakeTypes, WorkTypes, FlagTypes
<1>9. CASE Drained
  <2>1. TurnTypes'
    BY <1>9, QueueTurnType DEF Drained, TurnTypes, WorkTypes
  <2>2. IntakeTypes'
    BY <1>1, <1>9, Records DEF Drained, IntakeTypes
  <2> QED BY <1>1, <1>9, <2>1, <2>2 DEF Drained, server, durable, ghosts, TurnTypes,
             ServerTypes, StoreTypes, WorkTypes, FlagTypes
<1>10. CASE Exit \/ Abort \/ Crash
  <2>1. spent' \in 0 .. Budget[kind]
    BY <1>10, FaultType DEF Exit, Abort, Crash, FlagTypes
  <2> QED BY <1>10, <2>1, GoneTypes DEF Exit, Abort, Crash
<1>11. CASE Revoke
  BY <1>11, FaultType DEF Revoke, server, durable, inflow, work, ghosts,
             ServerTypes, StoreTypes, IntakeTypes, WorkTypes, FlagTypes
<1>12. CASE Prune
  <2>1. spool' \in [Updates -> {"none", "pending", "completed", "gone"}]
    BY <1>12 DEF Prune, StoreTypes
  <2> QED BY <1>12, <2>1, FaultType DEF Prune, server, inflow, work, ghosts,
             ServerTypes, StoreTypes, IntakeTypes, WorkTypes, FlagTypes
<1> QED BY <1>2, <1>3, <1>4, <1>5, <1>6, <1>7, <1>8, <1>9, <1>10, <1>11, <1>12

\* Every step keeps the types.
LEMMA StepTypes ==
  ASSUME Types, Polled, Next
  PROVE  Types'
<1>1. CASE Poll \/ Record \/ Put \/ RecordFails \/ PollingFails
  BY <1>1, ServerStepTypes
<1>2. CASE \/ Dispatch \/ ReleaseNext \/ Flush
           \/ \E h \in Handlers : Download(h) \/ SettleUpdate(h) \/ UpdateFails(h)
  BY <1>2, HandlerStepTypes
<1>3. CASE HandlerStep \/ Return \/ Raise
  BY <1>3, TurnTypesKept
<1>4. CASE \E m \in Updates : CommandStep(m) \/ CommandFails(m)
  BY <1>4, CommandTypes
<1>5. CASE \/ Start \/ Resume \/ RecordRecovered \/ Retire \/ RetireUnknown \/ Release
           \/ RecoveryBlocked \/ RecoveryFails \/ Released \/ StopIntake \/ IntakeClosed
           \/ Drained \/ Exit \/ Abort \/ Crash \/ Revoke \/ Prune
  BY <1>5, ProcessTypes
<1> QED BY Zenon, <1>1, <1>2, <1>3, <1>4, <1>5 DEF Next, Progress, Trouble

-----------------------------------------------------------------------------
(* What was done stays done.                                               *)

\* No step takes a warrant away.
Grown ==
    /\ kind' = kind /\ waived \subseteq waived'
    /\ \A m \in Updates :
         /\ answers[m] > 0 => answers'[m] > 0
         /\ outcome[m] = "completed" => outcome'[m] = "completed"

\* What counting, and making void, do.
LEMMA CountedGrows ==
  ASSUME answers \in [Updates -> 0 .. 2], NEW S, Counted(S)
  PROVE  /\ \A m \in Updates : answers[m] > 0 => answers'[m] > 0
         /\ \A m \in S \cap Updates : answers'[m] > 0
         /\ \A m \in Updates \ S : answers'[m] = answers[m]
         /\ \A m \in Updates : answers[m] = 0 => answers'[m] <= 1
BY DEF Counted

\* Every step.
LEMMA StepGrows ==
  ASSUME Types, Next
  PROVE  Grown
<1> USE DEF Types, Grown
<1>1. CASE UNCHANGED <<kind, answers, outcome, waived>>
  BY <1>1
<1>2. CASE Poll \/ Record \/ Put \/ RecordFails \/ PollingFails
  BY <1>2 DEF Poll, Record, Put, RecordFails, PollingFails, durable, ghosts
<1>3. CASE \/ Dispatch \/ ReleaseNext \/ Flush
           \/ \E h \in Handlers : Download(h) \/ SettleUpdate(h) \/ UpdateFails(h)
  BY <1>1, <1>3 DEF Dispatch, ReleaseNext, Flush, Download, SettleUpdate, UpdateFails,
                    durable, ghosts
<1>4. CASE HandlerStep \/ Return \/ Raise
  <2>1. kind' = kind /\ waived \subseteq waived' /\ outcome' = outcome
    BY <1>4 DEF HandlerStep, Begin, Notify, Answer, Stopped, Fence, Finalize, Refuse, Return,
                Raise, HandlerFails, durable, ghosts
  <2>2. answers' = answers \/ Counted(Claims)
    BY <1>4 DEF HandlerStep, Begin, Notify, Answer, Stopped, Fence, Finalize, Refuse, Return,
                Raise, HandlerFails, durable, ghosts
  <2> QED BY <2>1, <2>2, CountedGrows DEF FlagTypes
<1>5. ASSUME NEW m \in Updates, CommandStep(m) \/ CommandFails(m) PROVE Grown
  <2>1. kind' = kind /\ waived \subseteq waived' /\ answers' = answers
    BY <1>5 DEF CommandStep, Clear, Reserve, Execute, Complete, CommandEnds, CommandFails,
                durable, ghosts
  <2>2. \/ outcome' = outcome
        \/ outcome[m] = "none" /\ outcome' = [outcome EXCEPT ![m] = "started"]
        \/ outcome' = [outcome EXCEPT ![m] = "completed"]
    BY <1>5 DEF CommandStep, Clear, Reserve, Execute, Complete, CommandEnds, CommandFails,
                durable, ghosts
  <2> QED BY <2>1, <2>2 DEF StoreTypes
<1>6. CASE Start
  BY <1>6 DEF Start, Replay, Discard
<1>7. CASE \/ Resume \/ RecordRecovered \/ Retire \/ RetireUnknown \/ Release
           \/ RecoveryBlocked \/ RecoveryFails \/ Released \/ StopIntake \/ IntakeClosed
           \/ Drained \/ Exit \/ Abort \/ Crash \/ Revoke \/ Prune
  <2>1. kind' = kind /\ waived \subseteq waived' /\ outcome' = outcome
    BY <1>7 DEF Resume, RecordRecovered, Retire, RetireUnknown, Release, RecoveryBlocked,
         RecoveryFails, FailsClosed, Released, StopIntake, IntakeClosed, Drained, Exit, Abort,
         Crash, Gone, Revoke, Prune, durable, ghosts
  <2>2. answers' = answers \/ Counted(checkpoint.claims)
    BY <1>7 DEF Resume, RecordRecovered, Retire, RetireUnknown, Release, RecoveryBlocked,
         RecoveryFails, FailsClosed, Released, StopIntake, IntakeClosed, Drained, Exit, Abort,
         Crash, Gone, Revoke, Prune, durable, ghosts
  <2> QED BY <2>1, <2>2, CountedGrows DEF FlagTypes
<1> QED BY Zenon, <1>2, <1>3, <1>4, <1>5, <1>6, <1>7 DEF Next, Progress, Trouble

\* So warrants stay, and the pairs that must not be do not become more.
LEMMA WarrantStays ==
  ASSUME Grown
  PROVE  /\ \A m \in Updates : Warrant(m) => Warrant(m)'
         /\ Clashes' \subseteq Clashes
<1>1. \A m \in Updates : Warrant(m) => Warrant(m)'
  BY DEF Grown, Warrant
<1>2. ASSUME NEW p \in Clashes' PROVE p \in Clashes
  <2>1. p \in Updates \X Updates /\ MessageKey(p[1])' = p[2] /\ ~Warrant(p[2])'
    BY <1>2 DEF Clashes
  <2>2. p[2] \in Updates /\ MessageKey(p[1])' = MessageKey(p[1])
    BY <2>1 DEF Grown, MessageKey
  <2>3. ~Warrant(p[2])
    BY <1>1, <2>1, <2>2
  <2> QED BY <2>1, <2>2, <2>3 DEF Clashes
<1> QED BY <1>1, <1>2

-----------------------------------------------------------------------------
(* The steps aside of the way from the server to the handlers.             *)

\* What such a step leaves alone, and what it may complete.
Aside ==
    /\ UNCHANGED <<confirmed, offset, fetched, putting, startup, seen>>
    /\ queue' = queue \/ queue' = <<>>
    /\ Downloading' \subseteq Downloading
    /\ (mode' = "off" \/ Stopping') <=> (mode = "off" \/ Stopping)
    /\ \A m \in Updates :
         /\ spool'[m] = "none" => spool[m] = "none"
         /\ spool'[m] = "pending" => spool[m] = "pending"
         /\ spool'[m] = spool[m] \/ Warrant(m)'
         /\ m \in enqueued => m \in enqueued' \/ Warrant(m)'

\* They are kept.
LEMMA AsideKeeps ==
  ASSUME Types, OnTheWay, Grown, Aside
  PROVE  OnTheWay'
<1> USE DEF OnTheWay
<1>1. \A m \in Updates : Warrant(m) => Warrant(m)'
  BY WarrantStays
<1>2. Clashes' \subseteq Clashes
  BY WarrantStays
<1>3. /\ ToSet(queue') \subseteq ToSet(queue) /\ ToSet(startup') = ToSet(startup)
      /\ Pipe' \subseteq Pipe
  BY ShortSets DEF Aside, Pipe
<1>4. ASSUME NEW m \in Updates, Reached(m)' PROVE Reached(m)
  BY <1>4 DEF Reached, Aside
<1>5. KeptSoFar'
  BY <1>1, <1>4 DEF KeptSoFar, Aside
<1>6. Polled'
  <2>1. putting # Nobody => putting.m \in Updates
    BY HeadAndTail DEF Polled, Types, ServerTypes
  <2>2. mode' = "off" \/ Stopping' => fetched = <<>> /\ putting = Nobody
    BY DEF Polled, Aside
  <2> QED BY <2>1, <2>2 DEF Polled, Aside
<1>7. PendingIsEnqueued'
  BY <1>1 DEF PendingIsEnqueued, Aside
<1>8. NoPair(queue', Clashes') /\ NoPair(startup', Clashes')
  <2>1. NoPair(<<>>, Clashes)
    BY DEF NoPair
  <2>2. NoPair(queue', Clashes) /\ NoPair(startup', Clashes)
    BY <2>1 DEF PipeInOrder, Aside
  <2> QED BY <1>2, <2>2, PairsWeaker
<1>9. PipeInOrder'
  BY <1>2, <1>3, <1>8 DEF PipeInOrder, Aside
<1>10. PipeIsEnqueued'
  <2>1. \A x : MessageKey(x)' = MessageKey(x)
    BY DEF MessageKey, Grown
  <2> QED BY <1>1, <1>3, <2>1 DEF PipeIsEnqueued, Aside
<1>11. PipeIsUnseen'
  <2>1. Pipe \subseteq Updates
    BY SeqSet DEF Types, IntakeTypes, Pipe, Downloading
  <2> QED BY <1>1, <1>3, <2>1 DEF PipeIsUnseen, Aside
<1> QED BY <1>5, <1>6, <1>7, <1>9, <1>10, <1>11

\* Completing what has its warrant is such a step.
LEMMA CompletesEffect ==
  ASSUME Types, Grown, SettledForCause, NEW claims \in SUBSET Updates, Completes(claims),
         \A m \in claims : Warrant(m)'
  PROVE  /\ \A m \in Updates :
              /\ spool'[m] = "none" => spool[m] = "none"
              /\ spool'[m] = "pending" => spool[m] = "pending"
              /\ spool'[m] = spool[m] \/ Warrant(m)'
              /\ m \in enqueued => m \in enqueued' \/ Warrant(m)'
         /\ \A m \in cached' : Warrant(m)'
<1>1. \A m \in Updates : spool'[m] = IF m \in claims THEN "completed" ELSE spool[m]
  BY DEF Completes
<1>2. cached \subseteq Updates
  BY DEF Types, IntakeTypes
<1> QED BY <1>1, <1>2, WarrantStays DEF Completes, SettledForCause

\* Where a turn stands.
LEMMA TurnViews ==
  /\ \A s : turn' = NewTurn(s) => Claims' = ToSet(s) /\ turn'.at = "working"
  /\ turn' = NoTurn => Claims' = {} /\ turn'.at = "none"
  /\ turn = NoTurn => Claims = {} /\ turn.at = "none"
  /\ turn' = turn => Claims' = Claims
  /\ WorkTypes => \A ph \in TurnPhases : At(ph) => Claims' = Claims /\ turn'.at = ph
<1>1. ASSUME NEW s, turn' = NewTurn(s) PROVE Claims' = ToSet(s) /\ turn'.at = "working"
  BY <1>1 DEF NewTurn, Claims
<1>2. ASSUME turn' = NoTurn PROVE Claims' = {} /\ turn'.at = "none"
  BY <1>2, ShortSets DEF NoTurn, Claims
<1>3. ASSUME turn = NoTurn PROVE Claims = {} /\ turn.at = "none"
  BY <1>3, ShortSets DEF NoTurn, Claims
<1>4. ASSUME turn' = turn PROVE Claims' = Claims
  BY <1>4 DEF Claims
<1>5. ASSUME WorkTypes, NEW ph \in TurnPhases, At(ph)
      PROVE  Claims' = Claims /\ turn'.at = ph
  BY <1>5 DEF WorkTypes, At, Claims
<1> QED BY <1>1, <1>2, <1>3, <1>4, <1>5

\* What a batch becomes that is sent on.
LEMMA QueueEffect ==
  ASSUME queued \in Seq(Updates), NEW claims \in Seq(Updates),
         QueueTurn(claims) \/ SendOn(claims)
  PROVE  \/ turn' = turn /\ InQueue' = InQueue \cup ToSet(claims)
         \/ /\ turn = NoTurn /\ turn' = NewTurn(claims)
            /\ queued' = queued /\ InQueue' = InQueue
<1>1. ToSet(queued \o claims) = ToSet(queued) \cup ToSet(claims)
  BY ConcatSet
<1>2. claims = <<>> => ToSet(claims) = {}
  BY ShortSets
<1> QED BY <1>1, <1>2 DEF QueueTurn, SendOn, InQueue

\* A step on the queue of turns: it changes no checkpoint and answers nothing.
LEMMA TurnMoves ==
  ASSUME Grown, TurnCheckpointed, UNCHANGED <<checkpoint, answers>>,
         \/ turn' = turn \/ turn' = NoTurn
         \/ \E s \in Seq(Updates) : turn' = NewTurn(s),
         Claims \subseteq Updates, checkpoint.claims \subseteq Updates
  PROVE  TurnCheckpointed'
<1>1. \A m \in Updates : Warrant(m) => Warrant(m)'
  BY WarrantStays
<1>2. CASE turn' = turn
  BY <1>1, <1>2, TurnViews DEF TurnCheckpointed
<1>3. CASE turn'.at \in {"none", "working"}
  BY <1>3 DEF TurnCheckpointed
<1> QED BY <1>2, <1>3, TurnViews

\* The turns are such steps, and keep where they stand.
LEMMA TurnsKeep ==
  ASSUME Types, OnTheWay, Standing, Grown, HandlerStep \/ Return \/ Raise
  PROVE  Aside /\ Standing'
<1> USE DEF Standing
<1>1. /\ UNCHANGED <<kind, allowed, confirmed, offset, fetched, putting, queue, slot, startup>>
      /\ UNCHANGED <<heldClaims, seen, mode, batch, late, cmd, after, dropped, outcome>>
  BY DEF HandlerStep, Return, Raise, Refuse, HandlerFails, Begin, Notify, Answer, Stopped,
         Fence, Finalize, server, inflow, durable
<1>2. Claims \in SUBSET Updates /\ checkpoint.claims \subseteq Updates
  BY SeqSet DEF Types, WorkTypes, StoreTypes, Claims
<1>3. \A m \in Updates : Warrant(m) => Warrant(m)'
  BY WarrantStays
<1>4. turn # NoTurn /\ mode \notin {"off", "held", "recovered"}
  <2>1. turn.at # "none"
    BY DEF HandlerStep, Return, Raise, Refuse, Begin, Notify, Answer, Stopped, Fence, Finalize
  <2> QED BY <2>1, TurnViews DEF HeldIsIdle
<1>5. HeldIsIdle' /\ GateKept'
  <2>1. Downloading' = Downloading
    BY <1>1 DEF Downloading
  <2>2. mode' = mode
    BY <1>1
  <2>3. HeldIsIdle'
    BY <1>4, <2>2 DEF HeldIsIdle
  <2> QED BY <1>1, <1>4, <2>3 DEF GateKept, Gated
<1>6. ASSUME \/ UNCHANGED <<spool, enqueued, cached>>
             \/ Completes(Claims) /\ \A m \in Claims : Warrant(m)'
      PROVE  Aside /\ SettledForCause'
  <2>1. /\ \A m \in Updates :
              /\ spool'[m] = "none" => spool[m] = "none"
              /\ spool'[m] = "pending" => spool[m] = "pending"
              /\ spool'[m] = spool[m] \/ Warrant(m)'
              /\ m \in enqueued => m \in enqueued' \/ Warrant(m)'
        /\ \A m \in cached' : Warrant(m)'
    <3>1. CASE UNCHANGED <<spool, enqueued, cached>>
      <4>1. cached \subseteq Updates
        BY DEF Types, IntakeTypes
      <4> QED BY <1>3, <3>1, <4>1 DEF SettledForCause
    <3>2. CASE Completes(Claims) /\ \A m \in Claims : Warrant(m)'
      BY <1>2, <3>2, CompletesEffect
    <3> QED BY <1>6, <3>1, <3>2
  <2>2. Aside
    BY <1>1, <2>1 DEF Aside, Downloading, Stopping
  <2>3. SettledForCause'
    <3>1. \A h \in Handlers : slot[h].at = "settling" => slot[h].m \in Updates
      BY DEF Types, IntakeTypes
    <3> QED BY <1>1, <1>3, <2>1, <3>1 DEF SettledForCause
  <2> QED BY <2>2, <2>3
<1>7. CASE Begin
  <2>1. UNCHANGED <<spool, enqueued, cached, answers>>
    BY <1>7 DEF Begin, inflow, ghosts
  <2>2. Claims' = Claims /\ turn'.at = "model"
    BY <1>7, TurnViews DEF Begin, Types, TurnPhases
  <2>3. TurnCheckpointed'
    BY <1>7, <2>2 DEF Begin, TurnCheckpointed
  <2> QED BY <1>5, <1>6, <2>1, <2>3
<1>8. CASE Notify
  <2>1. UNCHANGED <<spool, enqueued, cached, answers, checkpoint>>
    BY <1>8 DEF Notify, inflow, durable
  <2>2. Claims' = Claims /\ turn'.at = "returned"
    BY <1>8, TurnViews DEF Notify, Types, TurnPhases
  <2>3. \A m \in Claims : Warrant(m)'
    BY <1>8 DEF Notify, Warrant
  <2>4. TurnCheckpointed'
    BY <2>1, <2>2, <2>3 DEF TurnCheckpointed
  <2> QED BY <1>5, <1>6, <2>1, <2>4
<1>9. CASE Answer
  <2>1. UNCHANGED <<spool, enqueued, cached>>
    BY <1>9 DEF Answer, inflow
  <2>2. Claims' = Claims /\ turn'.at = "ready"
    BY <1>9, TurnViews DEF Answer, Types, TurnPhases
  <2>3. checkpoint'.claims = Claims /\ checkpoint'.phase = "ready"
    BY <1>9 DEF Answer, Types, StoreTypes, TurnCheckpointed
  <2>4. \A m \in Claims : answers'[m] > 0
    BY <1>2, <1>9, CountedGrows DEF Answer, Types, FlagTypes
  <2>5. TurnCheckpointed'
    BY <2>2, <2>3, <2>4 DEF TurnCheckpointed
  <2> QED BY <1>5, <1>6, <2>1, <2>5
<1>10. CASE Stopped
  <2>1. Claims' = Claims /\ turn'.at = "returned" /\ answers' = answers
    BY <1>10, TurnViews DEF Stopped, Types, TurnPhases
  <2>2. Completes(Claims) /\ \A m \in Claims : Warrant(m)'
    BY <1>10 DEF Stopped, Warrant
  <2>3. checkpoint'.phase # "ready"
    BY <1>10 DEF Stopped, NoCheckpoint, Types, StoreTypes
  <2>4. TurnCheckpointed'
    BY <2>1, <2>2, <2>3 DEF TurnCheckpointed
  <2> QED BY <1>5, <1>6, <2>2, <2>4
<1>11. CASE Fence
  <2>1. Claims' = Claims /\ turn'.at = "answered" /\ UNCHANGED <<answers, checkpoint>>
    BY <1>11, TurnViews DEF Fence, Types, TurnPhases, ghosts
  <2>2. \A m \in Claims : answers[m] > 0
    BY <1>11 DEF Fence, TurnCheckpointed
  <2>3. Completes(Claims) /\ \A m \in Claims : Warrant(m)'
    BY <1>2, <1>3, <1>11, <2>2 DEF Fence, Warrant
  <2>4. TurnCheckpointed'
    BY <1>11, <2>1 DEF Fence, TurnCheckpointed
  <2> QED BY <1>5, <1>6, <2>3, <2>4
<1>12. CASE Finalize
  <2>1. UNCHANGED <<spool, enqueued, cached, answers>>
    BY <1>12 DEF Finalize, inflow, ghosts
  <2>2. Claims' = Claims /\ turn'.at = "returned"
    BY <1>12, TurnViews DEF Finalize, Types, TurnPhases
  <2>3. \A m \in Claims : Warrant(m)'
    BY <1>2, <1>3, <1>12 DEF Finalize, TurnCheckpointed, Warrant
  <2>4. TurnCheckpointed'
    BY <1>12, <2>2, <2>3 DEF Finalize, NoCheckpoint, TurnCheckpointed
  <2> QED BY <1>5, <1>6, <2>1, <2>4
<1>13. CASE Refuse \/ Raise
  <2>1. UNCHANGED <<spool, enqueued, cached, answers, checkpoint>> /\ turn' = NoTurn
    BY <1>13 DEF Refuse, Raise, HandlerFails, durable, inflow, ghosts
  <2>2. TurnCheckpointed'
    BY <1>2, <2>1, TurnMoves
  <2> QED BY <1>5, <1>6, <2>1, <2>2
<1>14. CASE Return
  <2>1. Completes(Claims) /\ \A m \in Claims : Warrant(m)'
    BY <1>2, <1>3, <1>14 DEF Return, TurnCheckpointed
  <2>2. turn' = NoTurn \/ turn' = NewTurn(queued)
    BY <1>14 DEF Return, Continue
  <2>3. TurnCheckpointed'
    BY <1>2, <1>14, <2>2, TurnMoves DEF Return, ghosts, Types, WorkTypes
  <2> QED BY <1>5, <1>6, <2>1, <2>3
<1> QED BY <1>7, <1>8, <1>9, <1>10, <1>11, <1>12, <1>13, <1>14 DEF HandlerStep

\* What a step has to show when it leaves turns and settled claims as they are.
LEMMA StandingStays ==
  ASSUME Types, SettledForCause, Grown, cached' \subseteq cached,
         \A h \in Handlers : slot'[h].at = "settling" => slot'[h] = slot[h],
         \A m \in Updates : cmd'[m] = "saved" => cmd[m] = "saved"
  PROVE  SettledForCause'
<1>1. \A m \in Updates : Warrant(m) => Warrant(m)'
  BY WarrantStays
<1>2. /\ cached \subseteq Updates
      /\ \A h \in Handlers : slot[h].at = "settling" => slot[h].m \in Updates
  BY DEF Types, IntakeTypes
<1> QED BY <1>1, <1>2 DEF SettledForCause, Grown

\* What a step leaves alone that is no turn and completes nothing.
LEMMA UntouchedAside ==
  ASSUME UNCHANGED <<server, queue, enqueued, slot, startup, seen, spool>>,
         (mode' = "off" \/ Stopping') <=> (mode = "off" \/ Stopping)
  PROVE  Aside
BY DEF Aside, server, Downloading

\* The commands.
LEMMA CommandsKeep ==
  ASSUME Types, OnTheWay, Standing, Grown, NEW m \in Updates,
         CommandStep(m) \/ CommandFails(m)
  PROVE  Aside /\ Standing'
<1> USE DEF Standing
<1>1. /\ UNCHANGED <<kind, allowed, confirmed, offset, fetched, putting, queue, slot, startup>>
      /\ UNCHANGED <<heldClaims, seen, mode, late, answers>>
  BY DEF CommandStep, Clear, Reserve, Execute, Complete, CommandEnds, CommandFails,
         server, inflow, durable, ghosts
<1>2. Claims \in SUBSET Updates /\ checkpoint.claims \subseteq Updates
  BY SeqSet DEF Types, WorkTypes, StoreTypes, Claims
<1>3. \A n \in Updates : Warrant(n) => Warrant(n)'
  BY WarrantStays
<1>4. /\ queued = <<>> => queued' = <<>> /\ turn' = turn
      /\ batch' = batch
      /\ turn' = turn \/ turn' = NoTurn \/ turn' = NewTurn(queued)
  BY DEF CommandStep, Clear, Reserve, Execute, Complete, CommandEnds, CommandFails,
         TaskEnds, LetsGo
<1>5. HeldIsIdle' /\ GateKept'
  <2>1. Downloading' = Downloading
    BY <1>1 DEF Downloading
  <2>2. UNCHANGED <<mode, late, slot, startup, seen, queue>>
    BY <1>1
  <2>3. HeldIsIdle'
    BY <1>4, <2>1, <2>2 DEF HeldIsIdle
  <2>4. GateKept'
    <3>1. mode = "off" => cached' = {}
      BY DEF CommandStep, Clear, Reserve, Execute, Complete, CommandEnds, CommandFails, Running
    <3> QED BY <2>2, <3>1 DEF GateKept, Gated
  <2> QED BY <2>3, <2>4
<1>6. ASSUME NEW claims \in SUBSET Updates, Completes(claims), \A n \in claims : Warrant(n)'
      PROVE  Aside /\ \A n \in cached' : Warrant(n)'
  <2>1. /\ \A n \in Updates :
              /\ spool'[n] = "none" => spool[n] = "none"
              /\ spool'[n] = "pending" => spool[n] = "pending"
              /\ spool'[n] = spool[n] \/ Warrant(n)'
              /\ n \in enqueued => n \in enqueued' \/ Warrant(n)'
        /\ \A n \in cached' : Warrant(n)'
    BY <1>6, CompletesEffect
  <2> QED BY <1>1, <2>1 DEF Aside, Downloading, Stopping
<1>7. ASSUME UNCHANGED <<spool, enqueued, cached>>
      PROVE  Aside /\ \A n \in cached' : Warrant(n)'
  <2>1. Aside
    BY <1>1, <1>7, UntouchedAside DEF Stopping, server
  <2>2. cached \subseteq Updates
    BY DEF Types, IntakeTypes
  <2> QED BY <1>3, <1>7, <2>1, <2>2 DEF SettledForCause
<1>8. ASSUME \A n \in cached' : Warrant(n)',
             \A n \in Updates : cmd'[n] = "saved" => outcome'[n] = "completed"
      PROVE  SettledForCause'
  <2>1. \A h \in Handlers : slot[h].at = "settling" => slot[h].m \in Updates
    BY DEF Types, IntakeTypes
  <2> QED BY <1>1, <1>3, <1>8, <2>1 DEF SettledForCause
<1>9. CASE Clear(m)
  <2>1. dropped[m] \in SUBSET Updates /\ Completes(dropped[m])
        /\ \A n \in dropped[m] : Warrant(n)'
    BY <1>9 DEF Clear, Types, WorkTypes, Warrant
  <2>2. Aside /\ \A n \in cached' : Warrant(n)'
    BY <1>6, <2>1
  <2>3. SettledForCause'
    BY <1>8, <1>9, <2>2 DEF Clear, SettledForCause
  <2>4. TurnCheckpointed'
    BY <1>1, <1>2, <1>9, TurnMoves DEF Clear
  <2> QED BY <1>5, <2>2, <2>3, <2>4
<1>10. CASE Reserve(m)
  <2>1. Aside /\ \A n \in cached' : Warrant(n)'
    BY <1>7, <1>10 DEF Reserve, inflow
  <2>2. \A n \in Updates : cmd'[n] = "saved" => cmd[n] = "saved"
    BY <1>10 DEF Reserve, Step, Types, WorkTypes
  <2>3. SettledForCause'
    BY <1>8, <2>1, <2>2 DEF SettledForCause, Grown
  <2>4. TurnCheckpointed'
    BY <1>1, <1>2, <1>10, TurnMoves DEF Reserve
  <2> QED BY <1>5, <2>1, <2>3, <2>4
<1>11. CASE Execute(m)
  <2>1. Aside /\ \A n \in cached' : Warrant(n)'
    BY <1>7, <1>11 DEF Execute, inflow
  <2>2. \A n \in Updates : cmd'[n] = "saved" => cmd[n] = "saved"
    BY <1>11 DEF Execute, Step, Types, WorkTypes
  <2>3. SettledForCause'
    BY <1>8, <2>1, <2>2 DEF SettledForCause, Grown
  <2>4. TurnCheckpointed'
    <3>1. turn' = turn
      BY <1>11 DEF Execute
    <3>2. CASE checkpoint' = checkpoint
      BY <1>1, <1>2, <3>1, <3>2, TurnMoves
    <3>3. CASE Fenced /\ checkpoint' = NoCheckpoint
      <4>1. turn.at \notin {"model", "ready", "answered"}
        BY <3>3 DEF Fenced, TurnCheckpointed
      <4>2. Claims' = Claims /\ checkpoint'.phase # "ready"
        BY <3>1, <3>3 DEF Claims, NoCheckpoint
      <4> QED BY <1>2, <1>3, <3>1, <4>1, <4>2 DEF TurnCheckpointed
    <3> QED BY <1>11, <3>2, <3>3 DEF Execute
  <2> QED BY <1>5, <2>1, <2>3, <2>4
<1>12. CASE Complete(m)
  <2>1. Aside /\ \A n \in cached' : Warrant(n)'
    BY <1>7, <1>12 DEF Complete, inflow
  <2>2. \A n \in Updates : cmd'[n] = "saved" => n = m \/ cmd[n] = "saved"
    BY <1>12 DEF Complete, Step, Types, WorkTypes
  <2>3. outcome'[m] = "completed"
    BY <1>12 DEF Complete, Types, StoreTypes
  <2>4. SettledForCause'
    BY <1>8, <2>1, <2>2, <2>3 DEF SettledForCause, Grown
  <2>5. TurnCheckpointed'
    BY <1>1, <1>2, <1>12, TurnMoves DEF Complete
  <2> QED BY <1>5, <2>1, <2>4, <2>5
<1>13. ASSUME TaskEnds(m), UNCHANGED <<checkpoint, outcome>>
       PROVE  /\ TurnCheckpointed'
              /\ \A n \in Updates : cmd'[n] = "saved" => outcome'[n] = "completed"
  <2>1. \A n \in Updates : cmd'[n] = "saved" => cmd[n] = "saved"
    BY <1>13 DEF TaskEnds, Step, Types, WorkTypes
  <2>2. TurnCheckpointed'
    BY <1>1, <1>2, <1>4, <1>13, TurnMoves DEF Types, WorkTypes
  <2> QED BY <1>13, <2>1, <2>2 DEF SettledForCause
<1>14. CASE CommandEnds(m)
  <2>1. Completes({m}) /\ Warrant(m)'
    BY <1>14 DEF CommandEnds, SettledForCause, Warrant
  <2>2. Aside /\ \A n \in cached' : Warrant(n)'
    BY <1>6, <2>1
  <2>3. TurnCheckpointed' /\ SettledForCause'
    BY <1>8, <1>13, <1>14, <2>2 DEF CommandEnds
  <2> QED BY <1>5, <2>2, <2>3
<1>15. CASE CommandFails(m)
  <2>1. Aside /\ \A n \in cached' : Warrant(n)'
    BY <1>7, <1>15 DEF CommandFails, durable, inflow
  <2>2. TurnCheckpointed' /\ SettledForCause'
    BY <1>8, <1>13, <1>15, <2>1 DEF CommandFails, durable
  <2> QED BY <1>5, <2>1, <2>2
<1> QED BY <1>9, <1>10, <1>11, <1>12, <1>14, <1>15 DEF CommandStep

\* The recovery of a turn, the gate, the end of the intake, and the operator.
LEMMA ProcessKeeps ==
  ASSUME Types, OnTheWay, Standing, Grown,
         \/ Resume \/ RecordRecovered \/ Retire \/ RetireUnknown \/ Release
         \/ RecoveryBlocked \/ RecoveryFails \/ Released \/ IntakeClosed
         \/ Drained \/ Revoke \/ Prune \/ PollingFails
  PROVE  Aside /\ Standing'
<1> USE DEF Standing
<1>1. Claims \in SUBSET Updates /\ checkpoint.claims \in SUBSET Updates
  BY SeqSet DEF Types, WorkTypes, StoreTypes, Claims
<1>2. \A n \in Updates : Warrant(n) => Warrant(n)'
  BY WarrantStays
<1>3. ASSUME mode = "held", UNCHANGED <<server, queue, slot, startup, seen, work, heldClaims>>,
             mode' \in {"held", "recovered"}, outcome' = outcome,
             \/ UNCHANGED <<spool, enqueued, cached>>
             \/ /\ Completes(checkpoint.claims)
                /\ \A m \in checkpoint.claims : Warrant(m)',
             checkpoint'.phase = "ready" => \A m \in checkpoint'.claims : answers'[m] > 0
      PROVE  Aside /\ Standing'
  <2>1. /\ \A m \in Updates :
              /\ spool'[m] = "none" => spool[m] = "none"
              /\ spool'[m] = "pending" => spool[m] = "pending"
              /\ spool'[m] = spool[m] \/ Warrant(m)'
              /\ m \in enqueued => m \in enqueued' \/ Warrant(m)'
        /\ \A m \in cached' : Warrant(m)'
    <3>1. CASE UNCHANGED <<spool, enqueued, cached>>
      <4>1. cached \subseteq Updates
        BY DEF Types, IntakeTypes
      <4> QED BY <1>2, <3>1, <4>1 DEF SettledForCause
    <3>2. CASE Completes(checkpoint.claims) /\ \A m \in checkpoint.claims : Warrant(m)'
      BY <1>1, <3>2, CompletesEffect
    <3> QED BY <1>3, <3>1, <3>2
  <2>2. Downloading' = Downloading
    BY <1>3 DEF Downloading
  <2>3. Aside
    BY <1>3, <2>1, <2>2 DEF Aside, Stopping, server
  <2>4. HeldIsIdle'
    BY <1>3, <2>2 DEF HeldIsIdle, work
  <2>5. GateKept'
    <3>1. slot["dispatcher"].at # "downloading"
      BY <1>3 DEF GateKept, Gated
    <3> QED BY <1>3, <3>1 DEF GateKept
  <2>6. SettledForCause'
    <3>1. \A h \in Handlers : slot[h].at = "settling" => slot[h].m \in Updates
      BY DEF Types, IntakeTypes
    <3> QED BY <1>2, <1>3, <2>1, <3>1 DEF SettledForCause, work
  <2>7. turn'.at = "none"
    BY <1>3, TurnViews DEF HeldIsIdle, work
  <2>8. TurnCheckpointed'
    BY <1>3, <2>7 DEF TurnCheckpointed
  <2> QED BY <2>3, <2>4, <2>5, <2>6, <2>8
<1>4. CASE Resume
  <2>1. \A m \in checkpoint.claims : answers'[m] > 0
    BY <1>1, <1>4, CountedGrows DEF Resume, Types, FlagTypes
  <2>2. checkpoint'.claims = checkpoint.claims
    BY <1>4 DEF Resume, Types, StoreTypes
  <2> QED BY <1>3, <1>4, <2>1, <2>2 DEF Resume, inflow
<1>5. CASE RecordRecovered
  <2>1. \A m \in checkpoint.claims : Warrant(m)'
    BY <1>1, <1>2, <1>5 DEF RecordRecovered, TurnCheckpointed, Warrant
  <2> QED BY <1>3, <1>5, <2>1 DEF RecordRecovered, TurnCheckpointed, ghosts
<1>6. CASE Retire
  <2>1. checkpoint'.phase # "ready"
    BY <1>6 DEF Retire, NoCheckpoint
  <2> QED BY <1>3, <1>6, <2>1 DEF Retire, inflow
<1>7. CASE RetireUnknown
  <2>1. \A m \in checkpoint.claims : Warrant(m)'
    BY <1>7 DEF RetireUnknown, Warrant
  <2> QED BY <1>3, <1>7, <2>1 DEF RetireUnknown, TurnCheckpointed
<1>8. CASE RecoveryBlocked \/ RecoveryFails
  <2>1. FailsClosed
    BY <1>8, Zenon DEF RecoveryBlocked, RecoveryFails
  <2> QED BY <1>3, <2>1 DEF FailsClosed, durable, inflow, ghosts, TurnCheckpointed
\* The other steps complete nothing.
<1>9. ASSUME UNCHANGED <<server, enqueued, startup, seen, cached, checkpoint, answers, cmd>>,
             queue' = queue \/ queue' = <<>>,
             \/ slot' = slot
             \/ slot' = [h \in Handlers |-> Idle] /\ mode' = "leaving",
             \/ spool' = spool
             \/ \A m \in Updates : spool'[m] = IF spool[m] = "completed" /\ m < confirmed
                                               THEN "gone" ELSE spool[m],
             (mode' = "off" \/ Stopping') <=> (mode = "off" \/ Stopping),
             mode' = "off" => mode = "off",
             \/ UNCHANGED <<mode, turn, batch, late, queued>>
             \/ /\ mode' \notin {"off", "held", "recovered"}
                /\ Gated' => Gated
                /\ turn' = turn \/ \E s \in Seq(Updates) : turn' = NewTurn(s)
                /\ mode' \in {"up", "draining"} => startup = <<>> /\ slot["release"] = Idle
                /\ mode' = "leaving" => mode = "draining"
      PROVE  Aside /\ Standing'
  <2>1. Downloading' \subseteq Downloading /\ \A h \in Handlers : slot'[h] \in {slot[h], Idle}
    BY <1>9 DEF Downloading, Idle
  <2>2. \A m \in Updates :
              /\ spool'[m] = "none" => spool[m] = "none"
              /\ spool'[m] = "pending" => spool[m] = "pending"
              /\ spool'[m] = spool[m] \/ Warrant(m)'
    BY <1>2, <1>9 DEF OnTheWay, KeptSoFar
  <2>3. Aside
    BY <1>9, <2>1, <2>2 DEF Aside, server
  <2>4. HeldIsIdle'
    BY <1>9, <2>1 DEF HeldIsIdle
  <2>5. GateKept'
    <3>1. mode' = "off" => queue' = <<>> /\ startup' = <<>> /\ seen' = {} /\ cached' = {}
      BY <1>9 DEF GateKept
    <3>2. mode' \in {"up", "draining", "leaving"} =>
            startup' = <<>> /\ slot'["release"] = Idle
      <4>1. slot'["release"] \in {slot["release"], Idle}
        BY <2>1 DEF Handlers
      <4> QED BY <1>9, <4>1 DEF GateKept
    <3>3. slot'["dispatcher"].at = "downloading" =>
            startup' = <<>> /\ slot'["release"].at # "downloading" /\ ~Gated'
      <4>1. /\ slot'["dispatcher"] \in {slot["dispatcher"], Idle} /\ Idle.at = "idle"
            /\ slot'["release"] \in {slot["release"], Idle}
        BY <2>1, Records DEF Handlers
      <4> QED BY <1>9, <4>1 DEF GateKept, Gated
    <3> QED BY <3>1, <3>2, <3>3 DEF GateKept
  <2>6. SettledForCause'
    <3>1. \A h \in Handlers : slot'[h].at = "settling" => slot'[h] = slot[h]
      BY <2>1, Records
    <3> QED BY <1>9, <3>1, StandingStays
  <2>7. TurnCheckpointed'
    BY <1>1, <1>9, TurnMoves
  <2> QED BY <2>3, <2>4, <2>5, <2>6, <2>7
<1>10. CASE Release
  BY <1>9, <1>10 DEF Release, durable, inflow, work, ghosts, Stopping, Gated
<1>11. CASE Released
  BY <1>9, <1>11 DEF Released, durable, work, ghosts, Stopping, Gated
<1>12. ASSUME NEW s \in Seq(Updates), SendOn(s)
       PROVE  turn' = turn \/ \E z \in Seq(Updates) : turn' = NewTurn(z)
  BY <1>12 DEF SendOn, QueueTurn
<1>13. CASE IntakeClosed
  <2>1. late \o batch \in Seq(Updates)
    BY DEF Types, WorkTypes
  <2>2. turn' = turn \/ \E z \in Seq(Updates) : turn' = NewTurn(z)
    BY <1>12, <1>13, <2>1 DEF IntakeClosed
  <2> QED BY <1>9, <1>13, <2>2 DEF IntakeClosed, durable, ghosts, Stopping, Gated
<1>14. CASE Drained
  <2>1. turn' = turn \/ \E z \in Seq(Updates) : turn' = NewTurn(z)
    BY <1>12, <1>14 DEF Drained, Types, WorkTypes
  <2> QED BY <1>9, <1>14, <2>1 DEF Drained, durable, ghosts, Stopping, Gated
<1>15. CASE Revoke
  BY <1>9, <1>15 DEF Revoke, durable, inflow, work, ghosts, Stopping
<1>16. CASE PollingFails
  BY <1>9, <1>16 DEF PollingFails, durable, inflow, work, ghosts, Stopping
<1>17. CASE Prune
  BY <1>9, <1>17 DEF Prune, inflow, work, ghosts, Stopping
<1> QED BY <1>4, <1>5, <1>6, <1>7, <1>8, <1>10, <1>11, <1>13, <1>14, <1>15, <1>16, <1>17

\* The settlement of an update, and a batch that is sent on.
LEMMA SlotsKeep ==
  ASSUME Types, OnTheWay, Standing, Grown,
         Flush \/ \E h \in Handlers : SettleUpdate(h) \/ UpdateFails(h)
  PROVE  Aside /\ Standing'
<1> USE DEF Standing
<1>1. Claims \in SUBSET Updates /\ checkpoint.claims \in SUBSET Updates
  BY SeqSet DEF Types, WorkTypes, StoreTypes, Claims
<1>2. CASE Flush
  <2>1. Aside
    BY <1>2, UntouchedAside DEF Flush, durable, inflow, Stopping
  <2>2. batch # <<>> /\ late' = late
    BY <1>2 DEF Flush
  <2>3. HeldIsIdle'
    BY <1>2, <2>2 DEF Flush, HeldIsIdle
  <2>4. GateKept' /\ SettledForCause'
    BY <1>2, StandingStays DEF Flush, GateKept, Gated, inflow
  <2>5. turn' = turn \/ \E s \in Seq(Updates) : turn' = NewTurn(s)
    BY <1>2 DEF Flush, QueueTurn, Types, WorkTypes
  <2>6. TurnCheckpointed'
    BY <1>1, <1>2, <2>5, TurnMoves DEF Flush, durable, ghosts
  <2> QED BY <2>1, <2>3, <2>4, <2>6
<1>3. ASSUME NEW h \in Handlers, SettleUpdate(h) \/ UpdateFails(h)
      PROVE  Aside /\ Standing'
  <2>1. /\ slot' = [slot EXCEPT ![h] = Idle] /\ slot[h].at = "settling"
        /\ UNCHANGED <<server, queue, startup, heldClaims, seen, mode, work, checkpoint, answers>>
        /\ slot[h].m \in Updates /\ mode # "off"
    BY <1>3 DEF SettleUpdate, UpdateFails, durable, ghosts, Types, IntakeTypes, Running
  <2>2. /\ \A g \in Handlers : g # h => slot'[g] = slot[g]
        /\ slot'[h] = Idle /\ Idle.at = "idle"
    BY <2>1, Records DEF Types, IntakeTypes
  <2>3. Downloading' \subseteq Downloading
    BY <2>2 DEF Downloading
  <2>4. PICK x \in Updates : x = slot[h].m
    BY <2>1
  <2>41. Warrant(x)'
    <3>1. Warrant(x)
      BY <2>1, <2>4 DEF SettledForCause
    <3> QED BY <3>1, WarrantStays
  <2>5. /\ \A m \in Updates :
              /\ spool'[m] = "none" => spool[m] = "none"
              /\ spool'[m] = "pending" => spool[m] = "pending"
              /\ spool'[m] = spool[m] \/ Warrant(m)'
              /\ m \in enqueued => m \in enqueued' \/ Warrant(m)'
        /\ \A m \in cached' : Warrant(m)'
    <3>1. CASE SettleUpdate(h)
      BY <2>4, <2>41, <3>1, CompletesEffect DEF SettleUpdate
    <3>2. CASE UpdateFails(h)
      <4>1. cached \subseteq Updates
        BY DEF Types, IntakeTypes
      <4> QED BY <3>2, <4>1, WarrantStays DEF UpdateFails, durable, SettledForCause
    <3> QED BY <1>3, <3>1, <3>2
  <2>6. Aside
    BY <2>1, <2>3, <2>5 DEF Aside, server, Stopping
  <2>7. HeldIsIdle'
    BY <2>1, <2>3 DEF HeldIsIdle, work
  <2>8. GateKept'
    <3>1. slot'["release"] \in {slot["release"], Idle}
          /\ slot'["dispatcher"] \in {slot["dispatcher"], Idle}
      BY <2>2 DEF Handlers
    <3> QED BY <2>1, <2>2, <3>1 DEF GateKept, Gated
  <2>9. SettledForCause'
    <3>1. \A g \in Handlers : slot'[g].at = "settling" => slot'[g] = slot[g]
      BY <2>2
    <3>2. \A m \in Updates : cmd'[m] = "saved" => outcome'[m] = "completed"
      BY <2>1 DEF work, SettledForCause, Grown
    <3>3. ASSUME NEW g \in Handlers, slot'[g].at = "settling"
          PROVE  Warrant(slot[g].m)'
      <4>1. PICK y \in Updates : y = slot'[g].m /\ y = slot[g].m
        BY <3>1, <3>3 DEF Types, IntakeTypes
      <4>2. Warrant(y)
        BY <3>1, <3>3, <4>1 DEF SettledForCause
      <4>3. Warrant(y)'
        BY <4>2, WarrantStays
      <4> QED BY <4>1, <4>3
    <3> QED BY <2>5, <3>2, <3>3 DEF SettledForCause
  <2>10. TurnCheckpointed'
    BY <1>1, <2>1, TurnMoves DEF work
  <2> QED BY <2>6, <2>7, <2>8, <2>9, <2>10
<1> QED BY <1>2, <1>3

-----------------------------------------------------------------------------
(* From the server into the queue.                                         *)

\* Passing the first update of a response reaches that update.
LEMMA PassedReaches ==
  ASSUME ServerTypes, Polled, fetched # <<>>, Passed, confirmed' = confirmed
  PROVE  /\ \A m \in Updates :
              m < confirmed' \/ m < offset' \/ (fetched' # <<>> /\ m < Head(fetched'))
                => Reached(m) \/ m = Head(fetched)
         /\ \A i \in DOMAIN fetched' : fetched'[i] = Head(fetched') + i - 1
         /\ fetched' # <<>> => confirmed' <= Head(fetched')
         /\ Head(fetched) \in Updates
<1> DEFINE h == Head(fetched)
           t == Tail(fetched)
<1>1. h \in Updates /\ h \in Int /\ t \in Seq(Updates) /\ confirmed \in Int /\ confirmed <= h
  <2>1. h \in Updates /\ t \in Seq(Updates)
    BY HeadAndTail DEF ServerTypes
  <2>2. confirmed \in Int /\ confirmed <= h
    BY DEF ServerTypes, Polled
  <2>3. \A x \in Updates : x \in Int
    BY Bounds
  <2> HIDE DEF h, t
  <2> QED BY <2>1, <2>2, <2>3
<1>2. \A i \in DOMAIN t : i \in Int /\ t[i] = h + i
  <2>1. \A i \in DOMAIN t : i \in Int /\ i + 1 \in DOMAIN fetched /\ t[i] = fetched[i + 1]
    BY DEF ServerTypes
  <2> QED BY <1>1, <2>1 DEF Polled
<1>3. t # <<>> => Head(t) = h + 1
  <2>1. t # <<>> => 1 \in DOMAIN t /\ Head(t) = t[1]
    BY <1>1
  <2> QED BY <1>2, <2>1
<1>4. \A i \in DOMAIN t : t[i] = Head(t) + i - 1
  <2>1. \A i \in DOMAIN t : t # <<>>
    OBVIOUS
  <2> QED BY <1>1, <1>2, <1>3, <2>1
<1>5. ASSUME NEW m \in Updates,
             m < confirmed' \/ m < offset' \/ (fetched' # <<>> /\ m < Head(fetched'))
      PROVE  Reached(m) \/ m = h
  <2>1. m \in Int
    BY Bounds
  <2>2. m < confirmed \/ m < offset \/ m < h + 1
    BY <1>1, <1>3, <1>5 DEF Passed
  <2>3. m < confirmed \/ m < offset \/ m < h \/ m = h
    BY <1>1, <2>1, <2>2
  <2> QED BY <2>3 DEF Reached
<1>6. fetched' = t
  BY DEF Passed
<1>7. fetched' # <<>> => confirmed' <= Head(fetched')
  BY <1>1, <1>3, <1>6
<1>8. \A i \in DOMAIN fetched' : fetched'[i] = Head(fetched') + i - 1
  BY <1>4, <1>6
<1> QED BY <1>1, <1>5, <1>7, <1>8

\* Where the handlers stand does not change with the response.
LEMMA ServerStanding ==
  ASSUME Types, Standing, Grown, Poll \/ Record \/ Put \/ RecordFails
  PROVE  Standing'
<1> USE DEF Standing
<1>1. /\ UNCHANGED <<startup, slot, seen, cached, mode, work, checkpoint, answers>>
      /\ mode # "off"
  BY DEF Poll, Record, Put, RecordFails, Running, durable, inflow, ghosts
<1>2. Downloading' = Downloading
  BY <1>1 DEF Downloading
<1>3. HeldIsIdle' /\ GateKept'
  BY <1>1, <1>2 DEF HeldIsIdle, GateKept, work, Gated
<1>4. SettledForCause'
  BY <1>1, StandingStays DEF work
<1>5. Claims \in SUBSET Updates /\ checkpoint.claims \in SUBSET Updates
  BY SeqSet DEF Types, WorkTypes, StoreTypes, Claims
<1>6. TurnCheckpointed'
  BY <1>1, <1>5, TurnMoves DEF work
<1> QED BY <1>3, <1>4, <1>6

\* An update that comes to the end of the queue.
LEMMA QueuedBehind ==
  ASSUME Types, OnTheWay, Grown, NEW e \in Updates,
         queue' = Append(queue, e), UNCHANGED <<startup, slot, seen>>,
         enqueued \subseteq enqueued',
         \A y \in Updates : MessageKey(e) = y => y \in enqueued' \/ Warrant(y)',
         e \notin enqueued \/ Warrant(e)
  PROVE  PipeInOrder' /\ PipeIsEnqueued' /\ PipeIsUnseen'
<1> USE DEF OnTheWay
<1>1. \A m \in Updates : Warrant(m) => Warrant(m)'
  BY WarrantStays
<1>2. Clashes' \subseteq Clashes
  BY WarrantStays
<1>3. /\ ToSet(queue') = ToSet(queue) \cup {e} /\ ToSet(startup') = ToSet(startup)
      /\ Downloading' = Downloading /\ Pipe' = Pipe \cup {e}
  BY AppendSet DEF Types, IntakeTypes, Pipe, Downloading
<1>4. Pipe \subseteq Updates
  BY SeqSet DEF Types, IntakeTypes, Pipe, Downloading
<1>5. ASSUME NEW x \in Pipe PROVE <<x, e>> \notin Clashes
  BY <1>5, <1>4 DEF PipeIsEnqueued, Clashes
<1>6. NoPair(queue', Clashes)
  <2>1. \A x \in ToSet(queue) : <<x, e>> \notin Clashes
    BY <1>5 DEF Pipe
  <2> QED BY <2>1, PairsOfAppend DEF PipeInOrder, Types, IntakeTypes
<1>7. NoPair(queue', Clashes') /\ NoPair(startup', Clashes')
  BY <1>2, <1>6, PairsWeaker DEF PipeInOrder
<1>8. PipeInOrder'
  <2>1. \A x \in ToSet(startup), y \in ToSet(queue) \cup {e} : <<x, y>> \notin Clashes
    BY <1>5 DEF PipeInOrder, Pipe
  <2>2. \A x \in Downloading, y \in ToSet(startup) \cup ToSet(queue) \cup {e} :
          <<x, y>> \notin Clashes
    BY <1>5 DEF PipeInOrder, Pipe
  <2> QED BY <1>2, <1>3, <1>7, <2>1, <2>2 DEF PipeInOrder
<1>9. \A x : MessageKey(x)' = MessageKey(x)
  BY DEF MessageKey, Grown
<1>10. PipeIsEnqueued'
  BY <1>1, <1>3, <1>9 DEF PipeIsEnqueued
<1>11. PipeIsUnseen'
  <2>1. e \in seen => Warrant(e)
    BY DEF PipeIsEnqueued
  <2> QED BY <1>1, <1>3, <1>4, <2>1 DEF PipeIsUnseen
<1> QED BY <1>8, <1>10, <1>11

\* The response, the spool and the queue.
LEMMA ServerKeeps ==
  ASSUME Types, OnTheWay, Standing, Grown, Poll \/ Record \/ Put \/ RecordFails
  PROVE  OnTheWay'
<1>1. /\ KeptSoFar /\ Polled /\ PendingIsEnqueued
      /\ PipeInOrder /\ PipeIsEnqueued /\ PipeIsUnseen
  BY DEF OnTheWay
<1>2. \A m \in Updates : Warrant(m) => Warrant(m)'
  BY WarrantStays
<1>3. ASSUME UNCHANGED <<queue, enqueued, startup, slot, seen>>
      PROVE  PipeInOrder' /\ PipeIsEnqueued' /\ PipeIsUnseen'
  <2>1. Downloading' = Downloading /\ Pipe' = Pipe
    BY <1>3 DEF Downloading, Pipe
  <2>2. Clashes' \subseteq Clashes
    BY WarrantStays
  <2>3. NoPair(queue', Clashes') /\ NoPair(startup', Clashes')
    BY <1>1, <1>3, <2>2, PairsWeaker DEF PipeInOrder
  <2>4. PipeInOrder'
    BY <1>1, <1>3, <2>1, <2>2, <2>3 DEF PipeInOrder
  <2>5. \A x : MessageKey(x)' = MessageKey(x)
    BY DEF MessageKey, Grown
  <2>6. Pipe \subseteq Updates
    BY SeqSet DEF Types, IntakeTypes, Pipe, Downloading
  <2> QED BY <1>1, <1>2, <1>3, <2>1, <2>4, <2>5, <2>6 DEF PipeIsEnqueued, PipeIsUnseen
<1>4. CASE Poll
  <2>1. /\ UNCHANGED <<spool, putting, queue, enqueued, startup, slot, seen, mode, offset>>
        /\ fetched = <<>> /\ ~Stopping /\ mode # "off"
    BY <1>4 DEF Poll, durable, inflow, Running
  <2>2. PICK last \in confirmed' - 1 .. N : fetched' = Interval(confirmed', last)
    BY <1>4 DEF Poll
  <2>3. confirmed' = IF offset > confirmed THEN offset ELSE confirmed
    BY <1>4 DEF Poll
  <2>4. confirmed' \in 1 .. N + 1 /\ confirmed' \in Int
    BY <2>3, Bounds DEF Types, ServerTypes
  <2>5. /\ fetched' # <<>> => Head(fetched') = confirmed'
        /\ \A i \in DOMAIN fetched' : fetched'[i] = confirmed' + i - 1
    BY <2>2, <2>4, Response
  <2>6. Polled'
    <3>1. \A i \in DOMAIN fetched' : fetched' # <<>>
      BY <2>2, <2>4, Response
    <3>2. putting = Nobody
      BY <1>1, <2>1 DEF Polled
    <3> QED BY <2>1, <2>4, <2>5, <3>1, <3>2 DEF Polled, Stopping
  <2>7. ASSUME NEW m \in Updates, Reached(m)' PROVE Reached(m)
    <3>1. m \in Int
      BY Bounds
    <3> QED BY <2>1, <2>3, <2>5, <2>7, <3>1 DEF Reached, Types, ServerTypes
  <2>8. KeptSoFar'
    BY <1>1, <1>2, <2>1, <2>7 DEF KeptSoFar
  <2>9. PendingIsEnqueued'
    BY <1>1, <1>2, <2>1 DEF PendingIsEnqueued, Stopping
  <2> QED BY <1>3, <2>1, <2>6, <2>8, <2>9 DEF OnTheWay
<1>5. CASE RecordFails
  <2>1. /\ UNCHANGED <<confirmed, spool, putting, queue, enqueued, startup, slot, seen, mode, offset>>
        /\ fetched' = <<>> /\ putting = Nobody
    BY <1>5 DEF RecordFails, durable, inflow
  <2>2. Polled'
    BY <1>1, <2>1 DEF Polled, Stopping
  <2>3. KeptSoFar'
    BY <1>1, <1>2, <2>1 DEF KeptSoFar, Reached
  <2>4. PendingIsEnqueued'
    BY <1>1, <1>2, <2>1 DEF PendingIsEnqueued, Stopping
  <2> QED BY <1>3, <2>1, <2>2, <2>3, <2>4 DEF OnTheWay
<1>6. CASE Record
  <2>1. /\ UNCHANGED <<confirmed, enqueued, startup, slot, seen, mode>>
        /\ fetched # <<>> /\ putting = Nobody /\ mode # "off" /\ ~Stopping
    BY <1>1, <1>6 DEF Record, Polled, Running
  <2>2. PICK m \in Updates : m = Head(fetched)
    BY <2>1, HeadAndTail DEF Types, ServerTypes
  <2>3. ASSUME UNCHANGED <<putting, spool>>, Passed, Warrant(m)'
        PROVE  Polled' /\ KeptSoFar' /\ PendingIsEnqueued'
    <3>1. Polled'
      BY <1>1, <2>1, <2>3, PassedReaches DEF Polled, Types, Stopping
    <3>2. ASSUME NEW n \in Updates, Reached(n)' PROVE Reached(n) \/ n = m
      <4>1. CASE n < confirmed' \/ n < offset' \/ (fetched' # <<>> /\ n < Head(fetched'))
        BY <1>1, <2>1, <2>2, <2>3, <4>1, PassedReaches DEF Types
      <4>2. CASE \E z \in Updates : n <= z /\ spool'[z] = "pending"
        BY <2>3, <4>2 DEF Reached
      <4> QED BY <3>2, <4>1, <4>2 DEF Reached
    <3>3. KeptSoFar'
      BY <1>1, <1>2, <2>3, <3>2 DEF KeptSoFar
    <3>4. PendingIsEnqueued'
      BY <1>1, <1>2, <2>1, <2>3 DEF PendingIsEnqueued, Stopping
    <3> QED BY <3>1, <3>3, <3>4
  <2>4. CASE ~Wanted(m)
    <3>1. UNCHANGED <<putting, spool>> /\ Passed /\ queue' = Append(queue, m)
      BY <1>6, <2>2, <2>4 DEF Record
    <3>2. kind[m] = "other" /\ Warrant(m)
      BY <2>4 DEF Wanted, Warrant
    <3>3. \A y \in Updates : MessageKey(m) = y => Warrant(y)
      BY <3>2 DEF MessageKey
    <3>4. \A y \in Updates : MessageKey(m) = y => y \in enqueued' \/ Warrant(y)'
      BY <1>2, <3>3
    <3>5. PipeInOrder' /\ PipeIsEnqueued' /\ PipeIsUnseen'
      BY <2>1, <2>2, <3>1, <3>2, <3>4, QueuedBehind
    <3> QED BY <1>2, <2>3, <3>1, <3>2, <3>5 DEF OnTheWay
  <2>5. CASE Wanted(m) /\ ~Trusted(m)
    <3>1. UNCHANGED <<putting, spool, queue>> /\ Passed /\ waived' = waived \cup {m}
      BY <1>6, <2>2, <2>5 DEF Record
    <3>2. Warrant(m)'
      BY <3>1 DEF Warrant
    <3> QED BY <1>3, <2>1, <2>3, <3>1, <3>2 DEF OnTheWay
  <2>6. CASE Wanted(m) /\ Trusted(m)
    <3>1. /\ spool' = [spool EXCEPT ![m] = IF @ \in {"none", "gone"} THEN "pending" ELSE @]
          /\ putting' = [m |-> m, said |-> spool'[m]]
          /\ UNCHANGED <<fetched, offset, queue>>
      BY <1>6, <2>2, <2>6 DEF Record
    <3>2. /\ \A n \in Updates : n # m => spool'[n] = spool[n]
          /\ spool'[m] \in {"pending", "completed"}
          /\ spool'[m] = "completed" => spool[m] = "completed"
      BY <3>1 DEF Types, StoreTypes
    <3>3. putting'.m = m /\ (putting'.said = "completed" => spool'[m] # "pending")
      BY <3>1, <3>2
    <3>4. Polled'
      BY <1>1, <2>1, <2>2, <3>1, <3>2, <3>3 DEF Polled, Stopping
    <3>5. ASSUME NEW n \in Updates, Reached(n)' PROVE Reached(n) \/ n = m
      <4>1. CASE n < confirmed' \/ n < offset' \/ (fetched' # <<>> /\ n < Head(fetched'))
        BY <2>1, <3>1, <4>1 DEF Reached
      <4>2. CASE \E z \in Updates : n <= z /\ spool'[z] = "pending"
        <5>1. PICK z \in Updates : n <= z /\ spool'[z] = "pending"
          BY <4>2
        <5>2. CASE z # m
          BY <3>2, <5>1, <5>2 DEF Reached
        <5>3. CASE z = m
          <6>1. n \in Int /\ m \in Int
            BY Bounds
          <6>2. n < m \/ n = m
            BY <5>1, <5>3, <6>1
          <6> QED BY <2>1, <2>2, <6>2 DEF Reached
        <5> QED BY <5>2, <5>3
      <4> QED BY <3>5, <4>1, <4>2 DEF Reached
    <3>6. KeptSoFar'
      BY <1>1, <1>2, <3>2, <3>5 DEF KeptSoFar
    <3>7. PendingIsEnqueued'
      <4>1. putting.m \notin Updates
        BY <2>1, Bounds DEF Nobody
      <4> QED BY <1>1, <1>2, <2>1, <3>2, <3>3, <4>1 DEF PendingIsEnqueued, Stopping
    <3> QED BY <1>3, <2>1, <3>1, <3>4, <3>6, <3>7 DEF OnTheWay
  <2> QED BY <2>4, <2>5, <2>6
<1>7. CASE Put
  <2>1. /\ UNCHANGED <<confirmed, spool, startup, slot, seen, mode>>
        /\ putting # Nobody /\ putting' = Nobody /\ Passed
        /\ fetched # <<>> /\ mode # "off" /\ ~Stopping
    BY <1>1, <1>7 DEF Put, Polled, Running, durable
  <2>2. PICK m \in Updates : m = Head(fetched) /\ m = putting.m
    BY <1>1, <2>1, HeadAndTail DEF Types, ServerTypes, Polled
  <2>3. spool[m] # "none"
    BY <1>1, <2>1, <2>2 DEF Polled
  <2>4. spool[m] = "pending" \/ Warrant(m)
    BY <1>1, <2>3 DEF KeptSoFar, Types, StoreTypes
  <2>5. Polled'
    BY <1>1, <2>1, PassedReaches DEF Polled, Types, Stopping
  <2>6. ASSUME NEW n \in Updates, Reached(n)' PROVE Reached(n) \/ n = m
    <3>1. CASE n < confirmed' \/ n < offset' \/ (fetched' # <<>> /\ n < Head(fetched'))
      BY <1>1, <2>1, <2>2, <3>1, PassedReaches DEF Types
    <3>2. CASE \E z \in Updates : n <= z /\ spool'[z] = "pending"
      BY <2>1, <3>2 DEF Reached
    <3> QED BY <2>6, <3>1, <3>2 DEF Reached
  <2>7. KeptSoFar'
    BY <1>1, <1>2, <2>1, <2>4, <2>6 DEF KeptSoFar
  <2>8. CASE m \in enqueued \/ putting.said = "completed"
    <3>1. UNCHANGED <<queue, enqueued>>
      BY <1>7, <2>2, <2>8 DEF Put
    <3>2. m \in enqueued \/ Warrant(m) \/ spool[m] # "pending"
      BY <1>1, <2>1, <2>2, <2>8 DEF Polled
    <3>3. PendingIsEnqueued'
      BY <1>1, <1>2, <2>1, <2>2, <3>1, <3>2 DEF PendingIsEnqueued, Stopping
    <3> QED BY <1>3, <2>1, <2>5, <2>7, <3>1, <3>3 DEF OnTheWay
  <2>9. CASE m \notin enqueued /\ putting.said # "completed"
    <3>1. enqueued' = enqueued \cup {m} /\ queue' = Append(queue, m)
      BY <1>7, <2>2, <2>9 DEF Put
    <3>2. ASSUME NEW y \in Updates, MessageKey(m) = y PROVE y \in enqueued' \/ Warrant(y)
      <4>1. CASE y = m
        BY <3>1, <4>1
      <4>2. CASE y # m
        <5>1. y = m - 1 /\ m \in Int
          BY <3>2, <4>2, Bounds DEF MessageKey
        <5>2. y < m
          BY <5>1
        <5>3. Reached(y)
          BY <2>1, <2>2, <5>2 DEF Reached
        <5>4. spool[y] = "pending" \/ Warrant(y)
          BY <1>1, <5>3 DEF KeptSoFar
        <5> QED BY <1>1, <2>1, <2>2, <3>1, <4>2, <5>4 DEF PendingIsEnqueued
      <4> QED BY <4>1, <4>2
    <3>3. PipeInOrder' /\ PipeIsEnqueued' /\ PipeIsUnseen'
      BY <1>2, <2>1, <2>9, <3>1, <3>2, QueuedBehind
    <3>4. PendingIsEnqueued'
      BY <1>1, <1>2, <2>1, <2>2, <3>1 DEF PendingIsEnqueued, Stopping
    <3> QED BY <2>5, <2>7, <3>3, <3>4 DEF OnTheWay
  <2> QED BY <2>8, <2>9
<1> QED BY <1>4, <1>5, <1>6, <1>7

-----------------------------------------------------------------------------
(* Through the pipe to the handlers.                                       *)

\* Nothing in the pipe stands in relation bad to what is behind it.
FreeOf(bad) ==
    /\ NoPair(queue, bad) /\ NoPair(startup, bad)
    /\ \A x \in ToSet(startup), y \in ToSet(queue) : <<x, y>> \notin bad
    /\ \A x \in Downloading, y \in ToSet(startup) \cup ToSet(queue) : <<x, y>> \notin bad

\* Nothing clashes in the pipe.
LEMMA ClashFree == PipeInOrder <=> FreeOf(Clashes)
BY DEF PipeInOrder, FreeOf

\* The dispatcher takes the first of the queue.
LEMMA TakesFromQueue ==
  ASSUME Types, queue # <<>>, queue' = Tail(queue), startup' = startup,
         Downloading' \subseteq Downloading, NEW bad, FreeOf(bad)
  PROVE  /\ FreeOf(bad)' /\ Pipe' \subseteq Pipe
         /\ Head(queue) \in Updates \cap Pipe
         /\ \A y \in ToSet(queue') : <<Head(queue), y>> \notin bad
         /\ \A x \in Downloading \cup ToSet(startup) : <<x, Head(queue)>> \notin bad
<1>1. /\ Head(queue) \in ToSet(queue) /\ Head(queue) \in Updates
      /\ ToSet(queue) = {Head(queue)} \cup ToSet(queue')
  BY HeadAndTail DEF Types, IntakeTypes
<1>2. NoPair(queue', bad) /\ \A y \in ToSet(queue') : <<Head(queue), y>> \notin bad
  BY PairsOfTail DEF Types, IntakeTypes, FreeOf
<1>3. FreeOf(bad)'
  BY <1>1, <1>2 DEF FreeOf
<1> QED BY <1>1, <1>2, <1>3 DEF FreeOf, Pipe

\* It may keep it in hand while it downloads.
LEMMA TakesInHand ==
  ASSUME Types, queue # <<>>, queue' = Tail(queue), startup' = startup,
         startup = <<>>, Downloading' \subseteq Downloading \cup {Head(queue)},
         NEW bad, FreeOf(bad)
  PROVE  FreeOf(bad)' /\ Pipe' \subseteq Pipe
<1>1. /\ Head(queue) \in ToSet(queue)
      /\ ToSet(queue) = {Head(queue)} \cup ToSet(queue')
  BY HeadAndTail DEF Types, IntakeTypes
<1>2. NoPair(queue', bad) /\ \A y \in ToSet(queue') : <<Head(queue), y>> \notin bad
  BY PairsOfTail DEF Types, IntakeTypes, FreeOf
<1>3. ToSet(startup) = {}
  BY ShortSets
<1>4. FreeOf(bad)'
  BY <1>1, <1>2, <1>3 DEF FreeOf
<1> QED BY <1>1, <1>4 DEF Pipe

\* It may hold it.
LEMMA TakesOnHold ==
  ASSUME Types, queue # <<>>, queue' = Tail(queue),
         startup' = startup \/ startup' = Append(startup, Head(queue)),
         Downloading' \subseteq Downloading, NEW bad, FreeOf(bad)
  PROVE  FreeOf(bad)' /\ Pipe' \subseteq Pipe
<1>1. CASE startup' = startup
  BY <1>1, TakesFromQueue
<1>2. CASE startup' = Append(startup, Head(queue))
  <2>1. /\ Head(queue) \in ToSet(queue) /\ Head(queue) \in Updates
        /\ ToSet(queue) = {Head(queue)} \cup ToSet(queue')
    BY HeadAndTail DEF Types, IntakeTypes
  <2>2. NoPair(queue', bad) /\ \A y \in ToSet(queue') : <<Head(queue), y>> \notin bad
    BY PairsOfTail DEF Types, IntakeTypes, FreeOf
  <2>3. ToSet(startup') = ToSet(startup) \cup {Head(queue)}
    BY <1>2, <2>1, AppendSet DEF Types, IntakeTypes
  <2>4. NoPair(startup', bad)
    BY <1>2, <2>1, PairsOfAppend DEF Types, IntakeTypes, FreeOf
  <2>5. FreeOf(bad)'
    BY <2>1, <2>2, <2>3, <2>4 DEF FreeOf
  <2> QED BY <2>1, <2>3, <2>5 DEF Pipe
<1> QED BY <1>1, <1>2

\* The release takes the first of what is held.
LEMMA TakesFromStartup ==
  ASSUME Types, startup # <<>>, startup' = Tail(startup), queue' = queue,
         Downloading = {}, Downloading' \subseteq {Head(startup)},
         NEW bad, FreeOf(bad)
  PROVE  /\ FreeOf(bad)' /\ Pipe' \subseteq Pipe
         /\ Head(startup) \in Updates \cap Pipe
         /\ \A y \in ToSet(startup') \cup ToSet(queue') : <<Head(startup), y>> \notin bad
<1>1. /\ Head(startup) \in ToSet(startup) /\ Head(startup) \in Updates
      /\ ToSet(startup) = {Head(startup)} \cup ToSet(startup')
  BY HeadAndTail DEF Types, IntakeTypes
<1>2. NoPair(startup', bad) /\ \A y \in ToSet(startup') : <<Head(startup), y>> \notin bad
  BY PairsOfTail DEF Types, IntakeTypes, FreeOf
<1>3. FreeOf(bad)'
  BY <1>1, <1>2 DEF FreeOf
<1> QED BY <1>1, <1>2, <1>3 DEF FreeOf, Pipe

\* What such a step has to show.
LEMMA PipeStep ==
  ASSUME Types, OnTheWay, Grown, UNCHANGED <<server, spool, mode>>,
         \A y \in enqueued : y \in enqueued' \/ Warrant(y)',
         Pipe' \subseteq Pipe, NEW bad, bad = Clashes, FreeOf(bad)',
         \/ seen' = seen
         \/ \E x \in Pipe : /\ seen' = seen \cup {MessageKey(x)}
                            /\ \A y \in Pipe' : <<x, y>> \notin bad
  PROVE  OnTheWay'
<1> USE DEF OnTheWay
<1>1. \A m \in Updates : Warrant(m) => Warrant(m)'
  BY WarrantStays
<1>2. Pipe \subseteq Updates
  BY SeqSet DEF Types, IntakeTypes, Pipe, Downloading
<1>3. KeptSoFar' /\ Polled'
  BY <1>1 DEF KeptSoFar, Reached, Polled, server, Stopping
<1>4. PendingIsEnqueued'
  BY <1>1 DEF PendingIsEnqueued, server, Stopping
<1>5. PipeInOrder'
  <2>1. Clashes' \subseteq bad
    BY WarrantStays
  <2>2. NoPair(queue', Clashes') /\ NoPair(startup', Clashes')
    BY <2>1, PairsWeaker DEF FreeOf
  <2> QED BY <2>1, <2>2 DEF FreeOf, PipeInOrder
<1>6. \A x : MessageKey(x)' = MessageKey(x)
  BY DEF MessageKey, Grown
<1>7. PipeIsEnqueued'
  <2>1. \A y \in seen' \cap Updates : y \in seen \/ \E x \in Pipe : MessageKey(x) = y
    OBVIOUS
  <2>2. \A y \in Updates : y \in enqueued \/ Warrant(y) => y \in enqueued' \/ Warrant(y)'
    BY <1>1
  <2> QED BY <1>6, <2>1, <2>2 DEF PipeIsEnqueued
<1>8. PipeIsUnseen'
  <2> SUFFICES ASSUME NEW z \in Pipe', z \in seen' PROVE Warrant(z)'
    BY DEF PipeIsUnseen
  <2>1. z \in Updates
    BY <1>2
  <2>2. CASE z \in seen
    BY <1>1, <2>1, <2>2 DEF PipeIsUnseen
  <2>3. CASE z \notin seen
    <3>1. PICK x \in Pipe : z = MessageKey(x) /\ <<x, z>> \notin bad
      BY <2>3
    <3>2. Warrant(z)
      BY <1>2, <2>1, <3>1 DEF Clashes
    <3> QED BY <1>1, <2>1, <3>2
  <2> QED BY <2>2, <2>3
<1> QED BY <1>3, <1>4, <1>5, <1>7, <1>8

\* A slot changes.
LEMMA SlotChange ==
  ASSUME slot \in [Handlers -> SlotRecord], NEW h \in Handlers, NEW r \in SlotRecord,
         slot' = [slot EXCEPT ![h] = r]
  PROVE  /\ slot'[h] = r /\ \A g \in Handlers \ {h} : slot'[g] = slot[g]
         /\ r.at # "downloading" => Downloading' \subseteq Downloading
         /\ Downloading' \subseteq Downloading \cup {r.m}
         /\ r.at # "downloading" /\ (\A g \in Handlers \ {h} : slot[g].at # "downloading")
              => Downloading' = {}
<1>1. slot'[h] = r /\ \A g \in Handlers \ {h} : slot'[g] = slot[g]
  OBVIOUS
<1> QED BY <1>1 DEF Downloading

\* What accepting does.
LEMMA AcceptEffect ==
  ASSUME Types, PipeIsUnseen, NEW m \in Updates, m \in Pipe, NEW h \in Handlers, Accept(m, h)
  PROVE  /\ \A n \in Updates : cmd'[n] = "saved" => cmd[n] = "saved"
         /\ turn' = turn \/ \E s \in Seq(Updates) : turn' = NewTurn(s)
         /\ kind[m] = "approve" => UNCHANGED <<batch, late, queued, turn>>
         /\ \/ /\ seen' = seen /\ Warrant(m)
               /\ slot' = [slot EXCEPT ![h] = [m |-> m, at |-> "settling"]]
            \/ seen' = seen \cup {MessageKey(m)} /\ slot' = [slot EXCEPT ![h] = Idle]
<1>1. CASE UNCHANGED work /\ MessageKey(m) \in seen
  <2>1. Warrant(m)
    <3>1. CASE kind[m] = "edit"
      BY <3>1 DEF Warrant
    <3>2. CASE kind[m] # "edit"
      BY <1>1, <3>2 DEF MessageKey, PipeIsUnseen
    <3> QED BY <3>1, <3>2
  <2>2. seen' = seen /\ slot' = [slot EXCEPT ![h] = [m |-> m, at |-> "settling"]]
    BY <1>1 DEF Accept
  <2> QED BY <1>1, <2>1, <2>2 DEF work
<1>2. CASE MessageKey(m) \notin seen /\ Collect(m)
  <2>1. turn' = turn \/ turn' = NewTurn(batch)
    BY <1>2 DEF Collect, QueueTurn
  <2> QED BY <1>2, <2>1 DEF Accept, Collect, Texts, Types, WorkTypes
<1>3. CASE MessageKey(m) \notin seen /\ Command(m)
  <2>1. \A n \in Updates : cmd'[n] = "saved" => cmd[n] = "saved"
    BY <1>3 DEF Command, Types, WorkTypes
  <2> QED BY <1>3, <2>1 DEF Accept, Command, Control
<1> QED BY <1>1, <1>2, <1>3 DEF Accept

\* What handling does.
LEMMA HandleEffect ==
  ASSUME Types, PipeIsUnseen, NEW m \in Updates, m \in Pipe, NEW h \in Handlers, Handle(m, h)
  PROVE  /\ \A n \in Updates : cmd'[n] = "saved" => cmd[n] = "saved"
         /\ turn' = turn \/ \E s \in Seq(Updates) : turn' = NewTurn(s)
         /\ enqueued' = enqueued \/ (enqueued' = enqueued \ {m} /\ m \in cached)
         /\ kind[m] = "approve" => UNCHANGED <<batch, late, queued, turn>>
         /\ \/ /\ UNCHANGED <<seen, work>>
               /\ slot' = slot \/ slot' = [slot EXCEPT ![h] = Idle]
            \/ /\ UNCHANGED <<batch, late, queued, turn, seen>> /\ Warrant(m)
               /\ slot' = [slot EXCEPT ![h] = [m |-> m, at |-> "settling"]]
            \/ /\ UNCHANGED <<seen, work>> /\ kind[m] = "media" /\ ~Completed(m)
               /\ slot' = [slot EXCEPT ![h] = [m |-> m, at |-> "downloading"]]
            \/ /\ seen' = seen \cup {MessageKey(m)} /\ slot' = [slot EXCEPT ![h] = Idle]
               /\ ~Completed(m) /\ Authorized(m) /\ kind[m] \notin {"media", "other"}
<1>1. CASE Completed(m) \/ kind[m] = "other"
  BY <1>1 DEF Handle, Completed, Authorized, work
<1>2. CASE ~Completed(m) /\ ~Authorized(m)
  BY <1>2 DEF Handle, Authorized, Warrant, work
<1>3. CASE ~Completed(m) /\ kind[m] = "media"
  BY <1>3 DEF Handle, Authorized, work
<1>4. CASE ~Completed(m) /\ Authorized(m) /\ kind[m] \notin {"media", "other"}
  <2>1. Accept(m, h) /\ UNCHANGED <<enqueued, heldClaims>>
    BY <1>4 DEF Handle
  <2>2. ASSUME slot' = [slot EXCEPT ![h] = [m |-> m, at |-> "settling"]]
        PROVE  UNCHANGED <<batch, late, queued, turn, seen>> /\ Warrant(m)
    <3>1. slot'[h].at = "settling" /\ Idle.at # "settling"
      BY <2>2, Records DEF Types, IntakeTypes
    <3>2. slot' # [slot EXCEPT ![h] = Idle]
      BY <3>1 DEF Types, IntakeTypes
    <3> QED BY <2>1, <3>2, AcceptEffect DEF Accept, work
  <2> QED BY <1>4, <2>1, <2>2, AcceptEffect
<1> QED BY <1>1, <1>2, <1>3, <1>4

\* The turns and what is settled, when a slot changes.
LEMMA SlotStanding ==
  ASSUME Types, Standing, Grown, UNCHANGED <<cached, checkpoint, answers>>,
         turn' = turn \/ \E s \in Seq(Updates) : turn' = NewTurn(s),
         \A n \in Updates : cmd'[n] = "saved" => cmd[n] = "saved",
         NEW h \in Handlers, NEW m \in Updates,
         \/ slot' = slot \/ slot' = [slot EXCEPT ![h] = Idle]
         \/ slot' = [slot EXCEPT ![h] = [m |-> m, at |-> "downloading"]]
         \/ slot' = [slot EXCEPT ![h] = [m |-> m, at |-> "settling"]] /\ Warrant(m)
  PROVE  SettledForCause' /\ TurnCheckpointed'
<1> USE DEF Standing
<1>1. TurnCheckpointed'
  <2>1. Claims \subseteq Updates /\ checkpoint.claims \subseteq Updates
    BY SeqSet DEF Types, WorkTypes, StoreTypes, Claims
  <2> QED BY <2>1, TurnMoves
<1>2. CASE slot' = slot \/ slot' = [slot EXCEPT ![h] = Idle]
           \/ slot' = [slot EXCEPT ![h] = [m |-> m, at |-> "downloading"]]
  <2>1. \A g \in Handlers : slot'[g].at = "settling" => slot'[g] = slot[g]
    <3>1. Idle.at = "idle" /\ [m |-> m, at |-> "downloading"].at = "downloading"
      BY Records
    <3> QED BY <1>2, <3>1 DEF Types, IntakeTypes
  <2>2. SettledForCause'
    BY <2>1, StandingStays
  <2> QED BY <1>1, <2>2
<1>3. CASE slot' = [slot EXCEPT ![h] = [m |-> m, at |-> "settling"]] /\ Warrant(m)
  <2>1. \A n \in Updates : Warrant(n) => Warrant(n)'
    BY WarrantStays
  <2>2. \A g \in Handlers : g # h => slot'[g] = slot[g]
    BY <1>3 DEF Types, IntakeTypes
  <2>3. slot'[h].m = m
    BY <1>3 DEF Types, IntakeTypes
  <2>4. ASSUME NEW g \in Handlers, slot'[g].at = "settling"
        PROVE  Warrant(slot[g].m)'
    <3>1. CASE g = h
      BY <1>3, <2>1, <2>3, <3>1
    <3>2. CASE g # h
      <4>1. PICK y \in Updates : y = slot'[g].m /\ y = slot[g].m
        BY <2>2, <2>4, <3>2 DEF Types, IntakeTypes
      <4>2. Warrant(y)'
        BY <2>1, <2>2, <2>4, <3>2, <4>1 DEF SettledForCause
      <4> QED BY <4>1, <4>2
    <3> QED BY <3>1, <3>2
  <2>5. \A n \in cached' : Warrant(n)'
    BY <2>1 DEF SettledForCause, Types, IntakeTypes
  <2>6. \A n \in Updates : cmd'[n] = "saved" => outcome'[n] = "completed"
    BY DEF SettledForCause, Grown
  <2> QED BY <1>1, <2>4, <2>5, <2>6 DEF SettledForCause
<1> QED BY <1>2, <1>3

\* The dispatcher.
LEMMA DispatchKeeps ==
  ASSUME Types, OnTheWay, Standing, Grown, Dispatch
  PROVE  OnTheWay' /\ Standing'
<1> USE DEF Standing
<1>1. /\ UNCHANGED <<server, spool, checkpoint, cached, mode, answers>>
      /\ mode \notin {"off", "leaving"} /\ slot["dispatcher"] = Idle
      /\ queue # <<>> /\ queue' = Tail(queue)
  BY DEF Dispatch, Running, Dispatching, durable, ghosts
<1>2. PICK m \in Updates : m = Head(queue) /\ m \in Pipe
  BY <1>1, HeadAndTail DEF Types, IntakeTypes, Pipe
<1>3. PICK bad : bad = Clashes
  OBVIOUS
<1>4. FreeOf(bad) /\ PipeIsUnseen
  BY <1>3, ClashFree DEF OnTheWay
<1>5. "dispatcher" \in Handlers /\ Handlers \ {"dispatcher"} = {"release"} /\ Idle.at = "idle"
  BY Records DEF Handlers
<1>6. CASE Held(m) /\ Hold(m)
  <2>1. /\ startup' = startup \/ startup' = Append(startup, Head(queue))
        /\ UNCHANGED <<enqueued, slot, seen, work>>
    BY <1>2, <1>6 DEF Hold
  <2>2. Downloading' = Downloading
    BY <2>1 DEF Downloading
  <2>3. FreeOf(bad)' /\ Pipe' \subseteq Pipe
    BY <1>1, <1>4, <2>1, <2>2, TakesOnHold
  <2>4. OnTheWay'
    BY <1>1, <1>3, <2>1, <2>3, PipeStep
  <2>5. HeldIsIdle'
    BY <1>1, <2>1, <2>2 DEF HeldIsIdle, work
  <2>6. GateKept'
    <3>1. mode \notin {"up", "draining", "leaving", "off"}
      BY <1>1, <1>6 DEF Held, Closed, Gated
    <3> QED BY <1>1, <1>5, <2>1, <3>1 DEF GateKept
  <2>7. SettledForCause' /\ TurnCheckpointed'
    BY <1>1, <1>2, <1>5, <2>1, SlotStanding DEF work
  <2> QED BY <2>4, <2>5, <2>6, <2>7
<1>7. CASE ~Held(m) /\ Handle(m, "dispatcher") /\ startup' = startup
  <2>1. ~Completed(m) /\ Authorized(m) /\ kind[m] \notin {"other", "approve"} =>
          ~Gated /\ startup = <<>> /\ slot["release"].at # "downloading"
    BY <1>1, <1>5, <1>7 DEF Held, Closed, Bypasses, GateKept, Gated, Types, FlagTypes, Modes
  <2>2. /\ \A n \in Updates : cmd'[n] = "saved" => cmd[n] = "saved"
        /\ turn' = turn \/ \E s \in Seq(Updates) : turn' = NewTurn(s)
        /\ enqueued' = enqueued \/ (enqueued' = enqueued \ {m} /\ m \in cached)
        /\ kind[m] = "approve" => UNCHANGED <<batch, late, queued, turn>>
    BY <1>2, <1>4, <1>5, <1>7, HandleEffect
  <2>3. SettledForCause' /\ TurnCheckpointed'
    <3>1. \/ slot' = slot \/ slot' = [slot EXCEPT !["dispatcher"] = Idle]
          \/ slot' = [slot EXCEPT !["dispatcher"] = [m |-> m, at |-> "downloading"]]
          \/ slot' = [slot EXCEPT !["dispatcher"] = [m |-> m, at |-> "settling"]] /\ Warrant(m)
      BY <1>2, <1>4, <1>5, <1>7, HandleEffect
    <3> QED BY <1>1, <1>5, <2>2, <3>1, SlotStanding
  <2>4. \A y \in enqueued : y \in enqueued' \/ Warrant(y)'
    BY <2>2, WarrantStays DEF SettledForCause
  <2>5. CASE slot' = [slot EXCEPT !["dispatcher"] = [m |-> m, at |-> "downloading"]]
             /\ UNCHANGED <<seen, work>> /\ kind[m] = "media" /\ ~Completed(m)
    <3>1. ~Gated /\ startup = <<>> /\ slot["release"].at # "downloading"
      BY <2>1, <2>5 DEF Authorized
    <3>2. /\ slot'["release"] = slot["release"]
          /\ Downloading' \subseteq Downloading \cup {m}
      <4>1. /\ [m |-> m, at |-> "downloading"] \in SlotRecord
            /\ [m |-> m, at |-> "downloading"].m = m
        BY Records
      <4>2. slot \in [Handlers -> SlotRecord]
        BY DEF Types, IntakeTypes
      <4> QED BY <1>5, <2>5, <4>1, <4>2, SlotChange
    <3>3. FreeOf(bad)' /\ Pipe' \subseteq Pipe
      BY <1>1, <1>2, <1>4, <1>7, <3>1, <3>2, TakesInHand
    <3>4. OnTheWay'
      BY <1>1, <1>3, <2>4, <2>5, <3>3, PipeStep
    <3>5. HeldIsIdle'
      BY <1>1, <3>1 DEF HeldIsIdle, Gated
    <3>6. GateKept'
      BY <1>1, <1>7, <3>1, <3>2 DEF GateKept, Gated
    <3> QED BY <2>3, <3>4, <3>5, <3>6
  <2>6. CASE \/ slot' = slot \/ slot' = [slot EXCEPT !["dispatcher"] = Idle]
             \/ slot' = [slot EXCEPT !["dispatcher"] = [m |-> m, at |-> "settling"]]
    <3>1. /\ slot'["dispatcher"].at # "downloading" /\ slot'["release"] = slot["release"]
          /\ Downloading' \subseteq Downloading
      <4>1. [m |-> m, at |-> "settling"] \in SlotRecord
            /\ [m |-> m, at |-> "settling"].at = "settling"
        BY Records
      <4>2. CASE slot' = slot
        BY <1>1, <1>5, <4>2 DEF Downloading
      <4>3. CASE slot' # slot
        BY <1>5, <2>6, <4>1, <4>3, Records, SlotChange DEF Types, IntakeTypes
      <4> QED BY <4>2, <4>3
    <3>2. /\ FreeOf(bad)' /\ Pipe' \subseteq Pipe
          /\ \A y \in ToSet(queue') : <<m, y>> \notin bad
          /\ \A x \in Downloading \cup ToSet(startup) : <<x, m>> \notin bad
      BY <1>1, <1>2, <1>4, <1>7, <3>1, TakesFromQueue
    <3>3. \/ seen' = seen
          \/ seen' = seen \cup {MessageKey(m)} /\ ~Completed(m) /\ Authorized(m)
             /\ kind[m] \notin {"media", "other"}
      BY <1>2, <1>4, <1>5, <1>7, HandleEffect
    <3>4. ASSUME seen' # seen, NEW y \in Pipe' PROVE <<m, y>> \notin bad
      <4>1. CASE y \in ToSet(queue')
        BY <3>2, <4>1
      <4>2. CASE y \notin ToSet(queue')
        <5>1. y \in ToSet(startup) \cup Downloading
          BY <1>7, <3>1, <3>4, <4>2 DEF Pipe
        <5>2. CASE kind[m] = "approve"
          <6>1. MessageKey(m) = m
            BY <5>2 DEF MessageKey
          <6>2. <<y, m>> \notin bad
            BY <3>2, <5>1
          <6>3. y = m => <<m, y>> \notin bad
            BY <6>2
          <6>4. y # m => <<m, y>> \notin bad
            BY <1>3, <6>1 DEF Clashes
          <6> QED BY <6>3, <6>4
        <5>3. CASE kind[m] # "approve"
          <6>1. startup = <<>> /\ slot["release"].at # "downloading"
            BY <2>1, <3>3, <3>4, <5>3
          <6>2. Downloading = {}
            BY <1>1, <1>5, <6>1 DEF Downloading, Handlers
          <6> QED BY <5>1, <6>1, <6>2, ShortSets
        <5> QED BY <5>2, <5>3
      <4> QED BY <4>1, <4>2
    <3>5. OnTheWay'
      <4>1. \/ seen' = seen
            \/ /\ seen' = seen \cup {MessageKey(m)}
               /\ \A y \in Pipe' : <<m, y>> \notin bad
        BY <3>3, <3>4
      <4> QED BY <1>1, <1>2, <1>3, <2>4, <3>2, <4>1, PipeStep
    <3>6. HeldIsIdle'
      <4>1. mode' = mode /\ (mode \in {"off", "held", "recovered"} => Downloading' = {})
        BY <1>1, <3>1 DEF HeldIsIdle
      <4>2. mode \in {"held", "recovered"} => UNCHANGED <<batch, late, queued, turn>>
        <5>1. CASE kind[m] = "approve"
          BY <2>2, <5>1
        <5>2. CASE kind[m] # "approve" /\ mode \in {"held", "recovered"}
          <6>1. Completed(m) \/ ~Authorized(m) \/ kind[m] = "other"
            BY <2>1, <5>2 DEF Gated
          <6> QED BY <1>7, <6>1 DEF Handle, Authorized, Accept, work
        <5> QED BY <5>1, <5>2
      <4> QED BY <1>1, <4>1, <4>2 DEF HeldIsIdle
    <3>7. GateKept'
      BY <1>1, <1>7, <3>1 DEF GateKept
    <3> QED BY <2>3, <3>5, <3>6, <3>7
  <2> QED BY <1>2, <1>4, <1>5, <1>7, <2>5, <2>6, HandleEffect
<1> QED BY <1>2, <1>6, <1>7 DEF Dispatch

\* What was held.
LEMMA ReleaseKeeps ==
  ASSUME Types, OnTheWay, Standing, Grown, ReleaseNext
  PROVE  OnTheWay' /\ Standing'
<1> USE DEF Standing
<1>1. /\ UNCHANGED <<server, spool, checkpoint, cached, mode, answers, queue>>
      /\ mode \in {"releasing", "closing"} /\ slot["release"] = Idle
      /\ startup # <<>> /\ startup' = Tail(startup)
  BY DEF ReleaseNext, Busy, durable, ghosts
<1>2. PICK m \in Updates : m = Head(startup) /\ m \in Pipe
  BY <1>1, HeadAndTail DEF Types, IntakeTypes, Pipe
<1>3. PICK bad : bad = Clashes
  OBVIOUS
<1>4. FreeOf(bad) /\ PipeIsUnseen
  BY <1>3, ClashFree DEF OnTheWay
<1>5. "release" \in Handlers /\ Handlers \ {"release"} = {"dispatcher"} /\ Idle.at = "idle"
  BY Records DEF Handlers
<1>6. Handle(m, "release")
  BY <1>2 DEF ReleaseNext
<1>7. slot["dispatcher"].at # "downloading"
  BY <1>1 DEF GateKept
<1>8. Downloading = {}
  BY <1>1, <1>5, <1>7 DEF Downloading, Handlers
<1>9. /\ \A n \in Updates : cmd'[n] = "saved" => cmd[n] = "saved"
      /\ turn' = turn \/ \E s \in Seq(Updates) : turn' = NewTurn(s)
      /\ enqueued' = enqueued \/ (enqueued' = enqueued \ {m} /\ m \in cached)
      /\ seen' = seen \/ seen' = seen \cup {MessageKey(m)}
  BY <1>2, <1>4, <1>5, <1>6, HandleEffect
<1>10. \/ slot' = slot \/ slot' = [slot EXCEPT !["release"] = Idle]
       \/ slot' = [slot EXCEPT !["release"] = [m |-> m, at |-> "downloading"]]
       \/ slot' = [slot EXCEPT !["release"] = [m |-> m, at |-> "settling"]] /\ Warrant(m)
  BY <1>2, <1>4, <1>5, <1>6, HandleEffect
<1>11. SettledForCause' /\ TurnCheckpointed'
  BY <1>1, <1>2, <1>5, <1>9, <1>10, SlotStanding
<1>12. \A y \in enqueued : y \in enqueued' \/ Warrant(y)'
  BY <1>9, WarrantStays DEF SettledForCause
<1>13. slot'["dispatcher"] = slot["dispatcher"] /\ Downloading' \subseteq {m}
  <2>1. /\ [m |-> m, at |-> "settling"] \in SlotRecord
        /\ [m |-> m, at |-> "downloading"] \in SlotRecord
        /\ [m |-> m, at |-> "settling"].m = m /\ [m |-> m, at |-> "downloading"].m = m
        /\ Idle \in SlotRecord
    BY Records
  <2>2. slot \in [Handlers -> SlotRecord]
    BY DEF Types, IntakeTypes
  <2>3. CASE slot' = slot
    BY <1>8, <2>3 DEF Downloading
  <2>4. CASE slot' = [slot EXCEPT !["release"] = Idle]
    BY <1>5, <1>8, <2>1, <2>2, <2>4, SlotChange
  <2>5. CASE slot' = [slot EXCEPT !["release"] = [m |-> m, at |-> "downloading"]]
    BY <1>5, <1>8, <2>1, <2>2, <2>5, SlotChange
  <2>6. CASE slot' = [slot EXCEPT !["release"] = [m |-> m, at |-> "settling"]]
    BY <1>5, <1>8, <2>1, <2>2, <2>6, SlotChange
  <2> QED BY <1>10, <2>3, <2>4, <2>5, <2>6
<1>14. /\ FreeOf(bad)' /\ Pipe' \subseteq Pipe
       /\ \A y \in ToSet(startup') \cup ToSet(queue') : <<m, y>> \notin bad
  BY <1>1, <1>2, <1>4, <1>8, <1>13, TakesFromStartup
<1>15. OnTheWay'
  <2>1. CASE seen' = seen
    BY <1>1, <1>3, <1>12, <1>14, <2>1, PipeStep
  <2>2. CASE seen' # seen
    <3>1. seen' = seen \cup {MessageKey(m)}
      BY <1>9, <2>2
    <3>2. Downloading' = {}
      <4>1. slot' = [slot EXCEPT !["release"] = Idle] \/ slot' = slot
        BY <1>2, <1>4, <1>5, <1>6, <2>2, HandleEffect
      <4>2. slot \in [Handlers -> SlotRecord] /\ Idle \in SlotRecord
        BY Records DEF Types, IntakeTypes
      <4>3. CASE slot' = slot
        BY <1>8, <4>3 DEF Downloading
      <4>4. CASE slot' = [slot EXCEPT !["release"] = Idle]
        BY <1>5, <1>7, <4>2, <4>4, SlotChange
      <4> QED BY <4>1, <4>3, <4>4
    <3>3. \A y \in Pipe' : <<m, y>> \notin bad
      BY <1>14, <3>2 DEF Pipe
    <3> QED BY <1>1, <1>2, <1>3, <1>12, <1>14, <3>1, <3>3, PipeStep
  <2> QED BY <2>1, <2>2
<1>16. HeldIsIdle' /\ GateKept'
  BY <1>1, <1>7, <1>13 DEF HeldIsIdle, GateKept
<1> QED BY <1>11, <1>15, <1>16

\* The end of a download.
LEMMA DownloadKeeps ==
  ASSUME Types, OnTheWay, Standing, Grown, NEW h \in Handlers, Download(h)
  PROVE  OnTheWay' /\ Standing'
<1> USE DEF Standing
<1>1. /\ UNCHANGED <<server, spool, checkpoint, cached, mode, answers, queue, startup, enqueued>>
      /\ slot[h].at = "downloading"
  BY DEF Download, durable, ghosts
<1>2. PICK m \in Updates : m = slot[h].m /\ m \in Downloading
  BY <1>1 DEF Types, IntakeTypes, Downloading
<1>3. PICK bad : bad = Clashes
  OBVIOUS
<1>4. FreeOf(bad) /\ PipeIsUnseen /\ m \in Pipe
  BY <1>2, <1>3, ClashFree DEF OnTheWay, Pipe
<1>5. Accept(m, h)
  BY <1>2 DEF Download
<1>6. /\ \A n \in Updates : cmd'[n] = "saved" => cmd[n] = "saved"
      /\ turn' = turn \/ \E s \in Seq(Updates) : turn' = NewTurn(s)
      /\ \/ /\ seen' = seen /\ Warrant(m)
            /\ slot' = [slot EXCEPT ![h] = [m |-> m, at |-> "settling"]]
         \/ seen' = seen \cup {MessageKey(m)} /\ slot' = [slot EXCEPT ![h] = Idle]
  BY <1>2, <1>4, <1>5, AcceptEffect
<1>7. SettledForCause' /\ TurnCheckpointed'
  BY <1>1, <1>2, <1>6, SlotStanding
<1>8. \A g \in Handlers \ {h} : slot[g].at # "downloading"
  BY <1>1 DEF GateKept, Handlers
<1>9. Downloading' = {} /\ \A g \in Handlers \ {h} : slot'[g] = slot[g]
  <2>1. /\ [m |-> m, at |-> "settling"] \in SlotRecord /\ Idle \in SlotRecord
        /\ [m |-> m, at |-> "settling"].at = "settling" /\ Idle.at = "idle"
    BY Records
  <2>2. slot \in [Handlers -> SlotRecord]
    BY DEF Types, IntakeTypes
  <2>3. CASE slot' = [slot EXCEPT ![h] = Idle]
    BY <1>8, <2>1, <2>2, <2>3, SlotChange
  <2>4. CASE slot' = [slot EXCEPT ![h] = [m |-> m, at |-> "settling"]]
    <3>1. PICK r \in SlotRecord : r = [m |-> m, at |-> "settling"] /\ r.at = "settling"
      BY <2>1
    <3>2. slot' = [slot EXCEPT ![h] = r]
      BY <2>4, <3>1
    <3>3. r.at # "downloading"
      BY <3>1
    <3>4. \A g \in Handlers \ {h} : slot'[g] = slot[g]
      BY <2>2, <3>2, SlotChange
    <3>5. Downloading' = {}
      BY <1>8, <2>2, <3>2, <3>3, SlotChange
    <3> QED BY <3>4, <3>5
  <2> QED BY <1>6, <2>3, <2>4
<1>10. /\ FreeOf(bad)' /\ Pipe' \subseteq Pipe
       /\ \A y \in Pipe' : <<m, y>> \notin bad
  BY <1>1, <1>2, <1>4, <1>9 DEF FreeOf, Pipe
<1>11. OnTheWay'
  BY <1>1, <1>3, <1>4, <1>6, <1>10, PipeStep
<1>12. mode \notin {"off", "held", "recovered"}
  BY <1>2 DEF HeldIsIdle
<1>13. HeldIsIdle'
  BY <1>1, <1>12 DEF HeldIsIdle
<1>14. GateKept'
  <2>1. slot'["dispatcher"].at # "downloading"
    BY <1>9 DEF Downloading, Handlers
  <2>2. mode \in {"up", "draining", "leaving"} => startup = <<>> /\ slot'["release"] = Idle
    <3>1. CASE h = "release"
      <4>1. Idle.at = "idle"
        BY Records
      <4> QED BY <1>1, <3>1, <4>1 DEF GateKept
    <3>2. CASE h = "dispatcher"
      BY <1>9, <3>2 DEF GateKept, Handlers
    <3> QED BY <3>1, <3>2 DEF Handlers
  <2> QED BY <1>1, <1>12, <2>1, <2>2 DEF GateKept
<1> QED BY <1>7, <1>11, <1>13, <1>14

-----------------------------------------------------------------------------
(* The process's start and end.                                            *)

\* Nothing is in the pipe behind a step.
LEMMA EmptyPipe ==
  ASSUME queue' = <<>>, startup' = <<>>, Downloading' = {}, seen' = {}
  PROVE  PipeInOrder' /\ PipeIsEnqueued' /\ PipeIsUnseen'
<1>1. ToSet(queue') = {} /\ ToSet(startup') = {} /\ DOMAIN queue' = {} /\ DOMAIN startup' = {}
  BY ShortSets
<1> QED BY <1>1 DEF PipeInOrder, PipeIsEnqueued, PipeIsUnseen, Pipe, NoPair

\* No handler is at work behind a step.
LEMMA IdleSlots ==
  ASSUME slot' = [h \in Handlers |-> Idle]
  PROVE  /\ Downloading' = {} /\ slot'["release"] = Idle
         /\ \A h \in Handlers : slot'[h].at = "idle"
BY Records DEF Downloading, Handlers

\* The first state.
LEMMA InitKeeping ==
  ASSUME Init, Types
  PROVE  OnTheWay /\ Standing
<1>1. /\ Downloading = {} /\ slot["release"] = Idle
      /\ \A h \in Handlers : slot[h].at = "idle"
      /\ slot["dispatcher"].at = "idle"
  BY Records DEF Init, Downloading, Handlers
<1>2. PipeInOrder /\ PipeIsEnqueued /\ PipeIsUnseen
  <2>1. ToSet(queue) = {} /\ ToSet(startup) = {} /\ DOMAIN queue = {} /\ DOMAIN startup = {}
    BY ShortSets DEF Init
  <2> QED BY <1>1, <2>1 DEF Init, PipeInOrder, PipeIsEnqueued, PipeIsUnseen, Pipe, NoPair
<1>3. KeptSoFar
  <2>1. \A m \in Updates : ~(m < 1)
    BY Bounds
  <2> QED BY <2>1 DEF Init, KeptSoFar, Reached
<1>4. Polled
  <2>1. fetched = <<>> /\ putting = Nobody /\ DOMAIN fetched = {}
    BY DEF Init
  <2> QED BY <2>1 DEF Polled
<1>5. PendingIsEnqueued
  BY DEF Init, PendingIsEnqueued
<1>6. HeldIsIdle /\ GateKept
  BY <1>1 DEF Init, HeldIsIdle, GateKept
<1>7. SettledForCause
  BY <1>1 DEF Init, SettledForCause
<1>8. TurnCheckpointed
  BY DEF Init, TurnCheckpointed, NoTurn, NoCheckpoint
<1> QED BY <1>2, <1>3, <1>4, <1>5, <1>6, <1>7, <1>8 DEF OnTheWay, Standing

\* A process is gone, with all it had in memory.
LEMMA GoneKeeps ==
  ASSUME Types, OnTheWay, Standing, Grown, Gone
  PROVE  OnTheWay' /\ Standing'
<1> USE DEF Standing, OnTheWay
<1>1. /\ UNCHANGED <<kind, confirmed, spool, checkpoint, outcome, answers, waived>>
      /\ mode' = "off" /\ offset' = confirmed /\ fetched' = <<>> /\ putting' = Nobody
  BY DEF Gone, durable, ghosts
<1>2. /\ Downloading' = {} /\ slot'["release"] = Idle
      /\ \A h \in Handlers : slot'[h].at = "idle"
      /\ slot'["dispatcher"].at = "idle"
  BY IdleSlots DEF Gone, Handlers
<1>3. PipeInOrder' /\ PipeIsEnqueued' /\ PipeIsUnseen'
  BY <1>2, EmptyPipe DEF Gone
<1>4. KeptSoFar'
  <2>1. \A m \in Updates : Reached(m)' => Reached(m)
    BY <1>1 DEF Reached
  <2>2. \A m \in Updates : Warrant(m) => Warrant(m)'
    BY WarrantStays
  <2> QED BY <1>1, <2>1, <2>2 DEF KeptSoFar
<1>5. Polled'
  <2>1. DOMAIN fetched' = {}
    BY <1>1
  <2> QED BY <1>1, <2>1 DEF Polled
<1>6. PendingIsEnqueued'
  BY <1>1 DEF PendingIsEnqueued
<1>7. HeldIsIdle' /\ GateKept'
  BY <1>1, <1>2 DEF Gone, HeldIsIdle, GateKept
<1>8. SettledForCause'
  BY <1>2 DEF Gone, SettledForCause
<1>9. TurnCheckpointed'
  BY <1>1 DEF Gone, TurnCheckpointed, NoTurn
<1> QED BY <1>3, <1>4, <1>5, <1>6, <1>7, <1>8, <1>9

\* The intake is stopped: the server is told the offset.
LEMMA StopKeeps ==
  ASSUME Types, OnTheWay, Standing, Grown, StopIntake
  PROVE  OnTheWay' /\ Standing'
<1> USE DEF Standing, OnTheWay
<1>1. /\ UNCHANGED <<spool, checkpoint, outcome, answers, waived, offset>>
      /\ UNCHANGED <<queue, enqueued, slot, startup, seen, cached, turn, cmd, checkpoint>>
      /\ mode' = "closing" /\ fetched' = <<>> /\ putting' = Nobody
      /\ confirmed' = IF offset > confirmed THEN offset ELSE confirmed
      /\ mode # "off"
  BY DEF StopIntake, durable, inflow, work, ghosts, Running
<1>2. \A m \in Updates : Warrant(m) => Warrant(m)'
  BY WarrantStays
<1>3. Downloading' = Downloading /\ Pipe' = Pipe
  BY <1>1 DEF Downloading, Pipe
<1>4. PipeInOrder' /\ PipeIsEnqueued' /\ PipeIsUnseen'
  <2>1. Clashes' \subseteq Clashes
    BY WarrantStays
  <2>2. NoPair(queue', Clashes') /\ NoPair(startup', Clashes')
    BY <1>1, <2>1, PairsWeaker DEF PipeInOrder
  <2>3. PipeInOrder'
    BY <1>1, <1>3, <2>1, <2>2 DEF PipeInOrder
  <2>4. \A x : MessageKey(x)' = MessageKey(x)
    BY DEF MessageKey, Grown
  <2>5. Pipe \subseteq Updates
    BY SeqSet DEF Types, IntakeTypes, Pipe, Downloading
  <2> QED BY <1>1, <1>2, <1>3, <2>3, <2>4, <2>5 DEF PipeIsEnqueued, PipeIsUnseen
<1>5. KeptSoFar'
  <2>1. \A m \in Updates : Reached(m)' => Reached(m)
    BY <1>1 DEF Reached
  <2> QED BY <1>1, <1>2, <2>1 DEF KeptSoFar
<1>6. Polled'
  <2>1. DOMAIN fetched' = {}
    BY <1>1
  <2> QED BY <1>1, <2>1 DEF Polled
<1>7. PendingIsEnqueued' /\ HeldIsIdle'
  BY <1>1 DEF PendingIsEnqueued, HeldIsIdle, Stopping
<1>8. GateKept'
  BY <1>1 DEF GateKept, Gated
<1>9. SettledForCause'
  <2>1. cached \subseteq Updates /\ \A h \in Handlers : slot[h].at = "settling" => slot[h].m \in Updates
    BY DEF Types, IntakeTypes
  <2> QED BY <1>1, <1>2, <2>1 DEF SettledForCause
<1>10. TurnCheckpointed'
  <2>1. Claims' = Claims /\ Claims \subseteq Updates
    BY <1>1, SeqSet DEF Claims, Types, WorkTypes
  <2> QED BY <1>1, <1>2, <2>1 DEF TurnCheckpointed
<1> QED BY <1>4, <1>5, <1>6, <1>7, <1>8, <1>9, <1>10

\* The start: what is pending is replayed in order, an edit behind what it
\* edits.
LEMMA StartKeeps ==
  ASSUME Types, OnTheWay, Standing, Grown, Start
  PROVE  OnTheWay' /\ Standing'
<1> USE DEF Standing, OnTheWay
<1>1. /\ UNCHANGED <<confirmed, offset, fetched, putting, outcome, slot, startup, seen, cached>>
      /\ UNCHANGED <<turn, batch, late, queued, cmd, answers, kind>>
      /\ mode = "off" /\ mode' = "held"
  BY DEF Start, server, work
<1>2. /\ queue = <<>> /\ startup = <<>> /\ seen = {} /\ cached = {} /\ turn = NoTurn
      /\ Downloading = {} /\ fetched = <<>> /\ putting = Nobody
  BY <1>1 DEF GateKept, HeldIsIdle, Polled
<1>3. \A m \in Updates : Warrant(m) => Warrant(m)'
  BY WarrantStays
<1>4. Downloading' = {} /\ slot["dispatcher"].at # "downloading"
  <2>1. Downloading' = Downloading
    BY <1>1 DEF Downloading
  <2> QED BY <1>2, <2>1 DEF Downloading, Handlers
<1>5. HeldIsIdle' /\ GateKept'
  BY <1>1, <1>2, <1>4 DEF HeldIsIdle, GateKept
<1>6. SettledForCause'
  <2>1. \A h \in Handlers : slot[h].at = "settling" => slot[h].m \in Updates
    BY DEF Types, IntakeTypes
  <2> QED BY <1>1, <1>2, <1>3, <2>1 DEF SettledForCause
<1>7. TurnCheckpointed'
  <2>1. turn'.at = "none"
    BY <1>1, <1>2 DEF NoTurn
  <2>2. checkpoint' = checkpoint \/ checkpoint'.phase = "unknown"
    BY DEF Start, Types, StoreTypes
  <2> QED BY <1>1, <2>1, <2>2 DEF TurnCheckpointed
<1>8. Polled'
  <2>1. DOMAIN fetched' = {}
    BY <1>1, <1>2
  <2> QED BY <1>1, <1>2, <2>1 DEF Polled
<1>9. CASE allowed /\ spool' = spool /\ queue' \in Ascending(Pending) /\ enqueued' = Pending
  <2>1. KeptSoFar'
    BY <1>1, <1>3, <1>9 DEF KeptSoFar, Reached
  <2>2. PendingIsEnqueued'
    BY <1>9 DEF PendingIsEnqueued, Pending
  <2>3. /\ ToSet(queue') = Pending
        /\ \A i, j \in DOMAIN queue' : i < j => queue'[i] < queue'[j]
        /\ \A i \in DOMAIN queue' : queue'[i] \in Updates
    BY <1>9 DEF Ascending, Pending
  <2>4. ToSet(startup') = {} /\ DOMAIN startup' = {}
    BY <1>1, <1>2, ShortSets
  <2>5. \A x, y \in Updates : x < y => <<x, y>> \notin Clashes'
    <3>1. \A x \in Updates : MessageKey(x)' <= x
      BY Bounds DEF MessageKey
    <3> QED BY <3>1, Bounds DEF Clashes
  <2>6. PipeInOrder'
    BY <1>4, <2>3, <2>4, <2>5 DEF PipeInOrder, NoPair
  <2>7. Pipe' = Pending
    BY <1>4, <2>3, <2>4 DEF Pipe
  <2>8. PipeIsEnqueued'
    <3>1. ASSUME NEW x \in Pending, NEW y \in Updates, MessageKey(x)' = y
          PROVE  y \in enqueued' \/ Warrant(y)'
      <4>1. x \in Updates /\ y <= x
        BY <3>1, Bounds DEF MessageKey, Pending
      <4>2. Reached(y)
        BY <3>1, <4>1 DEF Reached, Pending
      <4> QED BY <1>3, <1>9, <4>2 DEF KeptSoFar, Pending
    <3> QED BY <1>1, <1>2, <2>7, <3>1 DEF PipeIsEnqueued
  <2>9. PipeIsUnseen'
    BY <1>1, <1>2 DEF PipeIsUnseen
  <2> QED BY <1>5, <1>6, <1>7, <1>8, <2>1, <2>2, <2>6, <2>8, <2>9
<1>10. CASE Discard(Pending) /\ queue' = queue /\ enqueued' = enqueued
  <2>1. PipeInOrder' /\ PipeIsEnqueued' /\ PipeIsUnseen'
    BY <1>1, <1>2, <1>4, <1>10, EmptyPipe
  <2>2. \A m \in Updates : spool'[m] # "pending" /\ (spool'[m] = spool[m] \/ m \in waived')
    BY <1>10 DEF Discard, Pending
  <2>3. PendingIsEnqueued'
    BY <2>2 DEF PendingIsEnqueued
  <2>4. \A m \in Updates : Reached(m)' => Reached(m)
    BY <1>1, <2>2 DEF Reached
  <2>5. KeptSoFar'
    BY <1>3, <2>2, <2>4 DEF KeptSoFar, Warrant
  <2> QED BY <1>5, <1>6, <1>7, <1>8, <2>1, <2>3, <2>5
<1> QED BY <1>9, <1>10 DEF Start, Replay

-----------------------------------------------------------------------------
(* No update is lost.                                                      *)

\* A step of nobody.
LEMMA StutterKeeps ==
  ASSUME Types, OnTheWay, Standing, UNCHANGED vars
  PROVE  Types' /\ OnTheWay' /\ Standing'
<1>1. UNCHANGED <<kind, allowed, confirmed, offset, fetched, putting, spool, checkpoint, outcome>>
      /\ UNCHANGED <<queue, enqueued, slot, startup, heldClaims, seen, cached, mode, failed>>
      /\ UNCHANGED <<batch, late, queued, turn, cmd, after, dropped, answers, waived, spent>>
  BY DEF vars, server, durable, inflow, work, ghosts
<1>2. Types'
  BY <1>1 DEF Types, ServerTypes, StoreTypes, IntakeTypes, WorkTypes, FlagTypes
<1>3. Grown
  BY <1>1 DEF Grown
<1>4. OnTheWay'
  <2>1. Aside
    BY <1>1, UntouchedAside DEF server, Stopping
  <2> QED BY <1>3, <2>1, AsideKeeps
<1>5. HeldIsIdle' /\ GateKept'
  <2>1. Downloading' = Downloading
    BY <1>1 DEF Downloading
  <2> QED BY <1>1, <2>1 DEF Standing, HeldIsIdle, GateKept, Gated
<1>6. SettledForCause'
  BY <1>1, <1>3, StandingStays DEF Standing
<1>7. TurnCheckpointed'
  <2>1. Claims \subseteq Updates /\ checkpoint.claims \subseteq Updates
    BY SeqSet DEF Types, WorkTypes, StoreTypes, Claims
  <2> QED BY <1>1, <1>3, <2>1, TurnMoves DEF Standing
<1> QED BY <1>2, <1>4, <1>5, <1>6, <1>7 DEF Standing

\* Every step.
LEMMA StepKeeping ==
  ASSUME Types, OnTheWay, Standing, Next
  PROVE  OnTheWay' /\ Standing'
<1>1. Grown
  BY StepGrows
<1>2. CASE Poll \/ Record \/ Put \/ RecordFails
  BY <1>1, <1>2, ServerKeeps, ServerStanding
<1>3. CASE Dispatch
  BY <1>1, <1>3, DispatchKeeps
<1>4. CASE ReleaseNext
  BY <1>1, <1>4, ReleaseKeeps
<1>5. CASE \E h \in Handlers : Download(h)
  BY <1>1, <1>5, DownloadKeeps
<1>6. CASE Flush \/ \E h \in Handlers : SettleUpdate(h) \/ UpdateFails(h)
  BY <1>1, <1>6, SlotsKeep, AsideKeeps
<1>7. CASE HandlerStep \/ Return \/ Raise
  BY <1>1, <1>7, TurnsKeep, AsideKeeps
<1>8. CASE \E m \in Updates : CommandStep(m) \/ CommandFails(m)
  BY <1>1, <1>8, CommandsKeep, AsideKeeps
<1>9. CASE \/ Resume \/ RecordRecovered \/ Retire \/ RetireUnknown \/ Release
           \/ RecoveryBlocked \/ RecoveryFails \/ Released \/ IntakeClosed
           \/ Drained \/ Revoke \/ Prune \/ PollingFails
  BY <1>1, <1>9, ProcessKeeps, AsideKeeps
<1>10. CASE Start
  BY <1>1, <1>10, StartKeeps
<1>11. CASE StopIntake
  BY <1>1, <1>11, StopKeeps
<1>12. CASE Exit \/ Abort \/ Crash
  <2>1. Gone
    BY <1>12, Zenon DEF Exit, Abort, Crash
  <2> QED BY <1>1, <2>1, GoneKeeps
<1> QED BY Zenon, <1>2, <1>3, <1>4, <1>5, <1>6, <1>7, <1>8, <1>9, <1>10, <1>11, <1>12
        DEF Next, Progress, Trouble

\* What the run checks.
LEMMA KeptImplied ==
  ASSUME Types, OnTheWay, Standing
  PROVE  UpdatesKept
<1>1. TypeOK
  <2>1. ToSet(queue) \subseteq Updates /\ ToSet(startup) \subseteq Updates
        /\ Claims \subseteq Updates
    BY SeqSet DEF Types, IntakeTypes, WorkTypes, Claims
  <2>2. ToSet(batch \o late \o queued) \subseteq Updates
    <3>1. batch \o late \in Seq(Updates) /\ queued \in Seq(Updates)
      BY ConcatSet DEF Types, WorkTypes
    <3> QED BY <3>1, ConcatSet, SeqSet
  <2> QED BY <2>1, <2>2 DEF TypeOK, Types, ServerTypes, StoreTypes, IntakeTypes, WorkTypes,
                            FlagTypes, Modes, CmdPhases
<1>2. NothingLost
  BY DEF OnTheWay, KeptSoFar, NothingLost, Reached, Warrant, Cause
<1>3. RecoveryUndisturbed
  BY DEF Standing, HeldIsIdle, RecoveryUndisturbed
<1> QED BY <1>1, <1>2, <1>3 DEF UpdatesKept

\* An update below the server's offset, or settled in the spool, was answered,
\* executed, made void or needs nothing, or is still pending in the spool; and
\* no turn runs while the one of an earlier process is being recovered.
THEOREM UpdatesAreKept == Spec => []UpdatesKept
<1>1. Init => Types /\ OnTheWay /\ Standing
  BY InitTypes, InitKeeping
<1>2. (Types /\ OnTheWay /\ Standing) /\ [Next]_vars => (Types /\ OnTheWay /\ Standing)'
  <2>1. ASSUME Types, OnTheWay, Standing, Next PROVE (Types /\ OnTheWay /\ Standing)'
    <3>1. Polled
      BY <2>1 DEF OnTheWay
    <3> QED BY <2>1, <3>1, StepTypes, StepKeeping
  <2> QED BY <2>1, StutterKeeps
<1>3. Types /\ OnTheWay /\ Standing => UpdatesKept
  BY KeptImplied
<1> QED BY <1>1, <1>2, <1>3, PTL DEF Spec

-----------------------------------------------------------------------------
(* No update is answered twice.                                            *)

\* Answered without a checkpoint that says so.
Bare(m) == answers[m] > 0 /\ m \notin checkpoint.claims

\* What a step leaves answered without a checkpoint that says so.
Lapse == {m \in Updates : ~Bare(m) /\ Bare(m)'}

\* The steps on answers and checkpoints: only the end of a turn and the end of
\* its recovery leave answers without a checkpoint.
LEMMA MemoryKeeps ==
  ASSUME Types, TurnCheckpointed, UnreadyUnanswered, WaitingUnanswered, AnsweredOnce, Next
  PROVE  /\ UnreadyUnanswered' /\ AnsweredOnce'
         /\ \/ Lapse = {}
            \/ (Finalize /\ Lapse \subseteq Claims)
            \/ (Retire /\ Lapse \subseteq cached)
<1>1. /\ answers \in [Updates -> 0 .. 2] /\ Claims \subseteq Updates
      /\ checkpoint \in [claims : SUBSET Updates, phase : {"none", "started", "ready", "unknown"}]
      /\ turn \in [claims : Seq(Updates), at : TurnPhases]
  BY SeqSet DEF Types, WorkTypes, StoreTypes, FlagTypes, Claims
<1>2. CASE UNCHANGED <<answers, checkpoint>>
  BY <1>2 DEF UnreadyUnanswered, AnsweredOnce, Lapse, Bare
<1>3. ASSUME Counted(checkpoint.claims), checkpoint.phase = "started",
             checkpoint' = [checkpoint EXCEPT !.phase = "ready"]
      PROVE  UnreadyUnanswered' /\ AnsweredOnce' /\ Lapse = {}
  <2>1. checkpoint'.claims = checkpoint.claims /\ checkpoint'.phase = "ready"
    BY <1>1, <1>3
  <2>2. \A m \in checkpoint.claims : answers[m] = 0
    BY <1>3 DEF UnreadyUnanswered
  <2>3. AnsweredOnce'
    BY <1>1, <1>3, <2>2, CountedGrows DEF AnsweredOnce
  <2>4. Lapse = {}
    BY <1>1, <1>3, <2>1, CountedGrows DEF Lapse, Bare
  <2> QED BY <2>1, <2>3, <2>4 DEF UnreadyUnanswered
<1>4. ASSUME answers' = answers, \A m \in checkpoint.claims \ checkpoint'.claims : answers[m] = 0,
             \A m \in checkpoint'.claims : answers[m] = 0
      PROVE  UnreadyUnanswered' /\ AnsweredOnce' /\ Lapse = {}
  BY <1>1, <1>4 DEF UnreadyUnanswered, AnsweredOnce, Lapse, Bare
<1>5. ASSUME checkpoint.phase # "ready", answers' = answers,
             checkpoint'.claims = checkpoint.claims \/ checkpoint' = NoCheckpoint
      PROVE  UnreadyUnanswered' /\ AnsweredOnce' /\ Lapse = {}
  <2>1. NoCheckpoint.claims = {}
    BY DEF NoCheckpoint
  <2> QED BY <1>4, <1>5, <2>1 DEF UnreadyUnanswered
<1>6. CASE Poll \/ Record \/ Put \/ RecordFails \/ PollingFails \/ Dispatch \/ ReleaseNext \/ Flush
  BY <1>2, <1>6 DEF Poll, Record, Put, RecordFails, PollingFails, Dispatch, ReleaseNext, Flush,
                    durable, ghosts
<1>7. CASE \E h \in Handlers : Download(h) \/ SettleUpdate(h) \/ UpdateFails(h)
  BY <1>2, <1>7 DEF Download, SettleUpdate, UpdateFails, durable, ghosts
<1>8. CASE Begin
  <2>1. checkpoint = NoCheckpoint /\ checkpoint' = [claims |-> Claims, phase |-> "started"]
        /\ turn.at = "working" /\ answers' = answers
    BY <1>8 DEF Begin, ghosts
  <2>2. checkpoint.claims = {} /\ checkpoint'.claims = Claims
    BY <2>1 DEF NoCheckpoint
  <2>3. \A m \in Claims : answers[m] = 0
    BY <2>1, <2>2 DEF WaitingUnanswered, Waiting
  <2> QED BY <1>4, <2>1, <2>2, <2>3
<1>9. CASE Answer
  BY <1>3, <1>9 DEF Answer, TurnCheckpointed
<1>10. CASE Resume
  BY <1>3, <1>10 DEF Resume
<1>11. CASE Stopped
  <2>1. checkpoint.phase = "started" /\ answers' = answers
    BY <1>11 DEF Stopped, TurnCheckpointed
  <2>2. checkpoint'.claims = checkpoint.claims \/ checkpoint' = NoCheckpoint
    BY <1>1, <1>11 DEF Stopped
  <2> QED BY <1>5, <2>1, <2>2
<1>12. CASE Finalize \/ Retire
  <2>1. checkpoint'.claims = {} /\ answers' = answers
    BY <1>12 DEF Finalize, Retire, NoCheckpoint, ghosts
  <2>2. UnreadyUnanswered' /\ AnsweredOnce'
    BY <2>1 DEF UnreadyUnanswered, AnsweredOnce
  <2>3. Lapse \subseteq checkpoint.claims
    BY <2>1 DEF Lapse, Bare
  <2>4. Finalize => checkpoint.claims = Claims
    BY DEF Finalize, TurnCheckpointed
  <2>5. Retire => checkpoint.claims \subseteq cached
    BY DEF Retire
  <2> QED BY <1>12, <2>2, <2>3, <2>4, <2>5
<1>13. CASE Notify \/ Fence \/ Refuse \/ Return \/ Raise
  BY <1>2, <1>13 DEF Notify, Fence, Refuse, Return, Raise, HandlerFails, durable, ghosts
<1>14. ASSUME NEW m \in Updates, CommandStep(m) \/ CommandFails(m)
       PROVE  UnreadyUnanswered' /\ AnsweredOnce' /\ Lapse = {}
  <2>1. CASE Execute(m)
    <3>1. answers' = answers
      BY <2>1 DEF Execute, ghosts
    <3>2. CASE checkpoint' = checkpoint
      BY <3>1, <3>2 DEF UnreadyUnanswered, AnsweredOnce, Lapse, Bare
    <3>3. CASE checkpoint.phase = "unknown" /\ checkpoint' = NoCheckpoint
      BY <1>5, <3>1, <3>3
    <3> QED BY <2>1, <3>2, <3>3 DEF Execute, Fenced
  <2>2. CASE Clear(m) \/ Reserve(m) \/ Complete(m) \/ CommandEnds(m) \/ CommandFails(m)
    <3>1. UNCHANGED <<answers, checkpoint>>
      BY <2>2 DEF Clear, Reserve, Complete, CommandEnds, CommandFails, durable, ghosts
    <3> QED BY <3>1 DEF UnreadyUnanswered, AnsweredOnce, Lapse, Bare
  <2> QED BY <1>14, <2>1, <2>2 DEF CommandStep
<1>15. CASE Start
  <2>1. answers' = answers
    BY <1>15 DEF Start
  <2>2. checkpoint' = checkpoint
        \/ (checkpoint.phase = "started" /\ checkpoint'.claims = checkpoint.claims)
    BY <1>1, <1>15 DEF Start
  <2> QED BY <1>2, <1>5, <2>1, <2>2
<1>16. CASE \/ RecordRecovered \/ RetireUnknown \/ Release \/ RecoveryBlocked \/ RecoveryFails
            \/ Released \/ StopIntake \/ IntakeClosed \/ Drained \/ Exit \/ Abort \/ Crash
            \/ Revoke \/ Prune
  BY <1>2, <1>16 DEF RecordRecovered, RetireUnknown, Release, RecoveryBlocked, RecoveryFails,
       FailsClosed, Released, StopIntake, IntakeClosed, Drained, Exit, Abort, Crash, Gone,
       Revoke, Prune, durable, ghosts
<1> QED BY Zenon, <1>6, <1>7, <1>8, <1>9, <1>10, <1>11, <1>12, <1>13, <1>14, <1>15, <1>16
        DEF Next, Progress, Trouble, HandlerStep

\* What is settled in the spool stays so, and what was remembered as settled
\* is settled there.
LEMMA RecordsKeep ==
  ASSUME Types, OnTheWay, Standing, SettledOnRecord, Next
  PROVE  /\ SettledOnRecord'
         /\ \A m \in Updates : spool[m] \in {"completed", "gone"} =>
              spool'[m] \in {"completed", "gone"}
<1>1. /\ spool \in [Updates -> {"none", "pending", "completed", "gone"}]
      /\ cached \subseteq Updates /\ Claims \subseteq Updates /\ checkpoint.claims \subseteq Updates
      /\ confirmed \in Nat /\ offset \in Nat /\ Updates \subseteq Nat
      /\ turn \in [claims : Seq(Updates), at : TurnPhases] /\ queued \in Seq(Updates)
  BY SeqSet, Bounds DEF Types, WorkTypes, StoreTypes, IntakeTypes, ServerTypes, Claims
<1> DEFINE Stay == \A m \in Updates : spool[m] \in {"completed", "gone"} =>
                     spool'[m] \in {"completed", "gone"}
           Calm == turn'.at = "answered" => turn' = turn
           Goal == SettledOnRecord' /\ Stay
<1> SUFFICES SettledOnRecord' /\ Stay
  OBVIOUS
<1> HIDE DEF Stay, Calm, Goal
<1>2. ASSUME UNCHANGED <<spool, cached, allowed>>, confirmed' = confirmed \/ (confirmed' = offset /\ offset > confirmed),
             Calm
      PROVE  SettledOnRecord' /\ Stay
  <2>1. turn'.at = "answered" => Claims' = Claims /\ turn.at = "answered"
    BY <1>2 DEF Calm, Claims
  <2>2. \A m \in Updates : m < confirmed => m < confirmed'
    BY <1>1, <1>2
  <2> QED BY <1>1, <1>2, <2>1, <2>2 DEF SettledOnRecord, Stay
<1>3. ASSUME NEW claims \in SUBSET Updates, Completes(claims), UNCHANGED <<confirmed, allowed>>,
             Calm \/ (turn'.at = "answered" => Claims' \subseteq claims)
      PROVE  SettledOnRecord' /\ Stay
  <2>1. /\ \A m \in Updates : spool'[m] = IF m \in claims THEN "completed" ELSE spool[m]
        /\ cached' = cached \cup claims
    BY <1>3 DEF Completes
  <2>2. turn'.at = "answered" => \A m \in Claims' : spool'[m] = "completed"
    <3>1. CASE Calm
      BY <1>1, <2>1, <3>1 DEF Calm, Claims, SettledOnRecord
    <3>2. CASE turn'.at = "answered" => Claims' \subseteq claims
      BY <1>3, <2>1, <3>2
    <3> QED BY <1>3, <3>1, <3>2
  <2> QED BY <1>1, <1>3, <2>1, <2>2 DEF SettledOnRecord, Stay
<1>4. ASSUME \/ turn' = turn \/ turn' = NoTurn \/ turn'.at # "answered"
             \/ \E s : turn' = NewTurn(s)
      PROVE  Calm
  BY <1>4 DEF Calm, NoTurn, NewTurn
<1>5. CASE Poll \/ Put \/ RecordFails \/ PollingFails
  <2>1. UNCHANGED <<spool, cached, allowed, turn>>
    BY <1>5 DEF Poll, Put, RecordFails, PollingFails, durable, inflow, work
  <2>2. confirmed' = confirmed \/ (confirmed' = offset /\ offset > confirmed)
    BY <1>5 DEF Poll, Put, RecordFails, PollingFails, server
  <2> QED BY <1>2, <1>4, <2>1, <2>2 DEF Stay
<1>6. CASE Record
  <2>1. UNCHANGED <<cached, allowed, turn, confirmed>>
    BY <1>6 DEF Record, work
  <2>2. CASE spool' = spool
    BY <1>2, <1>4, <2>1, <2>2 DEF Stay
  <2>3. CASE spool' # spool
    <3>1. PICK x \in Updates : x = Head(fetched)
      BY <1>6, HeadAndTail DEF Record, Types, ServerTypes
    <3>2. /\ allowed /\ spool' = [spool EXCEPT ![x] =
                 IF @ \in {"none", "gone"} THEN "pending" ELSE @]
      BY <1>6, <2>3, <3>1 DEF Record, Trusted
    <3>3. confirmed <= x
      BY <1>6, <3>1 DEF Record, OnTheWay, Polled
    <3>4. spool[x] # "gone"
      BY <1>1, <3>2, <3>3 DEF SettledOnRecord
    <3>5. \A m \in Updates : spool[m] \in {"completed", "gone"} => spool'[m] = spool[m]
      BY <1>1, <3>2, <3>4
    <3>6. \A m \in Updates : spool'[m] = "gone" => spool[m] = "gone"
      BY <1>1, <3>2
    <3> QED BY <1>1, <2>1, <3>5, <3>6 DEF SettledOnRecord, Stay, Claims
  <2> QED BY <2>2, <2>3
<1>7. CASE Dispatch \/ ReleaseNext \/ Flush \/ \E h \in Handlers : Download(h) \/ UpdateFails(h)
  <2>1. UNCHANGED <<spool, cached, allowed, confirmed>>
    BY <1>7 DEF Dispatch, ReleaseNext, Flush, Download, UpdateFails, durable, server, inflow
  <2>2. turn' = turn \/ turn' = NewTurn(batch)
    BY <1>7 DEF Dispatch, ReleaseNext, Flush, Download, UpdateFails, Hold, Handle, Accept, Collect,
            Command, QueueTurn, work
  <2> QED BY <1>2, <1>4, <2>1, <2>2 DEF Stay
<1>8. ASSUME NEW h \in Handlers, SettleUpdate(h) PROVE SettledOnRecord' /\ Stay
  <2>1. {slot[h].m} \in SUBSET Updates /\ Completes({slot[h].m})
    BY <1>8 DEF SettleUpdate, Types, IntakeTypes
  <2> QED BY <1>3, <1>4, <1>8, <2>1 DEF SettleUpdate, server, work
<1>9. CASE Begin \/ Notify \/ Answer \/ Finalize \/ Refuse \/ Raise
  <2>1. UNCHANGED <<spool, cached, allowed, confirmed>>
    BY <1>9 DEF Begin, Notify, Answer, Finalize, Refuse, Raise, HandlerFails, durable, inflow, server
  <2>2. turn' = NoTurn \/ turn'.at \in {"model", "returned", "ready"}
    BY <1>1, <1>9 DEF Begin, Notify, Answer, Finalize, Refuse, Raise, HandlerFails, At
  <2> QED BY <1>2, <1>4, <2>1, <2>2 DEF Stay
<1>10. CASE Fence
  <2>1. Completes(Claims) /\ UNCHANGED <<confirmed, allowed>> /\ Claims' = Claims
    BY <1>1, <1>10 DEF Fence, server, At, Claims
  <2> QED BY <1>1, <1>3, <2>1 DEF Stay
<1>11. CASE Stopped \/ Return
  <2>1. Completes(Claims) /\ UNCHANGED <<confirmed, allowed>>
    BY <1>11 DEF Stopped, Return, server
  <2>2. turn'.at # "answered"
    BY <1>1, <1>11 DEF Stopped, Return, Continue, At, NoTurn, NewTurn
  <2> QED BY <1>1, <1>3, <1>4, <2>1, <2>2 DEF Stay
<1>12. ASSUME NEW m \in Updates, CommandStep(m) \/ CommandFails(m)
       PROVE  SettledOnRecord' /\ Stay
  <2>1. UNCHANGED <<confirmed, allowed>>
    BY <1>12 DEF CommandStep, Clear, Reserve, Execute, Complete, CommandEnds, CommandFails, server
  <2>2. turn' = turn \/ turn' = NoTurn \/ turn' = NewTurn(queued)
    BY <1>12 DEF CommandStep, Clear, Reserve, Execute, Complete, CommandEnds, CommandFails, TaskEnds
  <2>3. \/ UNCHANGED <<spool, cached>> \/ Completes(dropped[m]) \/ Completes({m})
    BY <1>12 DEF CommandStep, Clear, Reserve, Execute, Complete, CommandEnds, CommandFails,
                 durable, inflow
  <2>4. dropped[m] \in SUBSET Updates
    BY DEF Types, WorkTypes
  <2>5. Calm
    BY <1>4, <2>2
  <2> QED BY <1>2, <1>3, <2>1, <2>3, <2>4, <2>5
<1>13. CASE RecordRecovered \/ RetireUnknown
  <2>1. Completes(checkpoint.claims) /\ UNCHANGED <<confirmed, allowed, turn>>
    BY <1>13 DEF RecordRecovered, RetireUnknown, server, work
  <2> QED BY <1>1, <1>3, <1>4, <2>1 DEF Stay
<1>14. CASE \/ Resume \/ Retire \/ Release \/ RecoveryBlocked \/ RecoveryFails \/ Released
            \/ StopIntake \/ IntakeClosed \/ Drained
  <2>1. UNCHANGED <<spool, cached, allowed>>
    BY <1>14 DEF Resume, Retire, Release, RecoveryBlocked, RecoveryFails, FailsClosed, Released,
            StopIntake, IntakeClosed, Drained, durable, inflow
  <2>2. confirmed' = confirmed \/ (confirmed' = offset /\ offset > confirmed)
    BY <1>14 DEF Resume, Retire, Release, RecoveryBlocked, RecoveryFails, FailsClosed, Released,
            StopIntake, IntakeClosed, Drained, server
  <2>3. turn' = turn \/ turn' = NewTurn(late \o batch) \/ turn' = NewTurn(late)
    BY <1>14 DEF Resume, Retire, Release, RecoveryBlocked, RecoveryFails, FailsClosed, Released,
            StopIntake, IntakeClosed, Drained, work, SendOn, QueueTurn
  <2> QED BY <1>2, <1>4, <2>1, <2>2, <2>3
<1>15. ASSUME cached' = {}, turn'.at = "none", confirmed' = confirmed, allowed' => allowed,
              \A m \in Updates : \/ spool'[m] = spool[m]
                                 \/ (spool'[m] = "gone" /\ (m < confirmed \/ ~allowed))
       PROVE  SettledOnRecord' /\ Stay
  BY <1>1, <1>15 DEF SettledOnRecord, Stay
<1>16. mode = "off" => cached = {} /\ turn = NoTurn /\ turn.at = "none"
  BY DEF Standing, GateKept, HeldIsIdle, NoTurn
<1>17. CASE Start
  <2>1. cached' = {} /\ turn' = turn /\ turn.at = "none" /\ UNCHANGED <<confirmed, allowed>>
    BY <1>16, <1>17 DEF Start, work, server
  <2>2. \A m \in Updates : spool'[m] = spool[m] \/ (spool'[m] = "gone" /\ ~allowed)
    BY <1>17 DEF Start, Replay, Discard, Types, FlagTypes
  <2> QED BY <1>15, <2>1, <2>2
<1>18. CASE Exit \/ Abort \/ Crash
  <2>1. cached' = {} /\ turn' = NoTurn /\ UNCHANGED <<confirmed, allowed, spool>>
    BY <1>18 DEF Exit, Abort, Crash, Gone, durable
  <2> QED BY <1>15, <2>1 DEF NoTurn
<1>19. CASE Revoke \/ Prune
  <2>1. mode = "off" /\ UNCHANGED <<cached, turn, confirmed>> /\ (allowed' => allowed)
    BY <1>19 DEF Revoke, Prune, inflow, work, server
  <2>2. \A m \in Updates : spool'[m] = spool[m] \/ (spool'[m] = "gone" /\ m < confirmed)
    BY <1>19 DEF Revoke, Prune, durable
  <2> QED BY <1>15, <1>16, <2>1, <2>2
<1>20. /\ Poll \/ Put \/ RecordFails \/ PollingFails \/ Record => Goal
       /\ Dispatch \/ ReleaseNext \/ Flush => Goal
       /\ \A h \in Handlers : Download(h) \/ UpdateFails(h) \/ SettleUpdate(h) => Goal
       /\ HandlerStep \/ Return \/ Raise => Goal
  BY <1>5, <1>6, <1>7, <1>8, <1>9, <1>10, <1>11 DEF HandlerStep, Goal
<1>21. /\ \A m \in Updates : CommandStep(m) \/ CommandFails(m) => Goal
       /\ RecordRecovered \/ RetireUnknown \/ Resume \/ Retire \/ Release \/ RecoveryBlocked => Goal
       /\ RecoveryFails \/ Released \/ StopIntake \/ IntakeClosed \/ Drained => Goal
       /\ Start \/ Exit \/ Abort \/ Crash \/ Revoke \/ Prune => Goal
  BY <1>12, <1>13, <1>14, <1>17, <1>18, <1>19 DEF Goal
<1>22. Goal
  BY Zenon, <1>20, <1>21 DEF Next, Progress, Trouble
<1> QED BY <1>22 DEF Goal

\* What waits or runs shrinks.
Shrinks ==
    /\ InBatch' \subseteq InBatch /\ InLate' \subseteq InLate
    /\ InQueue' \subseteq InQueue /\ Claims' \subseteq Claims
    /\ turn'.at = "working" => turn.at = "working" \/ Claims' = {}

\* What waited for a turn gets it.
Starts ==
    /\ InBatch' \subseteq InBatch /\ InLate' \subseteq InLate
    /\ InQueue' = {} /\ Claims' \subseteq InQueue

\* A batch is sent on.
Sends(S) ==
    /\ InBatch' \subseteq InBatch /\ InLate' \subseteq InLate
    /\ S \subseteq InBatch \cup InLate /\ S \cap (InBatch' \cup InLate') = {}
    /\ \/ turn' = turn /\ InQueue' = InQueue \cup S
       \/ Claims = {} /\ Claims' = S /\ InQueue' = InQueue

\* What was accepted stays known and in one place, and nothing else waits.
LEMMA ShiftKeeps ==
  ASSUME kind' = kind, seen \subseteq seen', WorkKnown, WorkApart,
         Shrinks \/ Starts \/ \E S : Sends(S)
  PROVE  WorkKnown' /\ WorkApart' /\ Waiting' \subseteq Waiting
<1>1. \A m : MessageKey(m)' = MessageKey(m)
  BY DEF MessageKey
<1>2. Work' \subseteq Work => WorkKnown'
  BY <1>1 DEF WorkKnown
<1>3. CASE Shrinks
  <2>1. Work' \subseteq Work /\ WorkApart'
    BY <1>3 DEF Shrinks, Work, WorkApart
  <2>2. Waiting' \subseteq Waiting
    BY <1>3 DEF Shrinks, Waiting
  <2> QED BY <1>2, <2>1, <2>2
<1>4. CASE Starts
  <2>1. Work' \subseteq Work /\ WorkApart'
    BY <1>4 DEF Starts, Work, WorkApart
  <2>2. Waiting' \subseteq Waiting
    BY <1>4 DEF Starts, Waiting
  <2> QED BY <1>2, <2>1, <2>2
<1>5. ASSUME NEW S, Sends(S) PROVE WorkKnown' /\ WorkApart' /\ Waiting' \subseteq Waiting
  <2>1. CASE turn' = turn /\ InQueue' = InQueue \cup S
    <3>1. Claims' = Claims
      BY <2>1 DEF Claims
    <3>2. Work' \subseteq Work /\ WorkApart'
      BY <1>5, <2>1, <3>1 DEF Sends, Work, WorkApart
    <3>3. Waiting' \subseteq Waiting
      BY <1>5, <2>1, <3>1 DEF Sends, Waiting
    <3> QED BY <1>2, <3>2, <3>3
  <2>2. CASE Claims = {} /\ Claims' = S /\ InQueue' = InQueue
    <3>1. Work' \subseteq Work /\ WorkApart'
      BY <1>5, <2>2 DEF Sends, Work, WorkApart
    <3>2. Waiting' \subseteq Waiting
      BY <1>5, <2>2 DEF Sends, Waiting
    <3> QED BY <1>2, <3>1, <3>2
  <2> QED BY <1>5, <2>1, <2>2 DEF Sends
<1> QED BY <1>3, <1>4, <1>5

\* An update is accepted: it was not before, and only a text comes to wait.
LEMMA AcceptWork ==
  ASSUME Types, kind' = kind, WorkKnown, WorkApart, NEW m \in Updates, NEW h \in Handlers,
         Accept(m, h)
  PROVE  /\ WorkKnown' /\ WorkApart' /\ seen \subseteq seen'
         /\ \/ Waiting' \subseteq Waiting
            \/ /\ Waiting' \subseteq Waiting \cup {m}
               /\ kind[m] \in Texts /\ MessageKey(m) \notin seen
<1>1. \A n : MessageKey(n)' = MessageKey(n)
  BY DEF MessageKey
<1>2. CASE MessageKey(m) \in seen /\ UNCHANGED <<seen, work>>
  <2>1. Shrinks
    BY <1>2 DEF Shrinks, work, InBatch, InLate, InQueue, Claims
  <2> QED BY <1>2, <2>1, ShiftKeeps
<1>3. CASE MessageKey(m) \notin seen /\ seen' = seen \cup {MessageKey(m)} /\ Command(m)
  <2>1. UNCHANGED <<late, turn>>
        /\ (batch' = batch \/ batch' = <<>>) /\ (queued' = queued \/ queued' = <<>>)
    BY <1>3 DEF Command
  <2>2. Shrinks
    BY <2>1, ShortSets DEF Shrinks, InBatch, InLate, InQueue, Claims
  <2> QED BY <1>3, <2>2, ShiftKeeps
<1>4. CASE MessageKey(m) \notin seen /\ seen' = seen \cup {MessageKey(m)} /\ Collect(m)
  <2>1. kind[m] \in Texts /\ m \notin Work
    BY <1>4 DEF Collect, WorkKnown
  <2>2. Work' \subseteq Work \cup {m} => WorkKnown'
    BY <1>1, <1>4 DEF WorkKnown
  <2>3. CASE late' = Append(late, m) /\ UNCHANGED <<batch, queued, turn>>
    <3>1. InLate' = InLate \cup {m} /\ InBatch' = InBatch /\ InQueue' = InQueue /\ Claims' = Claims
      BY <2>3, AppendSet DEF Types, WorkTypes, InBatch, InLate, InQueue, Claims
    <3>2. Work' \subseteq Work \cup {m} /\ WorkApart'
      BY <2>1, <3>1 DEF Work, WorkApart
    <3>3. Waiting' \subseteq Waiting \cup {m}
      BY <2>3, <3>1 DEF Waiting
    <3> QED BY <1>4, <2>1, <2>2, <3>2, <3>3
  <2>4. CASE batch' = Append(batch, m) /\ UNCHANGED <<late, queued, turn>>
    <3>1. InBatch' = InBatch \cup {m} /\ InLate' = InLate /\ InQueue' = InQueue /\ Claims' = Claims
      BY <2>4, AppendSet DEF Types, WorkTypes, InBatch, InLate, InQueue, Claims
    <3>2. Work' \subseteq Work \cup {m} /\ WorkApart'
      BY <2>1, <3>1 DEF Work, WorkApart
    <3>3. Waiting' \subseteq Waiting \cup {m}
      BY <2>4, <3>1 DEF Waiting
    <3> QED BY <1>4, <2>1, <2>2, <3>2, <3>3
  <2>5. CASE QueueTurn(batch) /\ batch' = <<m>> /\ late' = late
    <3>1. InBatch' = {m} /\ InLate' = InLate
      BY <2>5, ShortSets DEF InBatch, InLate
    <3>2. \/ turn' = turn /\ Claims' = Claims /\ InQueue' = InQueue \cup InBatch
          \/ Claims = {} /\ Claims' = InBatch /\ InQueue' = InQueue
      BY <2>5, QueueEffect, TurnViews DEF Types, WorkTypes, InQueue, InBatch
    <3>3. Work' \subseteq Work \cup {m} /\ WorkApart'
      BY <2>1, <3>1, <3>2 DEF Work, WorkApart
    <3>4. Waiting' \subseteq Waiting \cup {m}
      BY <3>1, <3>2 DEF Waiting
    <3> QED BY <1>4, <2>1, <2>2, <3>3, <3>4
  <2> QED BY <1>4, <2>3, <2>4, <2>5 DEF Collect
<1> QED BY <1>2, <1>3, <1>4 DEF Accept

\* The parts about what was accepted and what may be.
Accepting == WorkKnown /\ WorkApart /\ WaitingUnanswered /\ PipeUnanswered

\* What a step leaves answered without a checkpoint is not waiting, and will
\* not be accepted again.
LapsesSafely ==
    \A m \in Lapse :
        /\ m \notin Waiting'
        /\ MessageKey(m) \in seen' \/ (m \in cached' /\ Downloading' = {})

\* Harmless is not bare, or seen.
LEMMA HarmlessBare ==
  ASSUME answers \in [Updates -> 0 .. 2], NEW m \in Updates
  PROVE  Harmless(m) <=> ~Bare(m) \/ MessageKey(m) \in seen
BY DEF Harmless, Bare

\* The same behind a step.
LEMMA HarmlessThen ==
  ASSUME answers' \in [Updates -> 0 .. 2], kind' = kind, NEW m \in Updates
  PROVE  Harmless(m)' <=> ~Bare(m)' \/ MessageKey(m) \in seen'
BY DEF Harmless, Bare, MessageKey

\* Harmless updates stay so.
LEMMA HarmlessStays ==
  ASSUME Types, answers' \in [Updates -> 0 .. 2], kind' = kind, seen \subseteq seen',
         LapsesSafely, NEW m \in Updates, Harmless(m)
  PROVE  Harmless(m)' \/ (m \in cached' /\ Downloading' = {})
<1>1. answers \in [Updates -> 0 .. 2]
  BY DEF Types, FlagTypes
<1>2. ~Bare(m) \/ MessageKey(m) \in seen
  BY <1>1, HarmlessBare
<1>3. CASE MessageKey(m) \in seen
  BY <1>3, HarmlessThen
<1>4. CASE ~Bare(m) /\ Bare(m)'
  <2>1. m \in Lapse
    BY <1>4 DEF Lapse
  <2> QED BY <2>1, HarmlessThen DEF LapsesSafely
<1>5. CASE ~Bare(m)'
  BY <1>5, HarmlessThen
<1> QED BY <1>2, <1>3, <1>4, <1>5

\* A step that accepts nothing.
LEMMA RestKeeps ==
  ASSUME Types, answers' \in [Updates -> 0 .. 2], kind' = kind, Polled, Accepting, LapsesSafely,
         seen' = seen, cached \subseteq cached',
         Shrinks \/ Starts \/ \E S : Sends(S),
         ToSet(queue') \cup ToSet(startup') \subseteq ToSet(queue) \cup ToSet(startup),
         \A x \in Downloading' : x \in Updates /\ Harmless(x), putting' \in {putting, Nobody}
  PROVE  Accepting'
<1> USE DEF Accepting
<1>1. WorkKnown' /\ WorkApart' /\ Waiting' \subseteq Waiting
  BY ShiftKeeps
<1>2. ToSet(queue) \cup ToSet(startup) \subseteq Updates
  BY SeqSet DEF Types, IntakeTypes
<1>3. putting # Nobody => putting.m \in Updates
  BY HeadAndTail DEF Polled, Types, ServerTypes
<1>4. WaitingUnanswered'
  <2>1. Waiting \subseteq Updates
    BY SeqSet DEF Types, WorkTypes, Waiting, InBatch, InLate, InQueue, Claims
  <2>2. \A m \in Waiting : ~Bare(m)
    BY <2>1 DEF WaitingUnanswered, Bare, Types, FlagTypes
  <2>3. \A m \in Waiting' : ~Bare(m)'
    BY <1>1, <2>1, <2>2 DEF LapsesSafely, Lapse
  <2> QED BY <1>1, <2>1, <2>3 DEF WaitingUnanswered, Bare
<1>5. \A m \in Updates : Harmless(m) => Harmless(m)' \/ (m \in cached' /\ Downloading' = {})
  BY HarmlessStays
<1>6. ASSUME NEW x \in ToSet(queue') \cup ToSet(startup'), kind[x] \in Texts
      PROVE  Harmless(x)' \/ x \in cached'
  BY <1>2, <1>5, <1>6 DEF PipeUnanswered
<1>7. ASSUME NEW x \in Downloading' PROVE Harmless(x)'
  BY <1>5, <1>7
<1>8. ASSUME putting' # Nobody, putting'.said # "completed"
      PROVE  Harmless(putting.m)' \/ putting'.m \in cached'
  <2>1. putting' = putting
    BY <1>8
  <2>2. PICK m \in Updates : m = putting.m /\ m = putting'.m
    BY <1>3, <1>8, <2>1
  <2>3. Harmless(m) \/ m \in cached
    BY <1>8, <2>1, <2>2 DEF PipeUnanswered
  <2>4. Harmless(m)' \/ m \in cached'
    BY <1>5, <2>3
  <2> QED BY <2>2, <2>4
<1>9. PipeUnanswered'
  BY <1>6, <1>7, <1>8 DEF PipeUnanswered
<1> QED BY <1>1, <1>4, <1>9

\* Where answers lapse, they do so safely.
LEMMA LapsesAreSafe ==
  ASSUME Types, Standing, Accepting,
         \/ Lapse = {}
         \/ (Finalize /\ Lapse \subseteq Claims)
         \/ (Retire /\ Lapse \subseteq cached)
  PROVE  LapsesSafely
<1>1. CASE Lapse = {}
  BY <1>1 DEF LapsesSafely
<1>2. CASE Finalize /\ Lapse \subseteq Claims
  <2>1. Claims' = Claims /\ turn'.at = "returned" /\ UNCHANGED <<batch, late, queued, seen>>
    BY <1>2 DEF Finalize, At, Claims, inflow, Types, WorkTypes
  <2>2. Waiting' = InBatch \cup InLate \cup InQueue
    BY <2>1 DEF Waiting, InBatch, InLate, InQueue
  <2>3. \A m \in Claims : m \notin Waiting'
    BY <2>2 DEF Accepting, WorkApart
  <2>4. \A m \in Claims : MessageKey(m) \in seen'
    BY <2>1 DEF Accepting, WorkKnown, Work
  <2> QED BY <1>2, <2>3, <2>4 DEF LapsesSafely
<1>3. CASE Retire /\ Lapse \subseteq cached
  <2>1. /\ turn' = NoTurn /\ batch' = <<>> /\ late' = <<>> /\ queued' = <<>> /\ Downloading' = {}
        /\ cached' = cached
    BY <1>3 DEF Retire, Standing, HeldIsIdle, work, inflow, Downloading
  <2>2. Waiting' = {}
    BY <2>1, ShortSets DEF Waiting, InBatch, InLate, InQueue, NoTurn
  <2> QED BY <1>3, <2>1, <2>2 DEF LapsesSafely
<1> QED BY <1>1, <1>2, <1>3

\* The steps that accept nothing, and neither fill the pipe nor empty the
\* process.
Resting ==
    \/ Poll \/ RecordFails \/ PollingFails \/ Flush
    \/ \E h \in Handlers : SettleUpdate(h) \/ UpdateFails(h)
    \/ HandlerStep \/ Return \/ Raise
    \/ \E m \in Updates : CommandStep(m) \/ CommandFails(m)
    \/ Resume \/ RecordRecovered \/ Retire \/ RetireUnknown \/ Release
    \/ RecoveryBlocked \/ RecoveryFails \/ Released \/ StopIntake \/ IntakeClosed
    \/ Drained \/ Revoke \/ Prune

\* What waits for a turn or has one is not moved.
LEMMA Unmoved ==
  ASSUME UNCHANGED <<batch, late, queued, turn>> PROVE Shrinks
BY DEF Shrinks, InBatch, InLate, InQueue, Claims

\* How they move what was accepted.
LEMMA WorkShifts ==
  ASSUME Types, WorkApart, Resting
  PROVE  Shrinks \/ Starts \/ \E S : Sends(S)
<1>1. /\ queued \in Seq(Updates) /\ late \in Seq(Updates) /\ batch \in Seq(Updates)
      /\ turn \in [claims : Seq(Updates), at : TurnPhases]
  BY DEF Types, WorkTypes
<1>2. CASE \/ Poll \/ RecordFails \/ PollingFails
           \/ \E h \in Handlers : SettleUpdate(h) \/ UpdateFails(h)
  BY <1>2, Unmoved DEF Poll, RecordFails, PollingFails, SettleUpdate, UpdateFails, work
<1>3. CASE \/ Resume \/ RecordRecovered \/ Retire \/ RetireUnknown \/ Release \/ RecoveryBlocked
           \/ RecoveryFails \/ Released \/ StopIntake \/ Revoke \/ Prune
  BY <1>3, Unmoved DEF Resume, RecordRecovered, Retire, RetireUnknown, Release, RecoveryBlocked,
     RecoveryFails, FailsClosed, Released, StopIntake, Revoke, Prune, work
<1>4. ASSUME NEW s \in Seq(Updates), QueueTurn(s) \/ SendOn(s)
      PROVE  \/ turn' = turn /\ InQueue' = InQueue \cup ToSet(s)
             \/ Claims = {} /\ Claims' = ToSet(s) /\ InQueue' = InQueue
  BY <1>1, <1>4, QueueEffect, TurnViews
<1>5. CASE Flush
  <2>1. InBatch' = {} /\ InLate' = InLate
    BY <1>5, ShortSets DEF Flush, InBatch, InLate
  <2>2. \/ turn' = turn /\ InQueue' = InQueue \cup InBatch
        \/ Claims = {} /\ Claims' = InBatch /\ InQueue' = InQueue
    BY <1>1, <1>4, <1>5 DEF Flush, InBatch
  <2>3. Sends(InBatch)
    BY <2>1, <2>2 DEF Sends, WorkApart
  <2> QED BY <2>3
<1>6. CASE IntakeClosed
  <2>1. InBatch' = {} /\ InLate' = {}
    BY <1>6, ShortSets DEF IntakeClosed, InBatch, InLate
  <2>2. late \o batch \in Seq(Updates) /\ ToSet(late \o batch) = InLate \cup InBatch
    BY <1>1, ConcatSet DEF InLate, InBatch
  <2>3. \/ turn' = turn /\ InQueue' = InQueue \cup (InLate \cup InBatch)
        \/ Claims = {} /\ Claims' = InLate \cup InBatch /\ InQueue' = InQueue
    BY <1>4, <1>6, <2>2 DEF IntakeClosed
  <2>4. Sends(InLate \cup InBatch)
    BY <2>1, <2>3 DEF Sends
  <2> QED BY <2>4
<1>7. CASE Drained
  <2>1. InLate' = {} /\ InBatch' = InBatch
    BY <1>7, ShortSets DEF Drained, InBatch, InLate
  <2>2. \/ turn' = turn /\ InQueue' = InQueue \cup InLate
        \/ Claims = {} /\ Claims' = InLate /\ InQueue' = InQueue
    BY <1>1, <1>4, <1>7 DEF Drained, InLate
  <2>3. Sends(InLate)
    BY <2>1, <2>2 DEF Sends, WorkApart
  <2> QED BY <2>3
<1>8. ASSUME UNCHANGED <<batch, late>>,
             \/ queued' = queued /\ turn' = NoTurn
             \/ queued' = <<>> /\ turn' = NoTurn
             \/ queued' = <<>> /\ turn' = NewTurn(queued)
             \/ UNCHANGED <<queued, turn>>
      PROVE  Shrinks \/ Starts
  <2>1. InBatch' = InBatch /\ InLate' = InLate
    BY <1>8 DEF InBatch, InLate
  <2>2. CASE turn' = NoTurn /\ (queued' = queued \/ queued' = <<>>)
    <3>1. Claims' = {} /\ turn'.at = "none" /\ InQueue' \subseteq InQueue
      BY <2>2, TurnViews, ShortSets DEF InQueue
    <3> QED BY <2>1, <3>1 DEF Shrinks
  <2>3. CASE turn' = NewTurn(queued) /\ queued' = <<>>
    <3>1. Claims' = InQueue /\ InQueue' = {}
      BY <2>3, TurnViews, ShortSets DEF InQueue
    <3> QED BY <2>1, <3>1 DEF Starts
  <2>4. CASE UNCHANGED <<queued, turn>>
    BY <1>8, <2>4, Unmoved
  <2> QED BY <1>8, <2>2, <2>3, <2>4
<1>9. CASE Return \/ Raise \/ Refuse
  BY <1>8, <1>9 DEF Return, Raise, Refuse, HandlerFails, Continue
<1>10. CASE Begin \/ Notify \/ Answer \/ Stopped \/ Fence \/ Finalize
  <2>1. UNCHANGED <<batch, late, queued>>
    BY <1>10 DEF Begin, Notify, Answer, Stopped, Fence, Finalize
  <2>2. Claims' = Claims /\ turn'.at # "working"
    BY <1>1, <1>10 DEF Begin, Notify, Answer, Stopped, Fence, Finalize, At, Claims
  <2>3. Shrinks
    BY <2>1, <2>2 DEF Shrinks, InBatch, InLate, InQueue
  <2> QED BY <2>3
<1>11. ASSUME NEW m \in Updates, CommandStep(m) \/ CommandFails(m) PROVE Shrinks \/ Starts
  <2>1. UNCHANGED <<batch, late>>
    BY <1>11 DEF CommandStep, Clear, Reserve, Execute, Complete, CommandEnds, CommandFails
  <2>2. \/ queued' = <<>> /\ turn' = NoTurn
        \/ queued' = <<>> /\ turn' = NewTurn(queued)
        \/ UNCHANGED <<queued, turn>>
    BY <1>11 DEF CommandStep, Clear, Reserve, Execute, Complete, CommandEnds, CommandFails, TaskEnds
  <2> QED BY <1>8, <2>1, <2>2
<1> QED BY Zenon, <1>2, <1>3, <1>5, <1>6, <1>7, <1>9, <1>10, <1>11 DEF Resting, HandlerStep

\* What else they leave alone.
LEMMA RestingAside ==
  ASSUME Types, Resting
  PROVE  /\ seen' = seen /\ startup' = startup /\ (queue' = queue \/ queue' = <<>>)
         /\ cached \subseteq cached' /\ Downloading' \subseteq Downloading
         /\ putting' \in {putting, Nobody}
<1>1. CASE Poll \/ RecordFails \/ PollingFails \/ Flush \/ StopIntake
  <2>1. UNCHANGED <<seen, startup, queue, cached, slot>> /\ putting' \in {putting, Nobody}
    BY <1>1 DEF Poll, RecordFails, PollingFails, Flush, StopIntake, inflow, server
  <2> QED BY <2>1 DEF Downloading
<1>2. ASSUME NEW h \in Handlers, SettleUpdate(h) \/ UpdateFails(h)
      PROVE  /\ UNCHANGED <<seen, startup, queue, putting>> /\ cached \subseteq cached'
             /\ Downloading' \subseteq Downloading
  <2>1. /\ UNCHANGED <<seen, startup, queue, putting>> /\ slot' = [slot EXCEPT ![h] = Idle]
        /\ cached \subseteq cached'
    BY <1>2 DEF SettleUpdate, UpdateFails, Completes, server
  <2> QED BY <2>1, Records, SlotChange DEF Types, IntakeTypes
<1>3. CASE HandlerStep \/ Return \/ Raise
  <2>1. UNCHANGED <<seen, startup, queue, slot, putting>>
    BY <1>3 DEF HandlerStep, Return, Raise, Refuse, HandlerFails, Begin, Notify, Answer, Stopped,
                Fence, Finalize, inflow, server
  <2>2. cached \subseteq cached'
    BY <1>3 DEF HandlerStep, Return, Raise, Refuse, HandlerFails, Begin, Notify, Answer, Stopped,
                Fence, Finalize, inflow, Completes
  <2> QED BY <2>1, <2>2 DEF Downloading
<1>4. ASSUME NEW m \in Updates, CommandStep(m) \/ CommandFails(m)
      PROVE  UNCHANGED <<seen, startup, queue, slot, putting>> /\ cached \subseteq cached'
  BY <1>4 DEF CommandStep, Clear, Reserve, Execute, Complete, CommandEnds, CommandFails,
              inflow, server, Completes
<1>5. CASE \/ Resume \/ RecordRecovered \/ Retire \/ RetireUnknown \/ Release
           \/ RecoveryBlocked \/ RecoveryFails \/ Released \/ IntakeClosed \/ Revoke \/ Prune
  <2>1. UNCHANGED <<seen, startup, queue, slot, putting>> /\ cached \subseteq cached'
    BY <1>5 DEF Resume, RecordRecovered, Retire, RetireUnknown, Release, RecoveryBlocked,
       RecoveryFails, FailsClosed, Released, IntakeClosed, Revoke, Prune, inflow, server, Completes
  <2> QED BY <2>1 DEF Downloading
<1>6. CASE Drained
  <2>1. UNCHANGED <<seen, startup, cached, putting>> /\ queue' = <<>>
        /\ slot' = [h \in Handlers |-> Idle]
    BY <1>6 DEF Drained, server
  <2> QED BY <2>1, IdleSlots
<1>7. (\E m \in Updates : CommandStep(m) \/ CommandFails(m)) => Downloading' = Downloading
  BY <1>4 DEF Downloading
<1> QED BY <1>1, <1>2, <1>3, <1>4, <1>5, <1>6, <1>7 DEF Resting

\* So they keep it.
LEMMA RestingKeeps ==
  ASSUME Types, Types', Polled, Grown, Accepting, LapsesSafely, Resting
  PROVE  Accepting'
<1>1. answers' \in [Updates -> 0 .. 2] /\ kind' = kind
  BY DEF Types, FlagTypes, Grown
<1>2. Shrinks \/ Starts \/ \E S : Sends(S)
  BY WorkShifts DEF Accepting
<1>3. /\ seen' = seen /\ cached \subseteq cached' /\ putting' \in {putting, Nobody}
      /\ Downloading' \subseteq Downloading
  BY RestingAside
<1>4. ToSet(queue') \cup ToSet(startup') \subseteq ToSet(queue) \cup ToSet(startup)
  BY RestingAside, ShortSets
<1>5. \A x \in Downloading' : x \in Updates /\ Harmless(x)
  BY <1>3 DEF Accepting, PipeUnanswered, Types, IntakeTypes, Downloading
<1> QED BY <1>1, <1>2, <1>3, <1>4, <1>5, RestKeeps

\* A response is recorded and put into the queue.
LEMMA PuttingKeeps ==
  ASSUME Types, Types', OnTheWay, Standing, Grown, AnswerRemembered, SettledOnRecord, Accepting,
         Record \/ Put
  PROVE  Accepting'
<1>1. /\ UNCHANGED <<batch, late, queued, turn, seen, cached, slot, startup, checkpoint>>
      /\ UNCHANGED <<answers, kind>>
  BY DEF Record, Put, durable, ghosts, work
<1>2. /\ \A x : MessageKey(x)' = MessageKey(x) /\ (Harmless(x)' <=> Harmless(x))
      /\ Downloading' = Downloading
  BY <1>1 DEF MessageKey, Harmless, Downloading
<1>3. WorkKnown' /\ WorkApart' /\ WaitingUnanswered'
  BY <1>1, <1>2 DEF Accepting, WorkKnown, WorkApart, WaitingUnanswered, Work, Waiting, InBatch,
                    InLate, InQueue, Claims
<1>4. ASSUME NEW m \in Updates, queue' = queue \/ queue' = Append(queue, m),
             queue' # queue /\ kind[m] \in Texts => Harmless(m) \/ m \in cached,
             \/ putting' \in {putting, Nobody}
             \/ putting'.m = m /\ (putting'.said # "completed" => Harmless(m) \/ m \in cached)
      PROVE  Accepting'
  <2>1. ToSet(queue') = ToSet(queue) \/ (queue' # queue /\ ToSet(queue') = ToSet(queue) \cup {m})
    <3>1. queue \in Seq(Updates)
      BY DEF Types, IntakeTypes
    <3>2. ToSet(Append(queue, m)) = ToSet(queue) \cup {m}
      BY <3>1, AppendSet
    <3> QED BY <1>4, <3>2, Zenon
  <2>2. \A x \in ToSet(queue') \cup ToSet(startup') :
          kind'[x] \in Texts => Harmless(x)' \/ x \in cached'
    BY <1>1, <1>2, <1>4, <2>1 DEF Accepting, PipeUnanswered
  <2>3. \A x \in Downloading' : Harmless(x)'
    BY <1>2 DEF Accepting, PipeUnanswered
  <2>4. ASSUME putting' # Nobody, putting'.said # "completed"
        PROVE  Harmless(putting.m)' \/ putting'.m \in cached'
    <3>1. CASE putting' = putting
      <4>1. Harmless(putting.m) \/ putting.m \in cached
        BY <2>4, <3>1 DEF Accepting, PipeUnanswered
      <4>2. PICK y : y = putting.m /\ y = putting'.m
        BY <3>1
      <4> QED BY <1>1, <1>2, <4>1, <4>2
    <3>2. CASE putting'.m = m /\ (Harmless(m) \/ m \in cached)
      BY <1>1, <1>2, <3>2
    <3> QED BY <1>4, <2>4, <3>1, <3>2
  <2> QED BY <1>3, <2>2, <2>3, <2>4 DEF Accepting, PipeUnanswered
<1>5. CASE Record
  <2>1. PICK m \in Updates : m = Head(fetched)
    BY <1>5, HeadAndTail DEF Record, Types, ServerTypes
  <2>2. CASE kind[m] = "other" /\ queue' = Append(queue, m) /\ putting' = putting
    BY <1>4, <2>2 DEF Texts
  <2>3. CASE queue' = queue /\ putting' = putting
    BY <1>4, <2>3
  <2>4. CASE /\ queue' = queue /\ putting' = [m |-> m, said |-> spool'[m]]
             /\ allowed
             /\ spool' = [spool EXCEPT ![m] = IF @ \in {"none", "gone"} THEN "pending" ELSE @]
    <3>1. confirmed <= m
      BY <1>5, <2>1 DEF Record, OnTheWay, Polled
    <3>2. spool[m] # "gone"
      <4>1. ~(m < confirmed)
        BY <3>1, Bounds DEF Types, ServerTypes
      <4> QED BY <2>4, <4>1 DEF SettledOnRecord
    <3>3. spool'[m] # "completed" => Harmless(m)
      <4>1. spool'[m] # "completed" => spool[m] \notin {"completed", "gone"}
        BY <2>4, <3>2 DEF Types, StoreTypes
      <4> QED BY <4>1 DEF AnswerRemembered, Harmless, Types, FlagTypes
    <3>4. putting'.m = m /\ putting'.said = spool'[m]
      BY <2>4
    <3> QED BY <1>4, <2>4, <3>3, <3>4
  <2> QED BY <1>5, <2>1, <2>2, <2>3, <2>4 DEF Record, Wanted, Trusted
<1>6. CASE Put
  <2>1. putting # Nobody /\ putting' = Nobody
    BY <1>6 DEF Put
  <2>2. PICK m \in Updates : m = putting.m
    BY <2>1, HeadAndTail DEF OnTheWay, Polled, Types, ServerTypes
  <2>3. \/ queue' = queue
        \/ queue' = Append(queue, m) /\ (Harmless(m) \/ m \in cached)
    BY <1>6, <2>1, <2>2 DEF Put, Accepting, PipeUnanswered
  <2> QED BY <1>4, <2>1, <2>3
<1> QED BY <1>5, <1>6

\* An update is accepted: unless it is harmless it was seen before.
LEMMA AcceptingKept ==
  ASSUME Types, Types', Polled, Grown, Accepting,
         UNCHANGED <<answers, checkpoint, cached, putting>>,
         ToSet(queue') \cup ToSet(startup') \subseteq ToSet(queue) \cup ToSet(startup),
         Downloading' \subseteq Downloading,
         NEW m \in Updates, NEW h \in Handlers, Accept(m, h), Harmless(m) \/ kind[m] \notin Texts
  PROVE  Accepting'
<1> USE DEF Accepting
<1>1. kind' = kind /\ answers \in [Updates -> 0 .. 2]
  BY DEF Grown, Types, FlagTypes
<1>2. /\ WorkKnown' /\ WorkApart' /\ seen \subseteq seen'
      /\ \/ Waiting' \subseteq Waiting
         \/ /\ Waiting' \subseteq Waiting \cup {m}
            /\ kind[m] \in Texts /\ MessageKey(m) \notin seen
  BY <1>1, AcceptWork
<1>3. Waiting \subseteq Updates
  BY SeqSet DEF Types, WorkTypes, Waiting, InBatch, InLate, InQueue, Claims
<1>4. WaitingUnanswered'
  <2>1. kind[m] \in Texts /\ MessageKey(m) \notin seen => answers[m] = 0 \/ m \in checkpoint.claims
    BY DEF Harmless
  <2> QED BY <1>2, <1>3, <2>1 DEF WaitingUnanswered
<1>5. \A x \in Updates : Harmless(x) => Harmless(x)'
  BY <1>1, <1>2 DEF Harmless, MessageKey
<1>6. ToSet(queue) \cup ToSet(startup) \subseteq Updates /\ Downloading \subseteq Updates
  BY SeqSet DEF Types, IntakeTypes, Downloading
<1>7. PipeUnanswered'
  <2>1. \A x \in ToSet(queue') \cup ToSet(startup') :
          kind'[x] \in Texts => Harmless(x)' \/ x \in cached'
    BY <1>1, <1>5, <1>6 DEF PipeUnanswered
  <2>2. \A x \in Downloading' : Harmless(x)'
    BY <1>5, <1>6 DEF PipeUnanswered
  <2>3. ASSUME putting' # Nobody, putting'.said # "completed"
        PROVE  Harmless(putting.m)' \/ putting'.m \in cached'
    <3>1. PICK x \in Updates : x = putting.m /\ x = putting'.m
      BY <2>3, HeadAndTail DEF Polled, Types, ServerTypes
    <3>2. Harmless(x) \/ x \in cached
      BY <2>3, <3>1 DEF PipeUnanswered
    <3> QED BY <1>5, <3>1, <3>2
  <2> QED BY <2>1, <2>2, <2>3 DEF PipeUnanswered
<1> QED BY <1>2, <1>4, <1>7

\* An update is handled.
LEMMA HandlingKept ==
  ASSUME Types, Types', Polled, Grown, Accepting,
         UNCHANGED <<answers, checkpoint, cached, putting>>,
         ToSet(queue') \cup ToSet(startup') \subseteq ToSet(queue) \cup ToSet(startup),
         NEW m \in Updates, NEW h \in Handlers, Handle(m, h),
         kind[m] \in Texts => Harmless(m) \/ m \in cached
  PROVE  Accepting'
<1>1. /\ kind' = kind /\ answers' \in [Updates -> 0 .. 2]
      /\ slot \in [Handlers -> SlotRecord]
  BY DEF Grown, Types, FlagTypes, IntakeTypes
<1>2. LapsesSafely
  BY DEF LapsesSafely, Lapse, Bare
<1>3. ASSUME NEW x \in Downloading PROVE x \in Updates /\ Harmless(x)
  BY DEF Accepting, PipeUnanswered, Types, IntakeTypes, Downloading
<1>4. CASE /\ UNCHANGED <<seen, work>>
           /\ \/ slot' = slot \/ slot' = [slot EXCEPT ![h] = Idle]
              \/ slot' = [slot EXCEPT ![h] = [m |-> m, at |-> "settling"]]
              \/ /\ slot' = [slot EXCEPT ![h] = [m |-> m, at |-> "downloading"]]
                 /\ Harmless(m)
  <2>1. Downloading' \subseteq Downloading
        \/ (Downloading' \subseteq Downloading \cup {m} /\ Harmless(m))
    <3>1. CASE slot' = slot
      BY <3>1 DEF Downloading
    <3>2. CASE slot' = [slot EXCEPT ![h] = Idle]
      BY <1>1, <3>2, Records, SlotChange
    <3>3. CASE slot' = [slot EXCEPT ![h] = [m |-> m, at |-> "settling"]]
      <4>1. PICK r \in SlotRecord : r = [m |-> m, at |-> "settling"] /\ r.at = "settling"
        BY Records
      <4>2. slot' = [slot EXCEPT ![h] = r]
        BY <3>3, <4>1
      <4> QED BY <1>1, <4>1, <4>2, SlotChange
    <3>4. CASE slot' = [slot EXCEPT ![h] = [m |-> m, at |-> "downloading"]] /\ Harmless(m)
      <4>1. PICK r \in SlotRecord : r = [m |-> m, at |-> "downloading"] /\ r.m = m
        BY Records
      <4>2. slot' = [slot EXCEPT ![h] = r]
        BY <3>4, <4>1
      <4> QED BY <1>1, <3>4, <4>1, <4>2, SlotChange
    <3> QED BY <1>4, <3>1, <3>2, <3>3, <3>4
  <2>2. \A x \in Downloading' : x \in Updates /\ Harmless(x)
    BY <1>3, <2>1
  <2>3. Shrinks
    BY <1>4, Unmoved DEF work
  <2> QED BY <1>1, <1>2, <1>4, <2>2, <2>3, RestKeeps
<1>5. CASE ~Completed(m) /\ Authorized(m) /\ kind[m] \notin {"media", "other"} /\ Accept(m, h)
  <2>1. Harmless(m) \/ kind[m] \notin Texts
    BY <1>5 DEF Completed
  <2>2. Downloading' \subseteq Downloading
    <3>1. CASE slot' = [slot EXCEPT ![h] = Idle]
      BY <1>1, <3>1, Records, SlotChange
    <3>2. CASE slot' = [slot EXCEPT ![h] = [m |-> m, at |-> "settling"]]
      <4>1. PICK r \in SlotRecord : r = [m |-> m, at |-> "settling"] /\ r.at = "settling"
        BY Records
      <4>2. slot' = [slot EXCEPT ![h] = r]
        BY <3>2, <4>1
      <4> QED BY <1>1, <4>1, <4>2, SlotChange
    <3> QED BY <1>5, <3>1, <3>2 DEF Accept
  <2> QED BY <1>5, <2>1, <2>2, AcceptingKept
<1>6. CASE ~Completed(m) /\ kind[m] = "media" /\ UNCHANGED <<seen, work>>
           /\ slot' = [slot EXCEPT ![h] = [m |-> m, at |-> "downloading"]]
  <2>1. Harmless(m)
    BY <1>6 DEF Completed, Texts
  <2> QED BY <1>4, <1>6, <2>1
<1>7. CASE UNCHANGED <<seen, work>>
           /\ \/ slot' = slot \/ slot' = [slot EXCEPT ![h] = Idle]
              \/ slot' = [slot EXCEPT ![h] = [m |-> m, at |-> "settling"]]
  BY <1>4, <1>7
<1> QED BY <1>5, <1>6, <1>7 DEF Handle

\* What the dispatcher and the release do.
LEMMA HandlersKeep ==
  ASSUME Types, Types', OnTheWay, Standing, Grown, Accepting,
         Dispatch \/ ReleaseNext \/ \E h \in Handlers : Download(h)
  PROVE  Accepting'
<1>1. /\ UNCHANGED <<answers, checkpoint, cached, putting>> /\ Polled
      /\ "dispatcher" \in Handlers /\ "release" \in Handlers
  BY DEF Dispatch, ReleaseNext, Download, server, durable, ghosts, OnTheWay, Handlers
<1>2. queue \in Seq(Updates) /\ startup \in Seq(Updates)
  BY DEF Types, IntakeTypes
<1>3. CASE Dispatch
  <2>1. queue # <<>> /\ queue' = Tail(queue)
    BY <1>3 DEF Dispatch
  <2>2. PICK m \in Updates : m = Head(queue)
    BY <1>2, <2>1, HeadAndTail
  <2>3. ToSet(queue) = {m} \cup ToSet(queue')
    BY <1>2, <2>1, <2>2, HeadAndTail
  <2>4. kind[m] \in Texts => Harmless(m) \/ m \in cached
    BY <2>3 DEF Accepting, PipeUnanswered
  <2>5. CASE Hold(m)
    <3>1. UNCHANGED <<slot, seen, work>> /\ (startup' = startup \/ startup' = Append(startup, m))
      BY <2>5 DEF Hold
    <3>2. ToSet(startup') \subseteq ToSet(startup) \cup {m}
      <4>1. ToSet(Append(startup, m)) = ToSet(startup) \cup {m}
        BY <1>2, AppendSet
      <4> QED BY <3>1, <4>1, Zenon
    <3>3. LapsesSafely
      BY <1>1 DEF LapsesSafely, Lapse, Bare
    <3>4. \A x \in Downloading' : x \in Updates /\ Harmless(x)
      <4>1. Downloading' = Downloading
        BY <3>1 DEF Downloading
      <4> QED BY <4>1 DEF Accepting, PipeUnanswered, Types, IntakeTypes, Downloading
    <3>5. Shrinks
      BY <3>1, Unmoved DEF work
    <3>6. answers' \in [Updates -> 0 .. 2] /\ kind' = kind
      BY DEF Types, FlagTypes, Grown
    <3> QED BY <1>1, <2>3, <3>1, <3>2, <3>3, <3>4, <3>5, <3>6, RestKeeps
  <2>6. CASE Handle(m, "dispatcher") /\ startup' = startup
    <3>1. ToSet(queue') \cup ToSet(startup') \subseteq ToSet(queue) \cup ToSet(startup)
      BY <2>3, <2>6
    <3> QED BY <1>1, <2>4, <2>6, <3>1, HandlingKept
  <2> QED BY <1>3, <2>2, <2>5, <2>6 DEF Dispatch
<1>4. CASE ReleaseNext
  <2>1. startup # <<>> /\ startup' = Tail(startup) /\ queue' = queue
    BY <1>4 DEF ReleaseNext, Busy
  <2>2. PICK m \in Updates : m = Head(startup)
    BY <1>2, <2>1, HeadAndTail
  <2>3. ToSet(startup) = {m} \cup ToSet(startup')
    BY <1>2, <2>1, <2>2, HeadAndTail
  <2>4. kind[m] \in Texts => Harmless(m) \/ m \in cached
    BY <2>3 DEF Accepting, PipeUnanswered
  <2>5. ToSet(queue') \cup ToSet(startup') \subseteq ToSet(queue) \cup ToSet(startup)
    BY <2>1, <2>3
  <2>6. Handle(m, "release")
    BY <1>4, <2>2 DEF ReleaseNext
  <2> QED BY <1>1, <2>4, <2>5, <2>6, HandlingKept
<1>5. ASSUME NEW h \in Handlers, Download(h) PROVE Accepting'
  <2>1. UNCHANGED <<queue, startup>> /\ slot[h].at = "downloading"
    BY <1>5 DEF Download
  <2>2. PICK m \in Updates : m = slot[h].m /\ m \in Downloading
    BY <2>1 DEF Types, IntakeTypes, Downloading
  <2>3. Harmless(m) /\ Accept(m, h)
    BY <1>5, <2>2 DEF Accepting, PipeUnanswered, Download
  <2>4. Downloading' \subseteq Downloading
    <3>1. slot \in [Handlers -> SlotRecord]
      BY DEF Types, IntakeTypes
    <3>2. CASE slot' = [slot EXCEPT ![h] = Idle]
      BY <3>1, <3>2, Records, SlotChange
    <3>3. CASE slot' = [slot EXCEPT ![h] = [m |-> m, at |-> "settling"]]
      <4>1. PICK r \in SlotRecord : r = [m |-> m, at |-> "settling"] /\ r.at = "settling"
        BY Records
      <4>2. slot' = [slot EXCEPT ![h] = r]
        BY <3>3, <4>1
      <4> QED BY <3>1, <4>1, <4>2, SlotChange
    <3> QED BY <2>3, <3>2, <3>3 DEF Accept
  <2>5. ToSet(queue') \cup ToSet(startup') \subseteq ToSet(queue) \cup ToSet(startup)
    BY <2>1
  <2> QED BY <1>1, <2>3, <2>4, <2>5, AcceptingKept
<1> QED BY <1>3, <1>4, <1>5

\* Nothing waits and nothing is in the pipe.
LEMMA NothingAccepted ==
  /\ batch = <<>> /\ late = <<>> /\ queued = <<>> /\ turn = NoTurn
       => WorkKnown /\ WorkApart /\ WaitingUnanswered
  /\ batch' = <<>> /\ late' = <<>> /\ queued' = <<>> /\ turn' = NoTurn
       => WorkKnown' /\ WorkApart' /\ WaitingUnanswered'
<1>1. ASSUME batch = <<>>, late = <<>>, queued = <<>>, turn = NoTurn
      PROVE  WorkKnown /\ WorkApart /\ WaitingUnanswered
  <2>1. InBatch = {} /\ InLate = {} /\ InQueue = {} /\ Claims = {}
    BY <1>1, ShortSets DEF InBatch, InLate, InQueue, Claims, NoTurn
  <2> QED BY <2>1 DEF WorkKnown, WorkApart, WaitingUnanswered, Work, Waiting
<1>2. ASSUME batch' = <<>>, late' = <<>>, queued' = <<>>, turn' = NoTurn
      PROVE  WorkKnown' /\ WorkApart' /\ WaitingUnanswered'
  <2>1. InBatch' = {} /\ InLate' = {} /\ InQueue' = {} /\ Claims' = {}
    BY <1>2, ShortSets DEF InBatch, InLate, InQueue, Claims, NoTurn
  <2> QED BY <2>1 DEF WorkKnown, WorkApart, WaitingUnanswered, Work, Waiting
<1> QED BY <1>1, <1>2

\* The start replays what has no answer, or one the checkpoint knows of.
LEMMA StartAccepts ==
  ASSUME Types, OnTheWay, Standing, Grown, AnswerRemembered, Start
  PROVE  Accepting'
<1>1. /\ queue = <<>> /\ startup = <<>> /\ turn = NoTurn /\ Downloading = {} /\ putting = Nobody
      /\ batch = <<>> /\ late = <<>> /\ queued = <<>>
  BY DEF Start, OnTheWay, Standing, GateKept, HeldIsIdle, Polled
<1>2. UNCHANGED <<startup, slot, turn, batch, late, queued, putting, answers, kind>>
  BY DEF Start, work, server
<1>3. WorkKnown' /\ WorkApart' /\ WaitingUnanswered'
  BY <1>1, <1>2, NothingAccepted
<1>4. Downloading' = {} /\ ToSet(startup') = {}
  BY <1>1, <1>2, ShortSets DEF Downloading
<1>5. ToSet(queue') \subseteq Pending
  <2>1. ToSet(queue) = {}
    BY <1>1, ShortSets
  <2> QED BY <2>1 DEF Start, Replay, Ascending
<1>6. checkpoint'.claims = checkpoint.claims
  BY DEF Start, Types, StoreTypes
<1>7. \A m \in Pending : Harmless(m)'
  BY <1>2, <1>6 DEF AnswerRemembered, Harmless, Pending, Types, FlagTypes
<1>8. PipeUnanswered'
  BY <1>1, <1>2, <1>4, <1>5, <1>7 DEF PipeUnanswered
<1> QED BY <1>3, <1>8 DEF Accepting

\* The end of a process.
LEMMA GoneAccepts ==
  ASSUME Gone PROVE Accepting'
<1>1. Downloading' = {}
  BY IdleSlots DEF Gone
<1>2. ToSet(queue') = {} /\ ToSet(startup') = {} /\ putting' = Nobody
  BY ShortSets DEF Gone
<1>3. PipeUnanswered'
  BY <1>1, <1>2 DEF PipeUnanswered
<1> QED BY <1>3, NothingAccepted DEF Gone, Accepting

\* The first state.
LEMMA InitAnswering ==
  ASSUME Init PROVE Answering
<1>1. Downloading = {}
  BY Records DEF Init, Downloading
<1>2. ToSet(queue) = {} /\ ToSet(startup) = {}
  BY ShortSets DEF Init
<1>3. PipeUnanswered
  BY <1>1, <1>2 DEF Init, PipeUnanswered
<1>4. AnswerRemembered /\ UnreadyUnanswered /\ AnsweredOnce
  BY DEF Init, NoCheckpoint, AnswerRemembered, UnreadyUnanswered, AnsweredOnce
<1>5. SettledOnRecord
  BY DEF Init, SettledOnRecord, NoTurn
<1>6. WorkKnown /\ WorkApart /\ WaitingUnanswered
  BY NothingAccepted DEF Init
<1> QED BY <1>3, <1>4, <1>5, <1>6 DEF Answering

\* Every step.
LEMMA StepAnswering ==
  ASSUME Types, Types', OnTheWay, Standing, Answering, Next
  PROVE  Answering'
<1>1. Grown /\ Polled /\ TurnCheckpointed
  BY StepGrows DEF OnTheWay, Standing
<1>2. Accepting
  BY DEF Answering, Accepting
<1>3. UnreadyUnanswered' /\ AnsweredOnce'
  BY <1>1, MemoryKeeps DEF Answering
<1>4. \/ Lapse = {}
      \/ (Finalize /\ Lapse \subseteq Claims)
      \/ (Retire /\ Lapse \subseteq cached)
  BY <1>1, MemoryKeeps DEF Answering
<1>5. /\ SettledOnRecord'
      /\ \A m \in Updates : spool[m] \in {"completed", "gone"} =>
           spool'[m] \in {"completed", "gone"}
  BY RecordsKeep DEF Answering
<1>6. AnswerRemembered'
  <2>1. \A m \in Lapse : spool[m] = "completed"
    <3>1. CASE Finalize /\ Lapse \subseteq Claims
      BY <3>1 DEF Finalize, Answering, SettledOnRecord
    <3>2. CASE Retire /\ Lapse \subseteq cached
      BY <3>2 DEF Answering, SettledOnRecord
    <3> QED BY <1>4, <3>1, <3>2
  <2>2. ASSUME NEW m \in Updates, Bare(m)' PROVE spool'[m] \in {"completed", "gone"}
    <3>1. CASE Bare(m)
      BY <1>5, <3>1 DEF Answering, AnswerRemembered, Bare
    <3>2. CASE m \in Lapse
      BY <1>5, <2>1, <3>2
    <3> QED BY <2>2, <3>1, <3>2 DEF Lapse
  <2> QED BY <2>2 DEF AnswerRemembered, Bare
<1>7. Accepting'
  <2>1. CASE Resting
    BY <1>1, <1>2, <1>4, <2>1, LapsesAreSafe, RestingKeeps
  <2>2. CASE Record \/ Put
    BY <1>1, <1>2, <2>2, PuttingKeeps DEF Answering
  <2>3. CASE Dispatch \/ ReleaseNext \/ \E h \in Handlers : Download(h)
    BY <1>1, <1>2, <2>3, HandlersKeep
  <2>4. CASE Start
    BY <1>1, <2>4, StartAccepts DEF Answering
  <2>5. CASE Exit \/ Abort \/ Crash
    <3>1. Gone
      BY <2>5, Zenon DEF Exit, Abort, Crash
    <3> QED BY <3>1, GoneAccepts
  <2> QED BY Zenon, <2>1, <2>2, <2>3, <2>4, <2>5 DEF Next, Progress, Trouble, Resting
<1> QED BY <1>3, <1>5, <1>6, <1>7 DEF Answering, Accepting

\* A step of nobody.
LEMMA StutterAnswering ==
  ASSUME Answering, UNCHANGED vars
  PROVE  Answering'
<1>1. UNCHANGED <<kind, allowed, confirmed, putting, spool, checkpoint, queue, slot, startup>>
      /\ UNCHANGED <<seen, cached, batch, late, queued, turn, answers>>
  BY DEF vars, server, durable, inflow, work, ghosts
<1>2. AnswerRemembered' /\ UnreadyUnanswered' /\ SettledOnRecord' /\ AnsweredOnce'
  BY <1>1 DEF Answering, AnswerRemembered, UnreadyUnanswered, SettledOnRecord, AnsweredOnce, Claims
<1>3. /\ Work' = Work /\ Waiting' = Waiting /\ Downloading' = Downloading /\ WorkApart'
      /\ \A x : MessageKey(x)' = MessageKey(x) /\ (Harmless(x)' <=> Harmless(x))
  BY <1>1 DEF Answering, Work, Waiting, Downloading, WorkApart, InBatch, InLate, InQueue, Claims,
              Harmless, MessageKey
<1>4. WaitingUnanswered' /\ WorkKnown'
  BY <1>1, <1>3 DEF Answering, WaitingUnanswered, WorkKnown
<1>5. PipeUnanswered'
  <2>1. PICK y : y = putting.m /\ y = putting'.m
    BY <1>1
  <2> QED BY <1>1, <1>3, <2>1 DEF Answering, PipeUnanswered
<1> QED BY <1>2, <1>3, <1>4, <1>5 DEF Answering

\* No update is answered twice, whatever the server sends again, a crash
\* replays and the startup resumes.
THEOREM AnsweredAtMostOnce == Spec => []AnsweredOnce
<1>1. Init => IInv
  BY InitTypes, InitKeeping, InitAnswering DEF IInv
<1>2. IInv /\ [Next]_vars => IInv'
  <2>1. ASSUME IInv, Next PROVE IInv'
    <3>1. Types /\ OnTheWay /\ Standing /\ Answering /\ Polled
      BY <2>1 DEF IInv, OnTheWay
    <3>2. Types'
      BY <2>1, <3>1, StepTypes
    <3> QED BY <2>1, <3>1, <3>2, StepKeeping, StepAnswering DEF IInv
  <2>2. ASSUME IInv, UNCHANGED vars PROVE IInv'
    BY <2>2, StutterKeeps, StutterAnswering DEF IInv
  <2> QED BY <2>1, <2>2
<1>3. IInv => AnsweredOnce
  BY DEF IInv, Answering
<1> QED BY <1>1, <1>2, <1>3, PTL DEF Spec

-----------------------------------------------------------------------------
(* The order of a conversation's messages.                                 *)

\* Messages on record, and those that are still owed an answer.
Rows == {m \in Updates : spool[m] # "none"}
TextRows == {m \in Rows : kind[m] \in Texts}
Owed == {m \in TextRows : spool[m] = "pending"}

\* A channel that takes updates: only the start makes it one.
Taking == mode # "off" /\ ~Stopping /\ ~failed

\* What the handlers have taken, what commands have made void, and where what
\* was taken from the queue may be.
InHand == {slot[h].m : h \in {g \in Handlers : slot[g].at # "idle"}}
Void == UNION {dropped[c] : c \in Updates}
Places == InHand \cup ToSet(startup) \cup InBatch \cup InQueue \cup Claims \cup Void

\* The updates the process has come to, or has rows of or behind.
Come(m) ==
    \/ m < confirmed \/ m < offset \/ (fetched # <<>> /\ m < Head(fetched))
    \/ \E n \in Rows : m <= n

\* Every update it has come to is on record that has to be.
RecordedSoFar ==
    \A m \in Updates : Come(m) /\ Wanted(m) /\ Trusted(m) => m \in Rows

\* A process that does not run holds nothing, and what a command has made void
\* waits for it to be cleared.
OffIsEmpty ==
    mode = "off" => heldClaims = {} /\ enqueued = {} /\ \A h \in Handlers : slot[h].at = "idle"
VoidWaits ==
    /\ \A c \in Updates : dropped[c] # {} => cmd[c] = "waiting"
    /\ \A c \in Updates : cmd[c] # "none" => c \in seen

\* What is under way is on record, what waits for a turn are messages.
UnderWay == Work \cup InHand \cup Void \cup Active
UnderWayIsRecorded ==
    /\ UnderWay \subseteq Rows
    /\ \A x \in Work : kind[x] \in Texts
    /\ \A x \in Pipe : Wanted(x) => x \in Rows

\* What is put now comes behind all that is on record.
PutIsLast ==
    putting # Nobody /\ putting.m \notin enqueued /\ putting.m \in Owed =>
        \A n \in Rows : n <= putting.m

\* What is owed is with the process, in one of its places.
OwedIsEnqueued == \A m \in Owed : m \in enqueued \/ putting.m = m
OwedIsKept ==
    /\ Owed \cap enqueued \subseteq Places \cup ToSet(queue)
    /\ Owed \cap heldClaims \subseteq Places
    /\ enqueued \cup heldClaims \subseteq Rows

\* Two updates of which the second is owed an answer before the first.
Misordered == {p \in Updates \X Updates : p[2] < p[1] /\ kind[p[1]] \in Texts /\ p[2] \in Owed}

\* No message is ahead of an earlier one that is owed an answer.
AheadIsFirst ==
    /\ FreeOf(Misordered)
    /\ \A x \in InBatch \cup InQueue, y \in Pipe \cup InHand : y \in Owed => x <= y
    /\ \A x \in InQueue, y \in InBatch : y \in Owed => x <= y

\* What is queued waits for a turn or a command.
QueuedWaits == queued # <<>> => turn # NoTurn \/ Gate # {}

\* The dispatcher takes messages in hand only behind the opened gate.
TextBehindGate ==
    slot["dispatcher"].at # "idle" /\ kind[slot["dispatcher"].m] \in Texts => mode = "up"

\* The part of the invariant behind "in order".
OnRecord == RecordedSoFar /\ OffIsEmpty /\ VoidWaits /\ UnderWayIsRecorded
Line ==
    /\ PutIsLast /\ OwedIsEnqueued /\ OwedIsKept
    /\ AheadIsFirst /\ QueuedWaits /\ TextBehindGate
InLine == OnRecord /\ (Taking => Line)

-----------------------------------------------------------------------------
(* What is on record.                                                      *)

\* A row stays, one step writes one, and nothing is owed again.
LEMMA RowsStay ==
  ASSUME Types, UnderWayIsRecorded, Next
  PROVE  /\ kind' = kind /\ allowed' \in {allowed, FALSE} /\ Rows \subseteq Rows'
         /\ Record \/ (Rows' = Rows /\ \A m \in Updates : spool'[m] = "pending" => spool[m] = "pending")
<1>1. /\ spool \in [Updates -> {"none", "pending", "completed", "gone"}]
      /\ kind' = kind /\ allowed \in BOOLEAN
  BY StepGrows DEF Types, StoreTypes, FlagTypes, Grown
<1> DEFINE Same == \A m \in Updates : /\ spool'[m] = "none" <=> spool[m] = "none"
                                      /\ spool'[m] = "pending" => spool[m] = "pending"
           Goal == allowed' \in {allowed, FALSE} /\ Same
<1>2. ASSUME NEW claims, claims \subseteq Rows, Completes(claims)
      PROVE  Same
  BY <1>1, <1>2 DEF Completes, Rows
<1>3. Goal => /\ allowed' \in {allowed, FALSE} /\ Rows' = Rows
              /\ \A m \in Updates : spool'[m] = "pending" => spool[m] = "pending"
  BY DEF Rows
<1>4. spool' = spool => Same
  OBVIOUS
<1> HIDE DEF Same
<1>5. CASE Record
  <2>1. allowed' = allowed
    BY <1>5 DEF Record
  <2>2. spool' = spool \/ \E m : spool' = [spool EXCEPT ![m] =
                 IF @ \in {"none", "gone"} THEN "pending" ELSE @]
    BY <1>5 DEF Record
  <2>3. Rows \subseteq Rows'
    BY <1>1, <2>2 DEF Rows
  <2> QED BY <1>1, <1>5, <2>1, <2>3
<1>6. ASSUME \/ Poll \/ Put \/ RecordFails \/ PollingFails \/ Dispatch \/ ReleaseNext \/ Flush
           \/ \E h \in Handlers : Download(h) \/ UpdateFails(h)
      PROVE  Goal
  BY <1>4, <1>6 DEF Poll, Put, RecordFails, PollingFails, Dispatch, ReleaseNext, Flush, Download,
                    UpdateFails, durable
<1>7. ASSUME NEW h \in Handlers, SettleUpdate(h) PROVE Goal
  <2>1. slot[h].m \in InHand
    BY <1>7 DEF SettleUpdate, InHand
  <2> QED BY <1>2, <1>7, <2>1 DEF SettleUpdate, UnderWayIsRecorded, UnderWay
<1>8. ASSUME Begin \/ Notify \/ Answer \/ Finalize \/ Refuse \/ Raise
      PROVE  Goal
  BY <1>4, <1>8 DEF Begin, Notify, Answer, Finalize, Refuse, Raise, HandlerFails, durable
<1>9. ASSUME Stopped \/ Fence \/ Return
      PROVE  Goal
  BY <1>2, <1>9 DEF Stopped, Fence, Return, UnderWayIsRecorded, UnderWay, Work
<1>10. ASSUME NEW m \in Updates, CommandStep(m) \/ CommandFails(m) PROVE Goal
  <2>1. dropped[m] \subseteq Void
    BY DEF Void
  <2>2. CommandEnds(m) => m \in Active
    BY DEF CommandEnds, Active
  <2>3. spool' = spool \/ Completes(dropped[m]) \/ (CommandEnds(m) /\ Completes({m}))
    BY <1>10 DEF CommandStep, Clear, Reserve, Execute, Complete, CommandEnds, CommandFails, durable
  <2>4. allowed' = allowed
    BY <1>10 DEF CommandStep, Clear, Reserve, Execute, Complete, CommandEnds, CommandFails
  <2> QED BY <1>2, <1>4, <2>1, <2>2, <2>3, <2>4 DEF UnderWayIsRecorded, UnderWay
<1>11. ASSUME RecordRecovered \/ RetireUnknown
      PROVE  Goal
  <2>1. checkpoint.claims \subseteq Rows
    BY <1>11 DEF RecordRecovered, RetireUnknown, Found, Rows, Types, StoreTypes
  <2> QED BY <1>2, <1>11, <2>1 DEF RecordRecovered, RetireUnknown
<1>12. ASSUME \/ Resume \/ Retire \/ Release \/ RecoveryBlocked \/ RecoveryFails \/ Released
            \/ StopIntake \/ IntakeClosed \/ Drained \/ Exit \/ Abort \/ Crash \/ Revoke
      PROVE  Goal
  BY <1>4, <1>12 DEF Resume, Retire, Release, RecoveryBlocked, RecoveryFails, FailsClosed, Released,
       StopIntake, IntakeClosed, Drained, Exit, Abort, Crash, Gone, Revoke, durable
<1>13. ASSUME Start \/ Prune
      PROVE  Goal
  <2>1. \A m \in Updates : spool'[m] = spool[m] \/ (spool'[m] = "gone" /\ spool[m] # "none")
    BY <1>1, <1>13 DEF Start, Replay, Discard, Pending, Prune
  <2>2. Same
    BY <2>1 DEF Same
  <2> QED BY <1>13, <2>2 DEF Start, Prune
<1>14. Record \/ Goal
  BY Zenon, <1>5, <1>6, <1>7, <1>8, <1>9, <1>10, <1>11, <1>12, <1>13
     DEF Next, Progress, Trouble, HandlerStep
<1> QED BY <1>1, <1>3, <1>5, <1>14

\* Only the start makes a process take updates.
LEMMA TakingStays ==
  ASSUME Types, Next, Taking'
  PROVE  Start \/ (Taking /\ mode' \in {mode, "recovered", "releasing", "up"})
<1>1. CASE UNCHANGED <<mode, failed>>
  BY <1>1 DEF Taking, Stopping
<1>2. CASE failed' = TRUE \/ mode' \in {"off", "closing", "draining", "leaving"}
  BY <1>2 DEF Taking, Stopping
<1>3. CASE Poll \/ Record \/ Put \/ RecordFails \/ PollingFails
  BY <1>1, <1>2, <1>3 DEF Poll, Record, Put, RecordFails, PollingFails
<1>4. CASE \/ Dispatch \/ ReleaseNext \/ Flush
           \/ \E h \in Handlers : Download(h) \/ SettleUpdate(h) \/ UpdateFails(h)
  BY <1>1, <1>2, <1>4 DEF Dispatch, ReleaseNext, Flush, Download, SettleUpdate, UpdateFails
<1>5. CASE HandlerStep \/ Return \/ Raise
  BY <1>1, <1>2, <1>5 DEF HandlerStep, Begin, Notify, Answer, Stopped, Fence, Finalize, Refuse,
       Return, Raise, HandlerFails
<1>6. CASE \E m \in Updates : CommandStep(m) \/ CommandFails(m)
  BY <1>1, <1>2, <1>6 DEF CommandStep, Clear, Reserve, Execute, Complete, CommandEnds, CommandFails
<1>7. CASE Resume \/ RecordRecovered \/ Retire \/ RecoveryBlocked \/ RecoveryFails \/ Revoke \/ Prune
  BY <1>1, <1>2, <1>7 DEF Resume, RecordRecovered, Retire, RecoveryBlocked, RecoveryFails,
       FailsClosed, Revoke, Prune
<1>8. CASE StopIntake \/ IntakeClosed \/ Drained \/ Exit \/ Abort \/ Crash
  BY <1>2, <1>8 DEF StopIntake, IntakeClosed, Drained, Exit, Abort, Crash, Gone
<1>9. CASE RetireUnknown \/ Release \/ Released
  BY <1>9 DEF RetireUnknown, Release, Released, Taking, Stopping
<1> QED BY Zenon, <1>3, <1>4, <1>5, <1>6, <1>7, <1>8, <1>9 DEF Next, Progress, Trouble

\* What a step comes to it records, unless it has not to be.
LEMMA ComesTo ==
  ASSUME Types, Polled, UnderWayIsRecorded, Next, NEW n \in Updates, Come(n)'
  PROVE  Come(n) \/ n \in Rows' \/ ~Wanted(n) \/ ~Trusted(n)
<1>1. /\ confirmed \in Int /\ offset \in Int /\ n \in Int /\ Updates \subseteq Int
      /\ fetched # <<>> => Head(fetched) \in Updates
  BY HeadAndTail, Bounds DEF Types, ServerTypes
<1>2. Reached(n) => Come(n)
  BY DEF Reached, Come, Rows
<1>3. CASE Rows' = Rows /\ (fetched' = fetched \/ fetched' = <<>>)
           /\ offset' \in {offset, confirmed} /\ confirmed' \in {offset, confirmed}
  BY <1>1, <1>3 DEF Come
<1>4. CASE Poll
  <2>1. PICK last \in confirmed' - 1 .. N : fetched' = Interval(confirmed', last)
    BY <1>4 DEF Poll
  <2>2. offset' = offset /\ confirmed' \in {offset, confirmed} /\ Rows' = Rows
    BY <1>4 DEF Poll, durable, Rows
  <2>3. confirmed' \in 1 .. N + 1
    BY <2>2 DEF Types, ServerTypes
  <2>4. fetched' # <<>> => Head(fetched') = confirmed'
    BY <2>1, <2>3, Response
  <2> QED BY <1>1, <2>2, <2>4 DEF Come
<1>5. ASSUME Passed, fetched # <<>>, confirmed' = confirmed, spool' = spool
      PROVE  Come(n) \/ n = Head(fetched)
  <2>1. CASE \E z \in Rows' : n <= z
    BY <1>5, <2>1 DEF Come, Rows
  <2>2. CASE n < confirmed' \/ n < offset' \/ (fetched' # <<>> /\ n < Head(fetched'))
    BY <1>2, <1>5, <2>2, PassedReaches DEF Types
  <2> QED BY <2>1, <2>2 DEF Come
<1>6. CASE Record
  <2>1. fetched # <<>> /\ confirmed' = confirmed
    BY <1>6 DEF Record
  <2>2. PICK m \in Updates : m = Head(fetched)
    BY <1>1, <2>1
  <2>3. CASE ~Wanted(m) \/ ~Trusted(m)
    <3>1. Passed /\ spool' = spool
      BY <1>6, <2>2, <2>3 DEF Record
    <3> QED BY <1>5, <2>1, <2>2, <2>3, <3>1
  <2>4. CASE Wanted(m) /\ Trusted(m)
    <3>1. /\ UNCHANGED <<fetched, offset, confirmed>>
          /\ spool' = [spool EXCEPT ![m] = IF @ \in {"none", "gone"} THEN "pending" ELSE @]
      BY <1>6, <2>2, <2>4 DEF Record
    <3>2. m \in Rows' /\ \A z \in Rows' : z = m \/ z \in Rows
      BY <3>1 DEF Rows, Types, StoreTypes
    <3>3. CASE \E z \in Rows : n <= z
      BY <3>3 DEF Come
    <3>4. CASE n <= m
      <4>1. n = m \/ n < m
        BY <1>1, <3>4
      <4> QED BY <2>1, <2>2, <3>2, <4>1 DEF Come
    <3>5. CASE n < confirmed \/ n < offset \/ (fetched # <<>> /\ n < Head(fetched))
      BY <3>5 DEF Come
    <3> QED BY <3>1, <3>2, <3>3, <3>4, <3>5 DEF Come
  <2> QED BY <2>3, <2>4
<1>7. CASE Put
  <2>1. putting # Nobody /\ Passed /\ UNCHANGED <<confirmed, spool>>
    BY <1>7 DEF Put, durable
  <2>2. fetched # <<>> /\ putting.m = Head(fetched) /\ spool[putting.m] # "none"
    BY <2>1 DEF Polled
  <2>3. Head(fetched) \in Rows'
    BY <1>1, <2>1, <2>2 DEF Rows
  <2> QED BY <1>5, <2>1, <2>2, <2>3
<1>8. CASE RecordFails \/ StopIntake \/ Exit \/ Abort \/ Crash
  <2>1. Rows' = Rows
    BY <1>8 DEF RecordFails, StopIntake, Exit, Abort, Crash, Gone, Rows, durable
  <2>2. fetched' = <<>> /\ offset' \in {offset, confirmed} /\ confirmed' \in {offset, confirmed}
    BY <1>8 DEF RecordFails, StopIntake, Exit, Abort, Crash, Gone
  <2> QED BY <1>3, <2>1, <2>2
<1>9. CASE UNCHANGED <<fetched, offset, confirmed>> /\ ~Record
  <2>1. Rows' = Rows
    BY <1>9, RowsStay
  <2> QED BY <1>3, <1>9, <2>1
<1>10. CASE \/ PollingFails \/ Dispatch \/ ReleaseNext \/ Flush
            \/ \E h \in Handlers : Download(h) \/ SettleUpdate(h) \/ UpdateFails(h)
  BY <1>6, <1>9, <1>10 DEF PollingFails, Dispatch, ReleaseNext, Flush, Download, SettleUpdate,
       UpdateFails, server
<1>11. CASE HandlerStep \/ Return \/ Raise
  BY <1>6, <1>9, <1>11 DEF HandlerStep, Begin, Notify, Answer, Stopped, Fence, Finalize, Refuse,
       Return, Raise, HandlerFails, server
<1>12. CASE \E m \in Updates : CommandStep(m) \/ CommandFails(m)
  BY <1>6, <1>9, <1>12 DEF CommandStep, Clear, Reserve, Execute, Complete, CommandEnds,
       CommandFails, server
<1>13. CASE \/ Start \/ Resume \/ RecordRecovered \/ Retire \/ RetireUnknown \/ Release
            \/ RecoveryBlocked \/ RecoveryFails \/ Released \/ IntakeClosed \/ Drained
            \/ Revoke \/ Prune
  BY <1>6, <1>9, <1>13 DEF Start, Resume, RecordRecovered, Retire, RetireUnknown, Release,
       RecoveryBlocked, RecoveryFails, FailsClosed, Released, IntakeClosed, Drained, Revoke,
       Prune, server
<1> QED BY Zenon, <1>4, <1>6, <1>7, <1>8, <1>10, <1>11, <1>12, <1>13 DEF Next, Progress, Trouble

\* So every update it comes to is on record.
LEMMA RecordedStays ==
  ASSUME Types, Polled, UnderWayIsRecorded, RecordedSoFar, Next
  PROVE  RecordedSoFar'
<1>1. kind' = kind /\ allowed' \in {allowed, FALSE} /\ Rows \subseteq Rows' /\ allowed \in BOOLEAN
  BY RowsStay DEF Types, FlagTypes
<1>2. ASSUME NEW n \in Updates, Come(n)', Wanted(n)', Trusted(n)' PROVE n \in Rows'
  <2>1. Wanted(n) /\ Trusted(n)
    BY <1>1, <1>2 DEF Wanted, Trusted
  <2> QED BY <1>1, <1>2, <2>1, ComesTo DEF RecordedSoFar
<1> QED BY <1>2 DEF RecordedSoFar

\* What the handlers have taken, when a slot changes.
LEMMA HandChange ==
  ASSUME slot \in [Handlers -> SlotRecord], NEW h \in Handlers, NEW r \in SlotRecord,
         slot' = [slot EXCEPT ![h] = r]
  PROVE  /\ InHand' \subseteq InHand \cup {r.m} /\ InHand \subseteq InHand' \cup {slot[h].m}
         /\ r.at = "idle" => InHand' \subseteq InHand
         /\ r.at # "idle" => r.m \in InHand'
         /\ slot[h].at = "idle" => InHand \subseteq InHand'
<1>1. slot'[h] = r /\ \A g \in Handlers \ {h} : slot'[g] = slot[g]
  OBVIOUS
<1> QED BY <1>1 DEF InHand

\* A slot is emptied, or taken.
LEMMA SlotMoves ==
  ASSUME Types, NEW m \in Updates, NEW h \in Handlers,
         \/ slot' = slot \/ slot' = [slot EXCEPT ![h] = Idle]
         \/ slot' = [slot EXCEPT ![h] = [m |-> m, at |-> "downloading"]]
         \/ slot' = [slot EXCEPT ![h] = [m |-> m, at |-> "settling"]]
  PROVE  /\ InHand' \subseteq InHand \cup {m} /\ InHand \subseteq InHand' \cup {slot[h].m}
         /\ slot' = slot => InHand' = InHand
         /\ slot' = [slot EXCEPT ![h] = Idle] => InHand' \subseteq InHand
         /\ slot' = [slot EXCEPT ![h] = [m |-> m, at |-> "downloading"]] => m \in InHand'
         /\ slot' = [slot EXCEPT ![h] = [m |-> m, at |-> "settling"]] => m \in InHand'
         /\ slot[h].at = "idle" => InHand \subseteq InHand'
<1>1. slot \in [Handlers -> SlotRecord]
  BY DEF Types, IntakeTypes
<1>2. CASE slot' = slot
  <2>1. InHand' = InHand
    BY <1>2 DEF InHand
  <2>2. /\ slot' # [slot EXCEPT ![h] = [m |-> m, at |-> "downloading"]] \/ m \in InHand
        /\ slot' # [slot EXCEPT ![h] = [m |-> m, at |-> "settling"]] \/ m \in InHand
    <3>1. ASSUME NEW r \in SlotRecord, r.at # "idle", slot' = [slot EXCEPT ![h] = r] PROVE r.m \in InHand
      <4>1. slot[h] = r
        BY <1>1, <1>2, <3>1
      <4> QED BY <3>1, <4>1 DEF InHand
    <3>2. PICK r \in SlotRecord : r = [m |-> m, at |-> "downloading"] /\ r.m = m /\ r.at = "downloading"
      BY Records
    <3>3. PICK s \in SlotRecord : s = [m |-> m, at |-> "settling"] /\ s.m = m /\ s.at = "settling"
      BY Records
    <3> QED BY <3>1, <3>2, <3>3
  <2> QED BY <1>2, <2>1, <2>2
<1>3. ASSUME NEW r \in SlotRecord, slot' = [slot EXCEPT ![h] = r], r.m = m \/ r.at = "idle"
      PROVE  /\ InHand' \subseteq InHand \cup {m} /\ InHand \subseteq InHand' \cup {slot[h].m}
             /\ r.at = "idle" => InHand' \subseteq InHand
             /\ r.at # "idle" => m \in InHand'
             /\ slot[h].at = "idle" => InHand \subseteq InHand'
             /\ slot'[h] = r
  <2>1. slot'[h] = r
    BY <1>1, <1>3
  <2> QED BY <1>1, <1>3, <2>1, HandChange
<1>4. CASE slot' = [slot EXCEPT ![h] = Idle]
  <2>1. PICK r \in SlotRecord : r = Idle /\ r.at = "idle"
    BY Records
  <2>2. slot'[h].at = "idle"
    BY <1>3, <1>4, <2>1
  <2>3. /\ slot' # [slot EXCEPT ![h] = [m |-> m, at |-> "downloading"]]
        /\ slot' # [slot EXCEPT ![h] = [m |-> m, at |-> "settling"]]
    BY <1>1, <2>2
  <2>4. /\ InHand' \subseteq InHand /\ InHand \subseteq InHand' \cup {slot[h].m}
        /\ slot[h].at = "idle" => InHand \subseteq InHand'
    BY <1>3, <1>4, <2>1
  <2>5. slot' = slot => InHand' = InHand
    BY DEF InHand
  <2> QED BY <2>3, <2>4, <2>5
<1>5. ASSUME NEW at \in {"downloading", "settling"}, slot' = [slot EXCEPT ![h] = [m |-> m, at |-> at]]
      PROVE  /\ InHand' \subseteq InHand \cup {m} /\ InHand \subseteq InHand' \cup {slot[h].m}
             /\ m \in InHand' /\ slot' # [slot EXCEPT ![h] = Idle]
             /\ slot[h].at = "idle" => InHand \subseteq InHand'
             /\ slot' = slot => InHand' = InHand
  <2>1. PICK r \in SlotRecord : r = [m |-> m, at |-> at] /\ r.m = m /\ r.at = at
    BY Records
  <2>2. slot' = [slot EXCEPT ![h] = r]
    BY <1>5, <2>1
  <2>3. slot'[h].at # "idle"
    BY <1>3, <2>1, <2>2
  <2>4. slot' # [slot EXCEPT ![h] = Idle]
    BY <1>1, <2>3, Records
  <2>5. slot' = slot => InHand' = InHand
    BY DEF InHand
  <2> QED BY <1>3, <2>1, <2>2, <2>4, <2>5
<1> QED BY <1>2, <1>4, <1>5

\* Resting steps take nothing.
LEMMA RestingUnderWay ==
  ASSUME Types, VoidWaits, WorkApart, Resting
  PROVE  UnderWay' \subseteq UnderWay /\ Work' \subseteq Work /\ Pipe' \subseteq Pipe /\ VoidWaits'
<1>1. Work' \subseteq Work
  <2>1. Shrinks \/ Starts \/ \E S : Sends(S)
    BY WorkShifts
  <2>2. CASE Shrinks \/ Starts
    BY <2>2 DEF Shrinks, Starts, Work
  <2>3. ASSUME NEW S, Sends(S) PROVE Work' \subseteq Work
    <3>1. turn' = turn => Claims' = Claims
      BY DEF Claims
    <3> QED BY <2>3, <3>1 DEF Sends, Work
  <2> QED BY <2>1, <2>2, <2>3
<1>2. Pipe' \subseteq Pipe /\ seen' = seen
  BY RestingAside, ShortSets DEF Pipe
<1>3. InHand' \subseteq InHand
  <2>1. slot' = slot => InHand' = InHand
    BY DEF InHand
  <2>2. CASE \E h \in Handlers : SettleUpdate(h) \/ UpdateFails(h)
    <3>1. PICK h \in Handlers : slot' = [slot EXCEPT ![h] = Idle]
      BY <2>2 DEF SettleUpdate, UpdateFails
    <3> QED BY <3>1, Records, HandChange DEF Types, IntakeTypes
  <2>3. CASE Drained
    BY <2>3, IdleSlots DEF Drained, InHand
  <2>4. CASE \/ Poll \/ RecordFails \/ PollingFails \/ Flush \/ HandlerStep \/ Return \/ Raise
    BY <2>1, <2>4 DEF Poll, RecordFails, PollingFails, Flush, HandlerStep, Begin, Notify, Answer,
         Stopped, Fence, Finalize, Refuse, Return, Raise, HandlerFails, inflow
  <2>5. CASE \E m \in Updates : CommandStep(m) \/ CommandFails(m)
    BY <2>1, <2>5 DEF CommandStep, Clear, Reserve, Execute, Complete, CommandEnds, CommandFails, inflow
  <2>6. CASE \/ Resume \/ RecordRecovered \/ Retire \/ RetireUnknown \/ Release \/ RecoveryBlocked
             \/ RecoveryFails \/ Released \/ StopIntake \/ IntakeClosed \/ Revoke \/ Prune
    BY <2>1, <2>6 DEF Resume, RecordRecovered, Retire, RetireUnknown, Release, RecoveryBlocked,
         RecoveryFails, FailsClosed, Released, StopIntake, IntakeClosed, Revoke, Prune, inflow
  <2> QED BY <2>2, <2>3, <2>4, <2>5, <2>6 DEF Resting
<1>4. Void' \subseteq Void /\ Active' \subseteq Active /\ VoidWaits'
  <2>1. UNCHANGED <<cmd, dropped>> => Void' \subseteq Void /\ Active' \subseteq Active /\ VoidWaits'
    BY <1>2 DEF Void, Active, VoidWaits
  <2>2. ASSUME NEW m \in Updates, CommandStep(m) \/ CommandFails(m)
        PROVE  Void' \subseteq Void /\ Active' \subseteq Active /\ VoidWaits'
    <3>1. /\ dropped \in [Updates -> SUBSET Updates] /\ cmd \in [Updates -> CmdPhases]
      BY DEF Types, WorkTypes
    <3>2. /\ dropped' = dropped \/ dropped' = [dropped EXCEPT ![m] = {}]
          /\ cmd' = cmd \/ \E ph \in CmdPhases : cmd' = [cmd EXCEPT ![m] = ph]
          /\ cmd' = cmd \/ dropped[m] = {} \/ dropped' = [dropped EXCEPT ![m] = {}]
          /\ cmd[m] # "none"
      BY <2>2 DEF CommandStep, Clear, Reserve, Execute, Complete, CommandEnds, CommandFails,
           TaskEnds, Step, Ready, CmdPhases, VoidWaits
    <3> QED BY <1>2, <3>1, <3>2 DEF Void, Active, VoidWaits
  <2>3. CASE \/ Poll \/ RecordFails \/ PollingFails \/ Flush \/ HandlerStep \/ Return \/ Raise
             \/ \E h \in Handlers : SettleUpdate(h) \/ UpdateFails(h)
    BY <2>1, <2>3 DEF Poll, RecordFails, PollingFails, Flush, HandlerStep, Begin, Notify, Answer,
         Stopped, Fence, Finalize, Refuse, Return, Raise, HandlerFails, SettleUpdate, UpdateFails, work
  <2>4. CASE \/ Resume \/ RecordRecovered \/ Retire \/ RetireUnknown \/ Release \/ RecoveryBlocked
             \/ RecoveryFails \/ Released \/ StopIntake \/ IntakeClosed \/ Revoke \/ Prune \/ Drained
    BY <2>1, <2>4 DEF Resume, RecordRecovered, Retire, RetireUnknown, Release, RecoveryBlocked,
         RecoveryFails, FailsClosed, Released, StopIntake, IntakeClosed, Revoke, Prune, Drained, work
  <2> QED BY <2>2, <2>3, <2>4 DEF Resting
<1> QED BY <1>1, <1>2, <1>3, <1>4 DEF UnderWay

\* An accepted message in the batch, behind it, or held back once the intake
\* stops.
Collected(m) ==
    /\ kind[m] \in Texts /\ UNCHANGED <<cmd, dropped>>
    /\ \/ /\ Stopping /\ InLate' = InLate \cup {m} /\ UNCHANGED <<batch, queued, turn>>
       \/ /\ InBatch' = InBatch \cup {m} /\ UNCHANGED <<late, queued, turn>>
       \/ /\ InBatch' = {m} /\ UNCHANGED <<late, turn>>
          /\ InQueue' = InQueue \cup InBatch /\ (turn # NoTurn \/ Gate # {})
       \/ /\ InBatch' = {m} /\ UNCHANGED <<late, queued>>
          /\ turn = NoTurn /\ turn' = NewTurn(batch) /\ Gate = {}

\* An accepted command, with what it makes void.
Commanded(m) ==
    /\ kind[m] \in Ordered \cup {"approve"} /\ UNCHANGED <<late, turn>>
    /\ cmd' = [cmd EXCEPT ![m] = "waiting"]
    /\ \/ UNCHANGED <<batch, queued, dropped>>
       \/ /\ dropped' = [dropped EXCEPT ![m] = InBatch \cup InQueue]
          /\ kind[m] \in Ordered /\ batch' = <<>> /\ queued' = <<>>

\* What accepting does with what waits.
LEMMA Accepts ==
  ASSUME Types, NEW m \in Updates, NEW h \in Handlers, Accept(m, h)
  PROVE  \/ /\ UNCHANGED <<seen, work>>
            /\ slot' = [slot EXCEPT ![h] = [m |-> m, at |-> "settling"]]
         \/ /\ MessageKey(m) \notin seen /\ seen' = seen \cup {MessageKey(m)}
            /\ slot' = [slot EXCEPT ![h] = Idle]
            /\ Collected(m) \/ Commanded(m)
<1>1. batch \in Seq(Updates) /\ queued \in Seq(Updates) /\ late \in Seq(Updates)
  BY DEF Types, WorkTypes
<1>2. ASSUME Collect(m) PROVE Collected(m)
  <2>1. kind[m] \in Texts /\ UNCHANGED <<cmd, dropped>>
    BY <1>2 DEF Collect
  <2>2. CASE Stopping /\ late' = Append(late, m) /\ UNCHANGED <<batch, queued, turn>>
    <3>1. InLate' = InLate \cup {m}
      BY <1>1, <2>2, AppendSet DEF InLate
    <3> QED BY <2>1, <2>2, <3>1 DEF Collected
  <2>3. CASE batch' = Append(batch, m) /\ UNCHANGED <<late, queued, turn>>
    <3>1. InBatch' = InBatch \cup {m}
      BY <1>1, <2>3, AppendSet DEF InBatch
    <3> QED BY <2>1, <2>3, <3>1 DEF Collected
  <2>4. CASE QueueTurn(batch) /\ batch' = <<m>> /\ late' = late
    <3>1. InBatch' = {m}
      BY <2>4, ShortSets DEF InBatch
    <3>2. CASE (turn # NoTurn \/ Gate # {}) /\ queued' = queued \o batch /\ turn' = turn
      <4>1. InQueue' = InQueue \cup InBatch
        BY <1>1, <3>2, ConcatSet DEF InQueue, InBatch
      <4> QED BY <2>1, <2>4, <3>1, <3>2, <4>1 DEF Collected
    <3>3. CASE turn = NoTurn /\ Gate = {} /\ turn' = NewTurn(batch) /\ queued' = queued
      BY <2>1, <2>4, <3>1, <3>3 DEF Collected
    <3> QED BY <2>4, <3>2, <3>3 DEF QueueTurn
  <2> QED BY <1>2, <2>2, <2>3, <2>4 DEF Collect
<1>3. ASSUME Command(m) PROVE Commanded(m)
  <2>1. ToSet(batch \o queued) = InBatch \cup InQueue
    BY <1>1, ConcatSet DEF InBatch, InQueue
  <2>2. kind[m] \in Control => kind[m] \in Ordered
    BY DEF Control, Ordered
  <2> QED BY <1>3, <2>1, <2>2 DEF Command, Commanded
<1> QED BY <1>2, <1>3 DEF Accept

\* An update is accepted that is on record.
LEMMA AcceptUnderWay ==
  ASSUME Types, kind' = kind, UnderWayIsRecorded, VoidWaits, Rows' = Rows,
         NEW m \in Rows, NEW h \in Handlers, Accept(m, h), Pipe' \subseteq Pipe
  PROVE  VoidWaits' /\ UnderWayIsRecorded'
<1>1. m \in Updates /\ cmd \in [Updates -> CmdPhases] /\ dropped \in [Updates -> SUBSET Updates]
  BY DEF Rows, Types, WorkTypes
<1>2. InHand' \subseteq InHand \cup {m}
  BY <1>1, SlotMoves DEF Accept
<1>3. ASSUME Work' \subseteq Work \cup {m}, m \in Work' => m \in Work \/ kind[m] \in Texts,
             Void' \subseteq Void \cup Work, Active' \subseteq Active \cup {m}
      PROVE  UnderWayIsRecorded'
  <2>1. UnderWay' \subseteq UnderWay \cup {m}
    BY <1>2, <1>3 DEF UnderWay
  <2> QED BY <1>3, <2>1 DEF UnderWayIsRecorded, Wanted
<1>4. ASSUME UNCHANGED <<cmd, dropped>>, seen \subseteq seen'
      PROVE  Void' = Void /\ Active' = Active /\ VoidWaits'
  BY <1>4 DEF Void, Active, VoidWaits
<1>5. CASE UNCHANGED <<seen, work>>
  <2>1. Work' = Work
    BY <1>5 DEF work, Work, InBatch, InLate, InQueue, Claims
  <2> QED BY <1>3, <1>4, <1>5, <2>1 DEF work
<1>6. CASE seen' = seen \cup {MessageKey(m)} /\ Collected(m)
  <2>1. kind[m] \in Texts
    BY <1>6 DEF Collected
  <2>2. batch' = batch => InBatch' = InBatch
    BY DEF InBatch
  <2>3. late' = late => InLate' = InLate
    BY DEF InLate
  <2>4. queued' = queued => InQueue' = InQueue
    BY DEF InQueue
  <2>5. turn' = turn => Claims' = Claims
    BY DEF Claims
  <2>6. turn' = NewTurn(batch) => Claims' = InBatch
    BY TurnViews DEF InBatch
  <2>7. Work' \subseteq Work \cup {m}
    BY <1>6, <2>2, <2>3, <2>4, <2>5, <2>6 DEF Collected, Work
  <2> QED BY <1>3, <1>4, <1>6, <2>1, <2>7 DEF Collected
<1>7. CASE seen' = seen \cup {MessageKey(m)} /\ Commanded(m)
  <2>1. InLate' = InLate /\ Claims' = Claims
    BY <1>7 DEF Commanded, InLate, Claims
  <2>2. InBatch' \subseteq InBatch /\ InQueue' \subseteq InQueue
    BY <1>7, ShortSets DEF Commanded, InBatch, InQueue
  <2>3. Work' \subseteq Work
    BY <2>1, <2>2 DEF Work
  <2>4. Active' \subseteq Active \cup {m}
    BY <1>1, <1>7 DEF Commanded, Active
  <2>5. \A c \in Updates : dropped'[c] \subseteq dropped[c] \cup Work /\ (c # m => dropped'[c] = dropped[c])
    BY <1>1, <1>7 DEF Commanded, Work
  <2>6. Void' \subseteq Void \cup Work
    BY <2>5 DEF Void
  <2>7. MessageKey(m) = m
    BY <1>7 DEF MessageKey, Commanded, Ordered
  <2>8. VoidWaits'
    BY <1>1, <1>7, <2>5, <2>7 DEF VoidWaits, Commanded
  <2> QED BY <1>3, <2>3, <2>4, <2>6, <2>8
<1> QED BY <1>1, <1>5, <1>6, <1>7, Accepts

\* What is being downloaded, when a slot is emptied or taken.
LEMMA DownloadMoves ==
  ASSUME Types, NEW m \in Updates, NEW h \in Handlers,
         \/ slot' = slot \/ slot' = [slot EXCEPT ![h] = Idle]
         \/ slot' = [slot EXCEPT ![h] = [m |-> m, at |-> "downloading"]]
         \/ slot' = [slot EXCEPT ![h] = [m |-> m, at |-> "settling"]]
  PROVE  Downloading' \subseteq Downloading \cup {m}
<1>1. slot \in [Handlers -> SlotRecord]
  BY DEF Types, IntakeTypes
<1>2. CASE slot' = slot
  BY <1>2 DEF Downloading
<1>3. CASE slot' = [slot EXCEPT ![h] = Idle]
  BY <1>1, <1>3, Records, SlotChange
<1>4. ASSUME NEW at \in {"downloading", "settling"}, slot' = [slot EXCEPT ![h] = [m |-> m, at |-> at]]
      PROVE  Downloading' \subseteq Downloading \cup {m}
  <2>1. PICK r \in SlotRecord : r = [m |-> m, at |-> at] /\ r.m = m
    BY Records
  <2>2. slot' = [slot EXCEPT ![h] = r]
    BY <1>4, <2>1
  <2> QED BY <1>1, <2>1, <2>2, SlotChange
<1> QED BY <1>2, <1>3, <1>4

\* What a handler does to its slot.
LEMMA HandleMoves ==
  ASSUME Types, NEW m \in Updates, NEW h \in Handlers, Handle(m, h) \/ Accept(m, h)
  PROVE  \/ slot' = slot \/ slot' = [slot EXCEPT ![h] = Idle]
         \/ slot' = [slot EXCEPT ![h] = [m |-> m, at |-> "downloading"]]
         \/ slot' = [slot EXCEPT ![h] = [m |-> m, at |-> "settling"]]
BY DEF Handle, Accept

\* What a step of a handler takes comes from the pipe, and nothing else gets
\* into it.
LEMMA HandlersPipe ==
  ASSUME Types
  PROVE  /\ Dispatch => /\ queue # <<>> /\ Head(queue) \in Updates \cap ToSet(queue) /\ Pipe' \subseteq Pipe
                        /\ ToSet(queue) = {Head(queue)} \cup ToSet(queue')
                        /\ Hold(Head(queue)) \/ (Handle(Head(queue), "dispatcher") /\ startup' = startup)
         /\ ReleaseNext => /\ startup # <<>> /\ Head(startup) \in Updates \cap ToSet(startup) /\ Pipe' \subseteq Pipe
                           /\ ToSet(startup) = {Head(startup)} \cup ToSet(startup')
                           /\ Handle(Head(startup), "release")
         /\ \A h \in Handlers : Download(h) => /\ slot[h].m \in Updates \cap Downloading /\ Pipe' \subseteq Pipe
                                               /\ Accept(slot[h].m, h)
<1>1. queue \in Seq(Updates) /\ startup \in Seq(Updates) /\ "dispatcher" \in Handlers /\ "release" \in Handlers
  BY DEF Types, IntakeTypes, Handlers
<1>2. ASSUME NEW m \in Updates, NEW h \in Handlers, Handle(m, h) \/ Accept(m, h)
      PROVE  Downloading' \subseteq Downloading \cup {m}
  BY <1>2, HandleMoves, DownloadMoves
<1>3. ASSUME Dispatch
      PROVE  /\ queue # <<>> /\ Head(queue) \in Updates \cap ToSet(queue) /\ Pipe' \subseteq Pipe
             /\ ToSet(queue) = {Head(queue)} \cup ToSet(queue')
             /\ Hold(Head(queue)) \/ (Handle(Head(queue), "dispatcher") /\ startup' = startup)
  <2>1. queue # <<>> /\ queue' = Tail(queue)
    BY <1>3 DEF Dispatch
  <2>2. PICK m \in Updates : m = Head(queue) /\ m \in ToSet(queue) /\ ToSet(queue) = {m} \cup ToSet(queue')
    BY <1>1, <2>1, HeadAndTail
  <2>3. Hold(m) \/ (Handle(m, "dispatcher") /\ startup' = startup)
    BY <1>3, <2>2 DEF Dispatch
  <2>4. CASE Hold(m)
    <3>1. slot' = slot /\ (startup' = startup \/ startup' = Append(startup, m))
      BY <2>4 DEF Hold
    <3>2. ToSet(Append(startup, m)) = ToSet(startup) \cup {m}
      BY <1>1, AppendSet
    <3>3. Downloading' = Downloading
      BY <3>1 DEF Downloading
    <3>4. ToSet(startup') \subseteq ToSet(startup) \cup {m}
      BY <3>1, <3>2, Zenon
    <3> QED BY <2>1, <2>2, <2>3, <3>3, <3>4 DEF Pipe
  <2>5. CASE Handle(m, "dispatcher") /\ startup' = startup
    <3>1. Downloading' \subseteq Downloading \cup {m}
      BY <1>1, <1>2, <2>5
    <3> QED BY <2>1, <2>2, <2>3, <2>5, <3>1 DEF Pipe
  <2> QED BY <2>3, <2>4, <2>5
<1>4. ASSUME ReleaseNext
      PROVE  /\ startup # <<>> /\ Head(startup) \in Updates \cap ToSet(startup) /\ Pipe' \subseteq Pipe
             /\ ToSet(startup) = {Head(startup)} \cup ToSet(startup')
             /\ Handle(Head(startup), "release")
  <2>1. startup # <<>> /\ startup' = Tail(startup) /\ queue' = queue
    BY <1>4 DEF ReleaseNext, Busy
  <2>2. PICK m \in Updates : m = Head(startup) /\ m \in ToSet(startup) /\ ToSet(startup) = {m} \cup ToSet(startup')
    BY <1>1, <2>1, HeadAndTail
  <2>3. Handle(m, "release")
    BY <1>4, <2>2 DEF ReleaseNext
  <2>4. Downloading' \subseteq Downloading \cup {m}
    BY <1>1, <1>2, <2>3
  <2> QED BY <2>1, <2>2, <2>3, <2>4 DEF Pipe
<1>5. ASSUME NEW h \in Handlers, Download(h)
      PROVE  /\ slot[h].m \in Updates \cap Downloading /\ Pipe' \subseteq Pipe
             /\ Accept(slot[h].m, h)
  <2>1. UNCHANGED <<queue, startup>> /\ slot[h].at = "downloading" /\ Accept(slot[h].m, h)
    BY <1>5 DEF Download
  <2>2. PICK m \in Updates : m = slot[h].m /\ m \in Downloading
    BY <2>1 DEF Types, IntakeTypes, Downloading
  <2>3. Downloading' \subseteq Downloading \cup {m}
    BY <1>2, <2>1, <2>2
  <2> QED BY <2>1, <2>2, <2>3 DEF Pipe
<1> QED BY <1>3, <1>4, <1>5

\* An update is handled that is on record, if it has to be.
LEMMA HandleUnderWay ==
  ASSUME Types, kind' = kind, UnderWayIsRecorded, VoidWaits, Rows' = Rows,
         NEW m \in Updates, NEW h \in Handlers, Handle(m, h), Pipe' \subseteq Pipe,
         Wanted(m) => m \in Rows
  PROVE  VoidWaits' /\ UnderWayIsRecorded'
<1>1. CASE m \in Rows /\ Accept(m, h)
  BY <1>1, AcceptUnderWay
<1>2. CASE /\ UNCHANGED <<seen, work>>
           /\ InHand' \subseteq InHand \/ (m \in Rows /\ InHand' \subseteq InHand \cup {m})
  <2>1. Work' = Work /\ Void' = Void /\ Active' = Active /\ VoidWaits'
    BY <1>2 DEF work, Work, InBatch, InLate, InQueue, Claims, Void, Active, VoidWaits
  <2>2. UnderWay' \subseteq UnderWay \/ (m \in Rows /\ UnderWay' \subseteq UnderWay \cup {m})
    BY <1>2, <2>1 DEF UnderWay
  <2> QED BY <2>1, <2>2 DEF UnderWayIsRecorded, Wanted
<1>3. slot' = slot => InHand' = InHand
  BY DEF InHand
<1>4. slot' = [slot EXCEPT ![h] = Idle] => InHand' \subseteq InHand
  BY SlotMoves
<1>5. InHand' \subseteq InHand \cup {m}
  BY HandleMoves, SlotMoves
<1>6. CASE Completed(m) /\ slot' = [slot EXCEPT ![h] = Idle] /\ UNCHANGED <<seen, work>>
  BY <1>2, <1>4, <1>6
<1>7. CASE ~Authorized(m) /\ UNCHANGED <<seen, work>>
  BY <1>2, <1>5, <1>7 DEF Authorized, Wanted
<1>8. CASE kind[m] = "media" /\ UNCHANGED <<seen, work>>
  BY <1>2, <1>5, <1>8 DEF Wanted
<1>9. CASE kind[m] = "other" /\ UNCHANGED <<slot, seen, work>>
  BY <1>2, <1>3, <1>9
<1>10. CASE kind[m] # "other" /\ Accept(m, h)
  BY <1>1, <1>10 DEF Wanted
<1> QED BY <1>6, <1>7, <1>8, <1>9, <1>10 DEF Handle

\* A process that does not run holds nothing.
LEMMA OffStays ==
  ASSUME OffIsEmpty, Next
  PROVE  OffIsEmpty'
<1>1. CASE mode' # "off"
  BY <1>1 DEF OffIsEmpty
<1>2. CASE Gone
  <2>1. \A h \in Handlers : slot'[h].at = "idle"
    BY <1>2, IdleSlots DEF Gone
  <2> QED BY <1>2, <2>1 DEF OffIsEmpty, Gone
<1>3. CASE UNCHANGED <<mode, slot, heldClaims, enqueued>>
  BY <1>3 DEF OffIsEmpty
<1>4. CASE Poll \/ Record \/ Put \/ RecordFails \/ PollingFails
  BY <1>1, <1>4 DEF Poll, Record, Put, RecordFails, PollingFails, Running
<1>5. CASE \/ Dispatch \/ ReleaseNext \/ Flush
           \/ \E h \in Handlers : Download(h) \/ SettleUpdate(h) \/ UpdateFails(h)
  BY <1>1, <1>5 DEF Dispatch, ReleaseNext, Flush, Download, SettleUpdate, UpdateFails, Running, Busy
<1>6. CASE HandlerStep \/ Return \/ Raise
  BY <1>1, <1>6 DEF HandlerStep, Begin, Notify, Answer, Stopped, Fence, Finalize, Refuse,
       Return, Raise, HandlerFails, Running
<1>7. CASE \E m \in Updates : CommandStep(m) \/ CommandFails(m)
  BY <1>1, <1>7 DEF CommandStep, Clear, Reserve, Execute, Complete, CommandEnds, CommandFails, Running
<1>8. CASE \/ Start \/ Resume \/ RecordRecovered \/ Retire \/ RetireUnknown \/ Release
           \/ RecoveryBlocked \/ RecoveryFails \/ Released \/ StopIntake \/ IntakeClosed \/ Drained
  BY <1>1, <1>8 DEF Start, Resume, RecordRecovered, Retire, RetireUnknown, Release,
       RecoveryBlocked, RecoveryFails, FailsClosed, Released, StopIntake, IntakeClosed, Drained, Running
<1>9. CASE Exit \/ Abort \/ Crash
  BY <1>2, <1>9, Zenon DEF Exit, Abort, Crash
<1>10. CASE Revoke \/ Prune
  BY <1>3, <1>10 DEF Revoke, Prune, inflow
<1> QED BY Zenon, <1>4, <1>5, <1>6, <1>7, <1>8, <1>9, <1>10 DEF Next, Progress, Trouble

\* Nothing new is under way.
LEMMA UnderWayRests ==
  ASSUME kind' = kind, Rows \subseteq Rows', UnderWayIsRecorded,
         UnderWay' \subseteq UnderWay, Work' \subseteq Work,
         \A x \in Pipe' : x \in Pipe \/ x \in Rows' \/ ~Wanted(x)
  PROVE  UnderWayIsRecorded'
BY DEF UnderWayIsRecorded, Wanted

\* Where nothing waits or is handled otherwise.
LEMMA UnderWaySame ==
  ASSUME UNCHANGED <<slot, seen, work>>
  PROVE  UnderWay' = UnderWay /\ Work' = Work /\ (VoidWaits => VoidWaits')
BY DEF work, UnderWay, Work, InBatch, InLate, InQueue, Claims, Void, Active, InHand, VoidWaits

\* A process that ends leaves nothing under way.
LEMMA GoneUnderWay ==
  ASSUME Gone PROVE UnderWayIsRecorded' /\ VoidWaits'
<1>1. Work' = {} /\ ToSet(queue') = {} /\ ToSet(startup') = {}
  BY ShortSets DEF Gone, Work, InBatch, InLate, InQueue, Claims, NoTurn
<1>2. InHand' = {} /\ Downloading' = {}
  BY IdleSlots DEF Gone, InHand
<1>3. Void' = {} /\ Active' = {} /\ VoidWaits'
  BY DEF Gone, Void, Active, VoidWaits
<1> QED BY <1>1, <1>2, <1>3 DEF UnderWayIsRecorded, UnderWay, Pipe

\* Every step keeps what is on record.
LEMMA StepOnRecord ==
  ASSUME Types, OnTheWay, Standing, Answering, OnRecord, Next
  PROVE  OnRecord'
<1>1. /\ Polled /\ WorkApart /\ RecordedSoFar /\ OffIsEmpty /\ VoidWaits /\ UnderWayIsRecorded
  BY DEF OnTheWay, Answering, OnRecord
<1>2. kind' = kind /\ Rows \subseteq Rows' /\ (Record \/ Rows' = Rows)
  BY <1>1, RowsStay
<1> DEFINE Goal == VoidWaits' /\ UnderWayIsRecorded'
<1>3. CASE Resting
  <2>1. UnderWay' \subseteq UnderWay /\ Work' \subseteq Work /\ Pipe' \subseteq Pipe /\ VoidWaits'
    BY <1>1, <1>3, RestingUnderWay
  <2> QED BY <1>1, <1>2, <2>1, UnderWayRests, RecordedStays, OffStays DEF OnRecord
<1>4. ASSUME Record PROVE Goal
  <2>1. UNCHANGED <<slot, seen, work, startup>> /\ fetched # <<>>
    BY <1>4 DEF Record
  <2>2. PICK m \in Updates : m = Head(fetched)
    BY <2>1, HeadAndTail DEF Types, ServerTypes
  <2>3. queue' = queue \/ (queue' = Append(queue, m) /\ ~Wanted(m))
    BY <1>4, <2>2 DEF Record
  <2>4. Downloading' = Downloading
    BY <2>1 DEF Downloading
  <2>5. ToSet(Append(queue, m)) = ToSet(queue) \cup {m}
    BY AppendSet DEF Types, IntakeTypes
  <2>6. \A x \in Pipe' : x \in Pipe \/ ~Wanted(x)
    BY <2>1, <2>3, <2>4, <2>5, Zenon DEF Pipe
  <2> QED BY <1>1, <1>2, <2>1, <2>6, UnderWaySame, UnderWayRests
<1>5. ASSUME Put PROVE Goal
  <2>1. UNCHANGED <<slot, seen, work, startup, spool>> /\ putting # Nobody
    BY <1>5 DEF Put, durable
  <2>2. PICK m \in Updates : m = putting.m /\ spool[m] # "none"
    BY <1>1, <2>1, HeadAndTail DEF Polled, Types, ServerTypes
  <2>3. queue' = queue \/ queue' = Append(queue, m)
    BY <1>5, <2>2 DEF Put
  <2>4. Downloading' = Downloading
    BY <2>1 DEF Downloading
  <2>5. ToSet(Append(queue, m)) = ToSet(queue) \cup {m}
    BY AppendSet DEF Types, IntakeTypes
  <2>6. \A x \in Pipe' : x \in Pipe \/ x = m
    BY <2>1, <2>3, <2>4, <2>5, Zenon DEF Pipe
  <2>7. m \in Rows'
    BY <2>1, <2>2 DEF Rows
  <2> QED BY <1>1, <1>2, <2>1, <2>6, <2>7, UnderWaySame, UnderWayRests
<1>6. ASSUME Dispatch PROVE Goal
  <2>1. PICK m \in Updates : m = Head(queue) /\ m \in Pipe
    BY <1>6, HandlersPipe DEF Pipe
  <2>2. Pipe' \subseteq Pipe /\ (Hold(m) \/ Handle(m, "dispatcher"))
    BY <1>6, <2>1, HandlersPipe
  <2>3. Rows' = Rows
    BY <1>6 DEF Dispatch, durable, Rows
  <2>4. CASE Hold(m)
    <3>1. UNCHANGED <<slot, seen, work>>
      BY <2>4 DEF Hold
    <3> QED BY <1>1, <1>2, <2>2, <3>1, UnderWaySame, UnderWayRests
  <2>5. CASE Handle(m, "dispatcher")
    <3>1. "dispatcher" \in Handlers
      BY DEF Handlers
    <3>2. Wanted(m) => m \in Rows
      BY <1>1, <2>1 DEF UnderWayIsRecorded
    <3> QED BY <1>1, <1>2, <2>2, <2>3, <2>5, <3>1, <3>2, HandleUnderWay
  <2> QED BY <2>2, <2>4, <2>5
<1>7. ASSUME ReleaseNext PROVE Goal
  <2>1. PICK m \in Updates : m = Head(startup) /\ m \in Pipe
    BY <1>7, HandlersPipe DEF Pipe
  <2>2. Pipe' \subseteq Pipe /\ Handle(m, "release") /\ "release" \in Handlers
    BY <1>7, <2>1, HandlersPipe DEF Handlers
  <2>3. Rows' = Rows
    BY <1>7 DEF ReleaseNext, durable, Rows
  <2>4. Wanted(m) => m \in Rows
    BY <1>1, <2>1 DEF UnderWayIsRecorded
  <2> QED BY <1>1, <1>2, <2>2, <2>3, <2>4, HandleUnderWay
<1>8. ASSUME NEW h \in Handlers, Download(h) PROVE Goal
  <2>1. Rows' = Rows
    BY <1>8 DEF Download, durable, Rows
  <2>2. PICK m \in Updates : m = slot[h].m /\ m \in Downloading /\ Accept(m, h) /\ Pipe' \subseteq Pipe
    BY <1>8, HandlersPipe
  <2>3. m \in Rows
    BY <1>1, <2>2 DEF UnderWayIsRecorded, UnderWay, Downloading, InHand
  <2> QED BY <1>1, <1>2, <2>1, <2>2, <2>3, AcceptUnderWay
<1>9. ASSUME Start PROVE Goal
  <2>1. UNCHANGED <<slot, seen, work, startup>> /\ (queue' = queue \/ ToSet(queue') \subseteq Pending)
    BY <1>9 DEF Start, Replay, Ascending
  <2>2. Downloading' = Downloading
    BY <2>1 DEF Downloading
  <2>3. \A x \in Pipe' : x \in Pipe \/ x \in Rows
    BY <2>1, <2>2 DEF Pipe, Pending, Rows
  <2> QED BY <1>1, <1>2, <2>1, <2>3, UnderWaySame, UnderWayRests
<1>10. CASE Exit \/ Abort \/ Crash
  <2>1. Gone
    BY <1>10, Zenon DEF Exit, Abort, Crash
  <2> QED BY <1>1, <2>1, GoneUnderWay, RecordedStays, OffStays DEF OnRecord
<1>11. Goal => OnRecord'
  BY <1>1, RecordedStays, OffStays DEF OnRecord
<1> HIDE DEF Goal
<1> QED BY Zenon, <1>3, <1>4, <1>5, <1>6, <1>7, <1>8, <1>9, <1>10, <1>11 DEF Next, Progress, Trouble, Resting

-----------------------------------------------------------------------------
(* The line of what is owed.                                               *)

\* What a step leaves alone that neither records nor puts, of a process that
\* takes updates before and after it.
Calm ==
    /\ kind' = kind /\ Rows' = Rows /\ putting' = putting /\ enqueued' \subseteq enqueued
    /\ \A m \in Updates : spool'[m] = "pending" =>
           spool[m] = "pending" /\ (m \in enqueued => m \in enqueued')

\* They do.
LEMMA CalmStep ==
  ASSUME Types, SettledOnRecord, UnderWayIsRecorded, Next, Taking', ~Start, ~Record, ~Put
  PROVE  Calm
<1>1. /\ kind' = kind /\ Rows' = Rows
      /\ \A m \in Updates : spool'[m] = "pending" => spool[m] = "pending"
  BY RowsStay
<1> DEFINE Kept == /\ enqueued' \subseteq enqueued
                   /\ \A m \in Updates : spool'[m] = "pending" /\ m \in enqueued => m \in enqueued'
           Goal == putting' = putting /\ Kept
<1>2. enqueued' = enqueued => Kept
  OBVIOUS
<1>3. (\E claims : Completes(claims)) => Kept
  BY DEF Completes
<1>4. ASSUME UNCHANGED spool,
             enqueued' = enqueued \/ \E m : enqueued' = enqueued \ {m} /\ m \in cached
      PROVE  Kept
  BY <1>4 DEF SettledOnRecord, Types, IntakeTypes
<1> HIDE DEF Kept
<1>5. CASE mode' \in {"off", "closing", "draining", "leaving"} \/ failed'
  BY <1>5 DEF Taking, Stopping
<1>6. ASSUME \/ Poll \/ Flush \/ RecordFails \/ PollingFails \/ Revoke \/ Prune
             \/ \E h \in Handlers : Download(h) \/ UpdateFails(h)
      PROVE  Goal
  BY <1>2, <1>6 DEF Poll, Flush, RecordFails, PollingFails, Revoke, Prune, Download, UpdateFails,
       server, inflow
<1>7. ASSUME Dispatch \/ ReleaseNext PROVE Goal
  <2>1. UNCHANGED <<putting, spool, cached>>
    BY <1>7 DEF Dispatch, ReleaseNext, server, durable
  <2>2. enqueued' = enqueued \/ \E m : enqueued' = enqueued \ {m} /\ m \in cached
    BY <1>7 DEF Dispatch, ReleaseNext, Hold, Handle, Completed
  <2> QED BY <1>4, <2>1, <2>2
<1>8. ASSUME \E h \in Handlers : SettleUpdate(h) PROVE Goal
  BY <1>3, <1>8 DEF SettleUpdate, server
<1>9. ASSUME HandlerStep \/ Return \/ Raise PROVE Goal
  BY <1>2, <1>3, <1>9 DEF HandlerStep, Begin, Notify, Answer, Stopped, Fence, Finalize, Refuse,
       Return, Raise, HandlerFails, server, inflow
<1>10. ASSUME NEW m \in Updates, CommandStep(m) \/ CommandFails(m) PROVE Goal
  BY <1>2, <1>3, <1>10 DEF CommandStep, Clear, Reserve, Execute, Complete, CommandEnds,
       CommandFails, server, inflow
<1>11. ASSUME \/ Resume \/ RecordRecovered \/ Retire \/ RetireUnknown \/ Release
              \/ RecoveryBlocked \/ RecoveryFails \/ Released
       PROVE  Goal
  BY <1>2, <1>3, <1>11 DEF Resume, RecordRecovered, Retire, RetireUnknown, Release,
       RecoveryBlocked, RecoveryFails, FailsClosed, Released, server, inflow
<1>12. CASE StopIntake \/ IntakeClosed \/ Drained \/ Exit \/ Abort \/ Crash
  BY <1>5, <1>12 DEF StopIntake, IntakeClosed, Drained, Exit, Abort, Crash, Gone
<1>13. Goal => Calm
  BY <1>1 DEF Calm, Kept
<1> QED BY Zenon, <1>6, <1>7, <1>8, <1>9, <1>10, <1>11, <1>12, <1>13 DEF Next, Progress, Trouble

\* Nothing comes to be owed, or to be out of order.
LEMMA OwedLess ==
  ASSUME Calm
  PROVE  /\ TextRows' = TextRows /\ Owed' \subseteq Owed /\ Misordered' \subseteq Misordered
         /\ \A m \in Owed' : m \in enqueued => m \in enqueued'
<1>1. TextRows' = TextRows /\ Owed' \subseteq Owed
  BY DEF Calm, TextRows, Owed, Rows
<1> QED BY <1>1 DEF Calm, Misordered, Owed, TextRows, Rows

\* What such a step has to show of what is owed.
LEMMA CalmLine ==
  ASSUME Types, Polled, Calm, Line,
         Owed' \cap Places \subseteq Places',
         Owed' \cap ToSet(queue) \subseteq Places' \cup ToSet(queue'),
         heldClaims' \subseteq heldClaims \cup Places', heldClaims' \subseteq heldClaims \cup Rows
  PROVE  PutIsLast' /\ OwedIsEnqueued' /\ OwedIsKept'
<1>1. Owed' \subseteq Owed /\ \A m \in Owed' : m \in enqueued => m \in enqueued'
  BY OwedLess
<1>2. PutIsLast'
  <2>1. SUFFICES ASSUME putting # Nobody, putting.m \notin enqueued', putting.m \in Owed'
                 PROVE  \A n \in Rows : n <= putting.m
    BY DEF Calm, PutIsLast
  <2>2. putting.m \notin enqueued /\ putting.m \in Owed
    BY <1>1, <2>1
  <2> QED BY <2>1, <2>2 DEF Line, PutIsLast
<1>3. OwedIsEnqueued'
  BY <1>1 DEF Calm, Line, OwedIsEnqueued
<1>4. OwedIsKept'
  BY <1>1 DEF Calm, Line, OwedIsKept
<1> QED BY <1>2, <1>3, <1>4

\* A step that takes nothing from the queue and sends nothing on.
LEMMA QuietLine ==
  ASSUME Types, Polled, Calm, Line, UNCHANGED <<queue, startup, batch, queued, heldClaims>>,
         Downloading' \subseteq Downloading, InHand' \subseteq InHand,
         Owed' \cap Places \subseteq Places', QueuedWaits', TextBehindGate'
  PROVE  Line'
<1>1. PutIsLast' /\ OwedIsEnqueued' /\ OwedIsKept'
  BY CalmLine
<1>2. Misordered' \subseteq Misordered /\ Owed' \subseteq Owed
  BY OwedLess
<1>3. FreeOf(Misordered) /\ AheadIsFirst
  BY DEF Line, AheadIsFirst
<1>4. NoPair(queue', Misordered') /\ NoPair(startup', Misordered')
  BY <1>2, <1>3, PairsWeaker DEF FreeOf
<1>5. FreeOf(Misordered)'
  BY <1>2, <1>3, <1>4 DEF FreeOf
<1>6. InBatch' = InBatch /\ InQueue' = InQueue /\ Pipe' \cup InHand' \subseteq Pipe \cup InHand
  BY DEF InBatch, InQueue, Pipe
<1>7. AheadIsFirst'
  BY <1>2, <1>3, <1>5, <1>6 DEF AheadIsFirst
<1> QED BY <1>1, <1>7 DEF Line

\* What of the rest they leave as it is.
LEMMA Untouched ==
  ASSUME UNCHANGED <<startup, slot, batch, queued, dropped>>, Claims' = Claims
  PROVE  Places' = Places /\ InHand' = InHand /\ Downloading' = Downloading
BY DEF Places, InHand, InBatch, InQueue, Void, Downloading

\* The steps of a turn but its end, of recovery, and of polling.
LEMMA QuietTurns ==
  ASSUME Types, OnTheWay, Calm, Line, Taking', ~Refuse,
         \/ Poll \/ HandlerStep
         \/ Resume \/ RecordRecovered \/ Retire \/ RetireUnknown \/ Release
  PROVE  Line'
<1>1. UNCHANGED <<queue, startup, slot, batch, queued, heldClaims, dropped, cmd>>
  BY DEF Poll, HandlerStep, Begin, Notify, Answer, Stopped, Fence, Finalize,
     Resume, RecordRecovered, Retire, RetireUnknown, Release, inflow, work
<1>2. Claims' = Claims /\ (turn' = turn \/ turn'.at # "none")
  <2>1. turn' = turn \/ \E ph \in TurnPhases \ {"none"} : At(ph)
    BY DEF Poll, HandlerStep, Begin, Notify, Answer, Stopped, Fence, Finalize,
       Resume, RecordRecovered, Retire, RetireUnknown, Release, work, TurnPhases
  <2> QED BY <2>1, TurnViews DEF Types
<1>3. mode' = mode \/ mode # "up"
  BY DEF Poll, HandlerStep, Begin, Notify, Answer, Stopped, Fence, Finalize,
     Resume, RecordRecovered, Retire, RetireUnknown, Release
<1>4. Places' = Places /\ InHand' = InHand /\ Downloading' = Downloading
  BY <1>1, <1>2, Untouched
<1>5. QueuedWaits'
  <2>1. Gate' = Gate
    BY <1>1 DEF Gate, Active, Calm
  <2>2. turn' # NoTurn \/ turn = NoTurn
    BY <1>2 DEF NoTurn
  <2> QED BY <1>1, <2>1, <2>2 DEF Line, QueuedWaits
<1>6. TextBehindGate'
  BY <1>1, <1>3 DEF Line, TextBehindGate, Calm
<1> QED BY <1>1, <1>4, <1>5, <1>6, QuietLine DEF OnTheWay

\* An update is settled.
LEMMA QuietSettles ==
  ASSUME Types, OnTheWay, Calm, Line, NEW h \in Handlers, SettleUpdate(h)
  PROVE  Line'
<1>1. UNCHANGED <<queue, startup, batch, queued, heldClaims, dropped, cmd, turn, mode>>
      /\ slot' = [slot EXCEPT ![h] = Idle] /\ Completes({slot[h].m})
  BY DEF SettleUpdate, work
<1>2. slot \in [Handlers -> SlotRecord] /\ Idle \in SlotRecord /\ Idle.at = "idle"
  BY Records DEF Types, IntakeTypes
<1>3. /\ InHand' \subseteq InHand /\ InHand \subseteq InHand' \cup {slot[h].m}
      /\ Downloading' \subseteq Downloading
      /\ slot'["dispatcher"] \in {slot["dispatcher"], Idle}
  <2>1. InHand' \subseteq InHand /\ InHand \subseteq InHand' \cup {slot[h].m} /\ Downloading' \subseteq Downloading
    BY <1>1, <1>2, HandChange, SlotChange
  <2> QED BY <1>1, <1>2, <2>1 DEF Handlers
<1>4. slot[h].m \notin Owed'
  BY <1>1 DEF Completes, Owed, TextRows, Rows
<1>5. Claims' = Claims /\ Void' = Void /\ InBatch' = InBatch /\ InQueue' = InQueue /\ Gate' = Gate
  BY <1>1 DEF Claims, Void, InBatch, InQueue, Gate, Active, Calm
<1>6. Owed' \cap Places \subseteq Places'
  BY <1>1, <1>3, <1>4, <1>5 DEF Places
<1>7. QueuedWaits'
  BY <1>1, <1>5 DEF Line, QueuedWaits
<1>8. TextBehindGate'
  BY <1>1, <1>2, <1>3 DEF Line, TextBehindGate, Calm
<1> QED BY <1>1, <1>3, <1>6, <1>7, <1>8, QuietLine DEF OnTheWay

\* A command goes on, or ends and lets nothing go.
LEMMA QuietCommands ==
  ASSUME Types, OnTheWay, VoidWaits, Calm, Line, Taking, NEW m \in Updates, CommandStep(m),
         CommandEnds(m) => ~LetsGo(m)
  PROVE  Line'
<1>1. UNCHANGED <<queue, startup, slot, batch, queued, turn, heldClaims, mode>>
  BY DEF CommandStep, Clear, Reserve, Execute, Complete, CommandEnds, TaskEnds, inflow
<1>2. Claims' = Claims /\ InBatch' = InBatch /\ InQueue' = InQueue /\ InHand' = InHand /\ Downloading' = Downloading
  BY <1>1 DEF Claims, InBatch, InQueue, InHand, Downloading
<1>3. dropped \in [Updates -> SUBSET Updates] /\ cmd \in [Updates -> CmdPhases]
  BY DEF Types, WorkTypes
<1>4. Owed' \cap Void \subseteq Void'
  <2>1. \/ dropped' = dropped
        \/ /\ dropped' = [dropped EXCEPT ![m] = {}]
           /\ dropped[m] = {} \/ Completes(dropped[m])
    BY DEF CommandStep, Clear, Reserve, Execute, Complete, CommandEnds, TaskEnds, VoidWaits
  <2>2. CASE dropped' = dropped
    BY <2>2 DEF Void
  <2>3. CASE dropped' = [dropped EXCEPT ![m] = {}] /\ (dropped[m] = {} \/ Completes(dropped[m]))
    <3>1. Owed' \cap dropped[m] = {}
      BY <2>3 DEF Completes, Owed, TextRows, Rows
    <3>2. \A c \in Updates : c # m => dropped'[c] = dropped[c]
      BY <1>3, <2>3
    <3> QED BY <3>1, <3>2 DEF Void
  <2> QED BY <2>1, <2>2, <2>3
<1>5. Owed' \cap Places \subseteq Places'
  BY <1>1, <1>2, <1>4 DEF Places
<1>6. QueuedWaits'
  <2>1. CASE CommandEnds(m)
    <3>1. cmd' = [cmd EXCEPT ![m] = "none"] /\ cmd[m] = "saved"
      BY <2>1 DEF CommandEnds, TaskEnds, Step
    <3>2. Gate \ {m} \subseteq Gate'
      BY <1>3, <3>1 DEF Gate, Active, Calm
    <3>3. Gate \subseteq {m} => Gate = {} \/ (kind[m] \in Ordered /\ Gate = {m})
      BY DEF Gate
    <3> QED BY <1>1, <2>1, <3>2, <3>3 DEF Line, QueuedWaits, LetsGo, Taking
  <2>2. CASE Clear(m) \/ Reserve(m) \/ Execute(m) \/ Complete(m)
    <3>1. cmd[m] # "none" /\ (cmd' = cmd \/ \E ph \in CmdPhases \ {"none"} : cmd' = [cmd EXCEPT ![m] = ph])
      BY <2>2 DEF Clear, Reserve, Execute, Complete, Ready, Step, CmdPhases
    <3>2. Gate' = Gate
      BY <1>3, <3>1 DEF Gate, Active, Calm
    <3> QED BY <1>1, <3>2 DEF Line, QueuedWaits
  <2> QED BY <2>1, <2>2 DEF CommandStep
<1>7. TextBehindGate'
  BY <1>1 DEF Line, TextBehindGate, Calm
<1> QED BY <1>1, <1>2, <1>5, <1>6, <1>7, QuietLine DEF OnTheWay

\* A step that sends on what waits.
LEMMA MovesLine ==
  ASSUME Types, Polled, Calm, Line, UNCHANGED <<queue, startup, slot, heldClaims, mode>>,
         Owed' \cap Void \subseteq Void',
         InBatch' \subseteq InBatch, InQueue' \subseteq InQueue \cup InBatch,
         InBatch' = {} \/ InQueue' \subseteq InQueue,
         Owed' \cap (InBatch \cup InQueue \cup Claims) \subseteq InBatch' \cup InQueue' \cup Claims',
         QueuedWaits'
  PROVE  Line'
<1>1. InHand' = InHand /\ Downloading' = Downloading /\ Pipe' = Pipe
  BY DEF InHand, Downloading, Pipe
<1>2. Misordered' \subseteq Misordered /\ Owed' \subseteq Owed
  BY OwedLess
<1>3. Owed' \cap Places \subseteq Places'
  BY <1>1 DEF Places
<1>4. PutIsLast' /\ OwedIsEnqueued' /\ OwedIsKept'
  BY <1>3, CalmLine
<1>5. FreeOf(Misordered) /\ AheadIsFirst
  BY DEF Line, AheadIsFirst
<1>6. NoPair(queue', Misordered') /\ NoPair(startup', Misordered')
  BY <1>2, <1>5, PairsWeaker DEF FreeOf
<1>7. FreeOf(Misordered)'
  BY <1>1, <1>2, <1>5, <1>6 DEF FreeOf
<1>8. AheadIsFirst'
  BY <1>1, <1>2, <1>5, <1>7 DEF AheadIsFirst
<1>9. TextBehindGate'
  BY DEF Line, TextBehindGate, Calm
<1> QED BY <1>4, <1>8, <1>9 DEF Line

\* The end of the quiet period.
LEMMA FlushLine ==
  ASSUME Types, OnTheWay, Calm, Line, Flush
  PROVE  Line'
<1>1. /\ UNCHANGED <<queue, startup, slot, heldClaims, mode, cmd, dropped>>
      /\ QueueTurn(batch) /\ batch' = <<>>
  BY DEF Flush, inflow
<1>2. Void' = Void /\ Gate' = Gate /\ InBatch' = {}
  BY <1>1, ShortSets DEF Void, Gate, Active, Calm, InBatch
<1>3. queued \in Seq(Updates) /\ batch \in Seq(Updates)
  BY DEF Types, WorkTypes
<1>4. \/ turn' = turn /\ InQueue' = InQueue \cup InBatch
      \/ turn = NoTurn /\ turn' = NewTurn(batch) /\ queued' = queued /\ InQueue' = InQueue
  BY <1>1, <1>3, QueueEffect DEF InBatch
<1>5. InQueue' \subseteq InQueue \cup InBatch
      /\ Owed' \cap (InBatch \cup InQueue \cup Claims) \subseteq InBatch' \cup InQueue' \cup Claims'
  <2>1. CASE turn' = turn /\ InQueue' = InQueue \cup InBatch
    BY <2>1, TurnViews
  <2>2. CASE turn = NoTurn /\ turn' = NewTurn(batch) /\ InQueue' = InQueue
    BY <2>2, TurnViews DEF InBatch
  <2> QED BY <1>4, <2>1, <2>2
<1>6. QueuedWaits'
  <2>1. turn # NoTurn \/ Gate # {} => turn' # NoTurn \/ Gate' # {}
    BY <1>1, <1>2 DEF QueueTurn
  <2>2. turn = NoTurn /\ Gate = {} => turn' # NoTurn
    BY <1>1 DEF QueueTurn, NewTurn, NoTurn
  <2> QED BY <2>1, <2>2 DEF QueuedWaits
<1> QED BY <1>1, <1>2, <1>5, <1>6, MovesLine DEF OnTheWay

\* What waited in the queue gets its turn.
LEMMA GoesLine ==
  ASSUME Types, OnTheWay, Calm, Line, UNCHANGED <<queue, startup, slot, heldClaims, mode, batch>>,
         Owed' \cap Void \subseteq Void', Owed' \cap Claims = {},
         \/ turn' = NewTurn(queued) /\ queued' = <<>>
         \/ queued' = queued /\ (Gate' # {} \/ queued = <<>>)
  PROVE  Line'
<1>1. InBatch' = InBatch
  BY DEF InBatch
<1>2. CASE turn' = NewTurn(queued) /\ queued' = <<>>
  <2>1. Claims' = InQueue /\ InQueue' = {}
    BY <1>2, TurnViews, ShortSets DEF InQueue
  <2>2. QueuedWaits'
    BY <1>2 DEF QueuedWaits
  <2>3. /\ InBatch' \subseteq InBatch /\ InQueue' \subseteq InQueue
        /\ Owed' \cap (InBatch \cup InQueue \cup Claims) \subseteq InBatch' \cup InQueue' \cup Claims'
    BY <1>1, <2>1
  <2> QED BY <2>2, <2>3, MovesLine DEF OnTheWay
<1>3. CASE queued' = queued /\ (Gate' # {} \/ queued = <<>>)
  <2>1. InQueue' = InQueue
    BY <1>3 DEF InQueue
  <2>2. QueuedWaits'
    BY <1>3 DEF QueuedWaits
  <2>3. /\ InBatch' \subseteq InBatch /\ InQueue' \subseteq InQueue
        /\ Owed' \cap (InBatch \cup InQueue \cup Claims) \subseteq InBatch' \cup InQueue' \cup Claims'
    BY <1>1, <2>1
  <2> QED BY <2>2, <2>3, MovesLine DEF OnTheWay
<1> QED BY <1>2, <1>3

\* A turn ends.
LEMMA ReturnLine ==
  ASSUME Types, OnTheWay, Calm, Line, Taking, Return
  PROVE  Line'
<1>1. /\ UNCHANGED <<queue, startup, slot, heldClaims, mode, batch, cmd, dropped>>
      /\ Completes(Claims) /\ Continue /\ ~failed
  BY DEF Return, Taking
<1>2. Void' = Void /\ Gate' = Gate
  BY <1>1 DEF Void, Gate, Active, Calm
<1>3. Owed' \cap Claims = {}
  BY <1>1 DEF Completes, Owed, TextRows, Rows
<1>4. \/ turn' = NewTurn(queued) /\ queued' = <<>>
      \/ queued' = queued /\ (Gate' # {} \/ queued = <<>>)
  BY <1>1, <1>2 DEF Continue
<1> QED BY <1>1, <1>2, <1>3, <1>4, GoesLine

\* A command lets go what waited for it.
LEMMA LetsGoLine ==
  ASSUME Types, OnTheWay, VoidWaits, Calm, Line, Taking, NEW m \in Updates, CommandEnds(m), LetsGo(m)
  PROVE  Line'
<1>1. /\ UNCHANGED <<queue, startup, slot, heldClaims, mode, batch, failed>>
      /\ turn' = NewTurn(queued) /\ queued' = <<>> /\ turn = NoTurn
      /\ dropped' = [dropped EXCEPT ![m] = {}]
  BY DEF CommandEnds, TaskEnds, LetsGo, Taking
<1>2. dropped[m] = {}
  BY DEF CommandEnds, VoidWaits
<1>3. Void' = Void
  BY <1>1, <1>2 DEF Void, Types, WorkTypes
<1>4. Claims = {}
  BY <1>1, TurnViews
<1> QED BY <1>1, <1>3, <1>4, GoesLine

\* A handler takes m, which is next.
Takes(m, h) ==
    /\ m \in Pipe /\ (slot[h].at = "idle" \/ slot[h].m = m)
    /\ UNCHANGED <<heldClaims, mode>> /\ Pipe' \subseteq Pipe
    /\ ToSet(queue) \subseteq ToSet(queue') \cup {m} /\ ToSet(startup) \subseteq ToSet(startup') \cup {m}
    /\ FreeOf(Misordered)'

\* Messages pass the dispatcher behind the opened gate, and nothing that is owed
\* an answer is ahead of one that does.
Leads(m, h) ==
    kind[m] \in Texts => /\ h = "dispatcher" => mode = "up"
                         /\ \A y \in Pipe' \cup InHand' : y \in Owed' => m <= y

\* What becomes of it.
LEMMA TakenLine ==
  ASSUME Types, OnTheWay, Calm, Line, NEW m \in Updates, NEW h \in Handlers, Takes(m, h),
         \/ slot' = slot \/ slot' = [slot EXCEPT ![h] = Idle]
         \/ slot' = [slot EXCEPT ![h] = [m |-> m, at |-> "downloading"]]
         \/ slot' = [slot EXCEPT ![h] = [m |-> m, at |-> "settling"]],
         m \in Owed' => m \in InHand' \cup InBatch',
         Owed' \cap (InBatch \cup InQueue \cup Claims \cup Void)
             \subseteq InBatch' \cup InQueue' \cup Claims' \cup Void',
         \A x \in InBatch' \cup InQueue' :
             x \in InBatch \cup InQueue \/ (x = m /\ kind[m] \in Texts /\ Leads(m, h)),
         Leads(m, h) \/ slot' = [slot EXCEPT ![h] = Idle],
         \A x \in InQueue', y \in InBatch' : y \in Owed' => x <= y,
         QueuedWaits'
  PROVE  Line'
<1>1. /\ InHand' \subseteq InHand \cup {m} /\ InHand \subseteq InHand' \cup {m}
  <2>1. InHand' \subseteq InHand \cup {m} /\ InHand \subseteq InHand' \cup {slot[h].m}
        /\ (slot[h].at = "idle" => InHand \subseteq InHand')
    BY SlotMoves
  <2> QED BY <2>1 DEF Takes
<1>2. /\ Owed' \cap Places \subseteq Places'
      /\ Owed' \cap ToSet(queue) \subseteq Places' \cup ToSet(queue')
  BY <1>1 DEF Places, Takes
<1>3. PutIsLast' /\ OwedIsEnqueued' /\ OwedIsKept'
  <2>1. heldClaims' \subseteq heldClaims \cup Places'
    BY DEF Takes
  <2> QED BY <1>2, <2>1, CalmLine DEF OnTheWay, Takes
<1>4. AheadIsFirst'
  <2>1. Owed' \subseteq Owed
    BY OwedLess
  <2>2. \A x \in InBatch \cup InQueue, y \in Pipe' \cup InHand' : y \in Owed' => x <= y
    <3>1. \A x \in InBatch \cup InQueue, y \in Pipe \cup InHand : y \in Owed => x <= y
      BY DEF Line, AheadIsFirst
    <3>2. Pipe' \cup InHand' \subseteq Pipe \cup InHand
      BY <1>1 DEF Takes
    <3> QED BY <2>1, <3>1, <3>2
  <2>3. \A x \in InBatch' \cup InQueue', y \in Pipe' \cup InHand' : y \in Owed' => x <= y
    BY <2>2 DEF Leads
  <2>4. FreeOf(Misordered)'
    BY DEF Takes
  <2> QED BY <2>3, <2>4 DEF AheadIsFirst
<1>5. TextBehindGate'
  <2>1. slot \in [Handlers -> SlotRecord] /\ kind' = kind /\ mode' = mode
    BY DEF Types, IntakeTypes, Takes, Calm
  <2>2. CASE slot' = slot
    BY <2>1, <2>2 DEF Line, TextBehindGate
  <2>3. ASSUME slot' = [slot EXCEPT ![h] = Idle] PROVE TextBehindGate'
    <3>1. slot'["dispatcher"] = slot["dispatcher"] \/ slot'["dispatcher"] = Idle
      BY <2>1, <2>3 DEF Handlers
    <3> QED BY <2>1, <3>1, Records DEF Line, TextBehindGate
  <2>4. ASSUME NEW at \in {"downloading", "settling"}, slot' = [slot EXCEPT ![h] = [m |-> m, at |-> at]],
               Leads(m, h)
        PROVE  TextBehindGate'
    <3>1. PICK r \in SlotRecord : r = [m |-> m, at |-> at] /\ r.m = m
      BY Records
    <3>2. slot'["dispatcher"] = slot["dispatcher"] \/ (h = "dispatcher" /\ slot'["dispatcher"] = r)
      BY <2>1, <2>4, <3>1 DEF Handlers
    <3>3. kind[m] \in Texts /\ h = "dispatcher" => mode = "up"
      BY <2>4 DEF Leads
    <3> QED BY <2>1, <3>1, <3>2, <3>3 DEF Line, TextBehindGate
  <2> QED BY <2>2, <2>3, <2>4
<1> QED BY <1>3, <1>4, <1>5 DEF Line

\* It stays in hand, or is done.
LEMMA KeptInHand ==
  ASSUME Types, OnTheWay, Calm, Line, NEW m \in Updates, NEW h \in Handlers, Takes(m, h),
         \/ slot' = slot \/ slot' = [slot EXCEPT ![h] = Idle]
         \/ slot' = [slot EXCEPT ![h] = [m |-> m, at |-> "downloading"]]
         \/ slot' = [slot EXCEPT ![h] = [m |-> m, at |-> "settling"]],
         Leads(m, h) \/ slot' = [slot EXCEPT ![h] = Idle],
         m \in Owed' => m \in InHand', work' = work
  PROVE  Line'
<1>1. /\ InBatch' = InBatch /\ InQueue' = InQueue /\ Claims' = Claims /\ Void' = Void
      /\ Gate' = Gate /\ turn' = turn /\ queued' = queued
  BY DEF work, InBatch, InQueue, Claims, Void, Gate, Active, Calm
<1>2. \A x \in InQueue', y \in InBatch' : y \in Owed' => x <= y
  BY <1>1, OwedLess DEF Line, AheadIsFirst
<1>3. QueuedWaits'
  BY <1>1 DEF Line, QueuedWaits
<1> QED BY <1>1, <1>2, <1>3, TakenLine

\* It is accepted.
LEMMA AcceptLine ==
  ASSUME Types, OnTheWay, VoidWaits, Calm, Line, Taking, NEW m \in Updates, NEW h \in Handlers,
         Takes(m, h), Leads(m, h), Accept(m, h)
  PROVE  Line'
<1>1. cmd \in [Updates -> CmdPhases] /\ dropped \in [Updates -> SUBSET Updates] /\ kind' = kind /\ ~Stopping
  BY DEF Types, WorkTypes, Calm, Taking
<1>2. Owed' \subseteq Owed /\ \A x \in InQueue, y \in InBatch : y \in Owed => x <= y
  BY OwedLess DEF Line, AheadIsFirst
<1>3. m \in Owed' => kind[m] \in Texts
  BY <1>1 DEF Owed, TextRows
<1>4. CASE work' = work /\ slot' = [slot EXCEPT ![h] = [m |-> m, at |-> "settling"]]
  <2>1. m \in InHand'
    BY <1>4, SlotMoves
  <2> QED BY <1>4, <2>1, KeptInHand
<1>5. CASE Collected(m) /\ slot' = [slot EXCEPT ![h] = Idle]
  <2>1. kind[m] \in Texts /\ Void' = Void /\ Gate' = Gate
    BY <1>1, <1>5 DEF Collected, Void, Gate, Active
  <2>2. \A x \in InBatch \cup InQueue : m \in Owed => x <= m
    BY DEF Line, AheadIsFirst, Takes, Leads
  <2>3. \/ /\ InBatch' = InBatch \cup {m} /\ UNCHANGED <<queued, turn>> /\ InQueue' = InQueue /\ Claims' = Claims
        \/ /\ InBatch' = {m} /\ turn' = turn /\ Claims' = Claims
           /\ InQueue' = InQueue \cup InBatch /\ (turn # NoTurn \/ Gate # {})
        \/ /\ InBatch' = {m} /\ queued' = queued /\ InQueue' = InQueue
           /\ Claims = {} /\ Claims' = InBatch /\ turn' # NoTurn
    <3>1. turn' = turn => Claims' = Claims
      BY TurnViews
    <3>2. turn = NoTurn /\ turn' = NewTurn(batch) => Claims = {} /\ Claims' = InBatch /\ turn' # NoTurn
      BY TurnViews DEF InBatch, NewTurn, NoTurn
    <3>3. queued' = queued => InQueue' = InQueue
      BY DEF InQueue
    <3> QED BY <1>1, <1>5, <3>1, <3>2, <3>3 DEF Collected
  <2>4. \A x \in InQueue', y \in InBatch' : y \in Owed' => x <= y
    BY <1>2, <2>2, <2>3
  <2>5. QueuedWaits'
    BY <2>1, <2>3 DEF Line, QueuedWaits
  <2>6. Owed' \cap (InBatch \cup InQueue \cup Claims \cup Void)
             \subseteq InBatch' \cup InQueue' \cup Claims' \cup Void'
    BY <2>1, <2>3
  <2>7. /\ m \in InBatch'
        /\ \A x \in InBatch' \cup InQueue' : x \in InBatch \cup InQueue \/ (x = m /\ kind[m] \in Texts)
    BY <2>1, <2>3
  <2> QED BY <1>5, <2>4, <2>5, <2>6, <2>7, TakenLine
<1>6. CASE Commanded(m) /\ slot' = [slot EXCEPT ![h] = Idle] /\ MessageKey(m) \notin seen
  <2>1. kind[m] \notin Texts /\ MessageKey(m) = m
    BY <1>6 DEF Commanded, MessageKey, Ordered, Texts
  <2>2. dropped[m] = {}
    BY <1>6, <2>1 DEF VoidWaits
  <2>3. /\ Claims' = Claims /\ turn' = turn /\ cmd' = [cmd EXCEPT ![m] = "waiting"]
        /\ \/ /\ UNCHANGED queued /\ InBatch' = InBatch /\ InQueue' = InQueue /\ dropped' = dropped
           \/ /\ dropped' = [dropped EXCEPT ![m] = InBatch \cup InQueue]
              /\ InBatch' = {} /\ InQueue' = {} /\ queued' = <<>>
    BY <1>6, ShortSets DEF Commanded, Claims, InBatch, InQueue
  <2>4. Owed' \cap (InBatch \cup InQueue \cup Claims \cup Void)
             \subseteq InBatch' \cup InQueue' \cup Claims' \cup Void'
    <3>1. CASE dropped' = dropped /\ InBatch' = InBatch /\ InQueue' = InQueue
      BY <2>3, <3>1 DEF Void
    <3>2. CASE dropped' = [dropped EXCEPT ![m] = InBatch \cup InQueue]
      <4>1. dropped'[m] = InBatch \cup InQueue /\ \A c \in Updates : dropped[c] \subseteq dropped'[c]
        BY <1>1, <2>2, <3>2
      <4>2. InBatch \cup InQueue \cup Void \subseteq Void'
        BY <4>1 DEF Void
      <4> QED BY <2>3, <4>2
    <3> QED BY <2>3, <3>1, <3>2
  <2>5. Gate \subseteq Gate'
    BY <1>1, <2>3 DEF Gate, Active
  <2>6. QueuedWaits'
    BY <2>3, <2>5 DEF Line, QueuedWaits
  <2>7. /\ m \notin Owed'
        /\ \A x \in InBatch' \cup InQueue' : x \in InBatch \cup InQueue
        /\ \A x \in InQueue', y \in InBatch' : y \in Owed' => x <= y
    BY <1>2, <1>3, <2>1, <2>3
  <2> QED BY <1>6, <2>4, <2>6, <2>7, TakenLine
<1> QED BY <1>4, <1>5, <1>6, Accepts

\* It is handled.
LEMMA HandleLine ==
  ASSUME Types, OnTheWay, SettledOnRecord, VoidWaits, Calm, Line, Taking,
         NEW m \in Updates, NEW h \in Handlers,
         Takes(m, h), Leads(m, h) \/ Completed(m), Handle(m, h)
  PROVE  Line'
<1>1. kind' = kind /\ \A x \in Owed' : kind[x] \in Texts /\ x \notin cached
  <2>1. \A x \in Owed' : kind[x] \in Texts /\ spool[x] = "pending"
    BY OwedLess DEF Owed, TextRows
  <2> QED BY <2>1 DEF SettledOnRecord, Calm
<1>2. CASE Completed(m) /\ slot' = [slot EXCEPT ![h] = Idle] /\ work' = work
  BY <1>1, <1>2, KeptInHand DEF Completed
<1>3. CASE Leads(m, h) /\ ~Authorized(m) /\ slot' = [slot EXCEPT ![h] = [m |-> m, at |-> "settling"]] /\ work' = work
  <2>1. m \in InHand'
    BY <1>3, SlotMoves
  <2> QED BY <1>3, <2>1, KeptInHand
<1>4. CASE Leads(m, h) /\ slot' = [slot EXCEPT ![h] = [m |-> m, at |-> "downloading"]] /\ work' = work
  <2>1. m \in InHand'
    BY <1>4, SlotMoves
  <2> QED BY <1>4, <2>1, KeptInHand
<1>5. CASE kind[m] = "other" /\ slot' = slot /\ work' = work
  <2>1. Leads(m, h)
    BY <1>5 DEF Leads, Texts
  <2> QED BY <1>1, <1>5, <2>1, KeptInHand DEF Texts
<1>6. CASE Leads(m, h) /\ Accept(m, h)
  BY <1>6, AcceptLine
<1> QED BY <1>2, <1>3, <1>4, <1>5, <1>6 DEF Handle

\* The dispatcher takes the next update.
LEMMA DispatchLine ==
  ASSUME Types, OnTheWay, Standing, SettledOnRecord, VoidWaits, UnderWayIsRecorded,
         Calm, Line, Taking, Dispatch
  PROVE  Line'
<1>1. /\ UNCHANGED mode /\ slot["dispatcher"] = Idle /\ queue # <<>> /\ queue' = Tail(queue)
      /\ mode \in {"held", "recovered", "releasing", "up"} /\ "dispatcher" \in Handlers
  BY DEF Dispatch, Taking, Stopping, Types, FlagTypes, Modes, Handlers
<1>2. PICK m \in Updates : m = Head(queue) /\ m \in ToSet(queue)
                           /\ ToSet(queue) = {m} \cup ToSet(queue')
  BY HandlersPipe
<1>3. \/ Held(m) /\ Hold(m)
      \/ ~Held(m) /\ Handle(m, "dispatcher") /\ UNCHANGED startup
  BY <1>2 DEF Dispatch
<1>4. Owed' \subseteq Owed /\ Misordered' \subseteq Misordered /\ AheadIsFirst
  BY OwedLess DEF Line
<1>5. PICK bad : bad = Misordered
  OBVIOUS
<1>6. FreeOf(bad)' => FreeOf(Misordered)'
  <2>1. FreeOf(bad)' => NoPair(queue', Misordered') /\ NoPair(startup', Misordered')
    BY <1>4, <1>5, PairsWeaker DEF FreeOf
  <2> QED BY <1>4, <1>5, <2>1 DEF FreeOf
<1>7. m \in Pipe /\ Pipe' \subseteq Pipe /\ slot["dispatcher"].at = "idle" /\ FreeOf(bad)
  BY <1>1, <1>2, <1>4, <1>5, HandlersPipe, Records DEF Pipe, AheadIsFirst
<1>8. CASE Held(m) /\ Hold(m)
  <2>1. /\ UNCHANGED <<slot, work>> /\ heldClaims' = heldClaims \cup {m}
        /\ startup' = IF m \in heldClaims THEN startup ELSE Append(startup, m)
    BY <1>8 DEF Hold
  <2>2. /\ InHand' = InHand /\ Downloading' = Downloading /\ InBatch' = InBatch /\ InQueue' = InQueue
        /\ Claims' = Claims /\ Void' = Void /\ Gate' = Gate /\ turn' = turn /\ queued' = queued
    BY <2>1 DEF work, InBatch, InQueue, Claims, Void, Gate, Active, Calm, InHand, Downloading
  <2>3. ToSet(startup) \subseteq ToSet(startup') /\ (m \in heldClaims \/ m \in ToSet(startup'))
    BY <2>1, AppendSet DEF Types, IntakeTypes
  <2>4. Places \subseteq Places' /\ (m \in heldClaims \/ m \in Places')
    BY <2>2, <2>3 DEF Places
  <2>5. m \in heldClaims /\ m \in Owed' => m \in Places
    BY <1>4 DEF Line, OwedIsKept
  <2>6. PutIsLast' /\ OwedIsEnqueued' /\ OwedIsKept'
    <3>1. Owed' \cap Places \subseteq Places' /\ heldClaims' \subseteq heldClaims \cup Places'
          /\ Owed' \cap ToSet(queue) \subseteq Places' \cup ToSet(queue')
      BY <1>2, <2>1, <2>4, <2>5
    <3>2. heldClaims' \subseteq heldClaims \cup Rows
      BY <1>7, <1>8, <2>1 DEF UnderWayIsRecorded, Wanted, Held
    <3> QED BY <3>1, <3>2, CalmLine DEF OnTheWay
  <2>7. FreeOf(bad)'
    BY <1>1, <1>2, <1>7, <2>1, <2>2, TakesOnHold
  <2>8. AheadIsFirst'
    <3>1. /\ \A x \in InBatch \cup InQueue, y \in Pipe \cup InHand : y \in Owed => x <= y
          /\ \A x \in InQueue, y \in InBatch : y \in Owed => x <= y
      BY <1>4 DEF AheadIsFirst
    <3>2. FreeOf(Misordered)'
      BY <1>6, <2>7
    <3> QED BY <1>4, <1>7, <2>2, <3>1, <3>2 DEF AheadIsFirst
  <2>9. QueuedWaits' /\ TextBehindGate'
    BY <1>1, <2>1, <2>2 DEF Line, QueuedWaits, TextBehindGate, Calm
  <2> QED BY <2>6, <2>8, <2>9 DEF Line
<1>9. CASE ~Held(m) /\ Handle(m, "dispatcher") /\ UNCHANGED startup
  <2>1. kind[m] \in Texts /\ ~Completed(m) => mode = "up"
    BY <1>1, <1>9 DEF Held, Closed, Gated, Bypasses, Authorized, Texts
  <2>2. mode = "up" => startup = <<>> /\ slot["release"] = Idle
    BY DEF Standing, GateKept
  <2>3. heldClaims' = heldClaims
    BY <1>9 DEF Handle
  <2>4. \/ Downloading' \subseteq Downloading
        \/ kind[m] = "media" /\ ~Completed(m) /\ Downloading' \subseteq Downloading \cup {m}
    <3>1. \/ slot' = slot \/ slot' = [slot EXCEPT !["dispatcher"] = Idle]
          \/ slot' = [slot EXCEPT !["dispatcher"] = [m |-> m, at |-> "settling"]]
          \/ /\ kind[m] = "media" /\ ~Completed(m)
             /\ slot' = [slot EXCEPT !["dispatcher"] = [m |-> m, at |-> "downloading"]]
      BY <1>9 DEF Handle, Accept
    <3>2. slot' = slot => Downloading' = Downloading
      BY DEF Downloading
    <3>3. slot' = [slot EXCEPT !["dispatcher"] = Idle] => Downloading' \subseteq Downloading
      BY <1>1, SlotChange, Records DEF Types, IntakeTypes
    <3>4. ASSUME slot' = [slot EXCEPT !["dispatcher"] = [m |-> m, at |-> "settling"]]
          PROVE  Downloading' \subseteq Downloading
      <4>1. PICK r \in SlotRecord : r = [m |-> m, at |-> "settling"] /\ r.at = "settling"
        BY Records
      <4> QED BY <1>1, <3>4, <4>1, SlotChange DEF Types, IntakeTypes
    <3>5. slot' = [slot EXCEPT !["dispatcher"] = [m |-> m, at |-> "downloading"]]
            => Downloading' \subseteq Downloading \cup {m}
      BY <1>1, DownloadMoves
    <3> QED BY <3>1, <3>2, <3>3, <3>4, <3>5
  <2>5. FreeOf(bad)' /\ \A y \in ToSet(queue') : <<m, y>> \notin bad
    <3>1. CASE Downloading' \subseteq Downloading
      BY <1>1, <1>2, <1>7, <1>9, <3>1, TakesFromQueue
    <3>2. CASE kind[m] = "media" /\ ~Completed(m) /\ Downloading' \subseteq Downloading \cup {m}
      <4>1. startup = <<>>
        BY <2>1, <2>2, <3>2 DEF Texts
      <4>2. FreeOf(bad)'
        BY <1>1, <1>2, <1>7, <1>9, <3>2, <4>1, TakesInHand
      <4>3. \A y \in ToSet(queue') : <<m, y>> \notin bad
        BY <1>1, <1>2, <1>7, PairsOfTail DEF Types, IntakeTypes, FreeOf
      <4> QED BY <4>2, <4>3
    <3> QED BY <2>4, <3>1, <3>2
  <2>6. Takes(m, "dispatcher")
    BY <1>1, <1>2, <1>6, <1>7, <1>9, <2>3, <2>5 DEF Takes
  <2>7. ASSUME ~Completed(m), kind[m] \in Texts
        PROVE  mode = "up" /\ \A y \in Pipe' \cup InHand' : y \in Owed' => m <= y
    <3>1. mode = "up" /\ startup' = <<>> /\ InHand = {}
      BY <1>1, <1>9, <2>1, <2>2, <2>7, Records DEF InHand, Handlers
    <3>2. InHand' \subseteq {m}
      BY <1>1, <1>9, <3>1, HandleMoves, SlotMoves
    <3>3. Downloading' \subseteq InHand' /\ ToSet(startup') = {}
      BY <3>1, ShortSets DEF Downloading, InHand
    <3>4. Pipe' \cup InHand' \subseteq ToSet(queue') \cup {m}
      BY <3>2, <3>3 DEF Pipe
    <3>5. \A y \in Owed' : y \in Updates /\ y \in Owed
      BY <1>4 DEF Owed, TextRows, Rows
    <3>6. ASSUME NEW y \in ToSet(queue'), y \in Owed' PROVE m <= y
      <4>1. <<m, y>> \notin Misordered /\ y \in Owed /\ y \in Updates
        BY <1>5, <2>5, <3>5, <3>6
      <4>2. ~(y < m)
        BY <2>7, <4>1 DEF Misordered
      <4> QED BY <4>1, <4>2, Bounds
    <3>7. m <= m
      BY Bounds
    <3> QED BY <3>1, <3>4, <3>6, <3>7
  <2>8. Leads(m, "dispatcher") \/ Completed(m)
    BY <2>7 DEF Leads
  <2> QED BY <1>1, <1>9, <2>6, <2>8, HandleLine
<1> QED BY <1>3, <1>8, <1>9

\* The release takes the next update that was held.
LEMMA ReleaseLine ==
  ASSUME Types, OnTheWay, Standing, SettledOnRecord, VoidWaits, Calm, Line, Taking, ReleaseNext
  PROVE  Line'
<1>1. /\ UNCHANGED <<mode, queue>> /\ startup # <<>> /\ startup' = Tail(startup)
      /\ slot["release"] = Idle /\ slot["release"].at = "idle"
      /\ mode = "releasing" /\ "release" \in Handlers
  BY Records DEF ReleaseNext, Busy, Taking, Stopping, Handlers
<1>2. PICK m \in Updates : /\ m = Head(startup) /\ m \in ToSet(startup) /\ Pipe' \subseteq Pipe
                           /\ ToSet(startup) = {m} \cup ToSet(startup') /\ Handle(m, "release")
  BY HandlersPipe
<1>3. Owed' \subseteq Owed /\ Misordered' \subseteq Misordered /\ AheadIsFirst
  BY OwedLess DEF Line
<1>4. PICK bad : bad = Misordered
  OBVIOUS
<1>5. Downloading = {} /\ Downloading' \subseteq {m}
  <2>1. slot["dispatcher"].at # "downloading"
    BY <1>1 DEF Standing, GateKept, Gated
  <2>2. Downloading = {}
    BY <1>1, <2>1 DEF Downloading, Handlers
  <2> QED BY <1>1, <1>2, <2>2, HandleMoves, DownloadMoves
<1>6. /\ FreeOf(bad)' /\ m \in Pipe
      /\ \A y \in ToSet(startup') \cup ToSet(queue') : <<m, y>> \notin bad
  <2>1. FreeOf(bad)
    BY <1>3, <1>4 DEF AheadIsFirst
  <2> QED BY <1>1, <1>2, <1>5, <2>1, TakesFromStartup DEF Pipe
<1>7. FreeOf(Misordered)'
  <2>1. NoPair(queue', Misordered') /\ NoPair(startup', Misordered')
    BY <1>3, <1>4, <1>6, PairsWeaker DEF FreeOf
  <2> QED BY <1>3, <1>4, <1>6, <2>1 DEF FreeOf
<1>8. Takes(m, "release")
  <2>1. heldClaims' = heldClaims
    BY <1>2 DEF Handle
  <2> QED BY <1>1, <1>2, <1>6, <1>7, <2>1 DEF Takes
<1>9. Leads(m, "release")
  <2>1. SUFFICES ASSUME kind[m] \in Texts, NEW y \in Pipe' \cup InHand', y \in Owed' PROVE m <= y
    BY DEF Leads
  <2>2. y \in Updates /\ y \in Owed /\ kind[y] \in Texts
    BY <1>3, <2>1 DEF Owed, TextRows, Rows
  <2>3. y = m \/ y \in ToSet(startup') \cup ToSet(queue')
    <3>1. \A z \in InHand : kind[z] \notin Texts
      BY <1>1 DEF InHand, Handlers, Line, TextBehindGate
    <3>2. InHand' \subseteq InHand \cup {m}
      BY <1>1, <1>2, HandleMoves, SlotMoves
    <3> QED BY <1>5, <2>1, <2>2, <3>1, <3>2 DEF Pipe
  <2>4. CASE y \in ToSet(startup') \cup ToSet(queue')
    <3>1. <<m, y>> \notin Misordered
      BY <1>4, <1>6, <2>4
    <3>2. ~(y < m)
      BY <2>1, <2>2, <3>1 DEF Misordered
    <3> QED BY <2>2, <3>2, Bounds
  <2> QED BY <2>2, <2>3, <2>4, Bounds
<1> QED BY <1>1, <1>2, <1>8, <1>9, HandleLine

\* A download ends.
LEMMA DownloadLine ==
  ASSUME Types, OnTheWay, Standing, VoidWaits, Calm, Line, Taking, NEW h \in Handlers, Download(h)
  PROVE  Line'
<1>1. UNCHANGED <<mode, queue, startup, heldClaims>> /\ slot[h].at = "downloading"
  BY DEF Download
<1>2. PICK m \in Updates : m = slot[h].m /\ m \in Downloading /\ Accept(m, h) /\ Pipe' \subseteq Pipe
  BY HandlersPipe
<1>3. Owed' \subseteq Owed /\ Misordered' \subseteq Misordered /\ AheadIsFirst
  BY OwedLess DEF Line
<1>4. Downloading' \subseteq Downloading
  BY <1>2, HandleMoves, DownloadMoves
<1>5. FreeOf(Misordered)'
  <2>1. FreeOf(Misordered)
    BY <1>3 DEF AheadIsFirst
  <2>2. NoPair(queue', Misordered') /\ NoPair(startup', Misordered')
    BY <1>1, <1>3, <2>1, PairsWeaker DEF FreeOf
  <2> QED BY <1>1, <1>3, <1>4, <2>1, <2>2 DEF FreeOf
<1>6. Takes(m, h)
  BY <1>1, <1>2, <1>5 DEF Takes, Pipe
<1>7. \/ h = "dispatcher" /\ mode = "up" /\ slot["release"] = Idle
      \/ h = "release" /\ (slot["dispatcher"].at = "idle" \/ kind[slot["dispatcher"].m] \notin Texts)
  <2>1. CASE h = "dispatcher"
    <3>1. mode = "up"
      BY <1>1, <2>1 DEF Standing, GateKept, Gated, Taking, Stopping, Types, FlagTypes, Modes
    <3> QED BY <2>1, <3>1 DEF Standing, GateKept
  <2>2. CASE h = "release"
    <3>1. mode # "up"
      BY <1>1, <2>2, Records DEF Standing, GateKept
    <3> QED BY <2>2, <3>1 DEF Line, TextBehindGate
  <2> QED BY <2>1, <2>2 DEF Handlers
<1>8. \A z \in InHand \cup Downloading : z = m \/ kind[z] \notin Texts
  BY <1>2, <1>7, Records DEF InHand, Downloading, Handlers
<1>9. Leads(m, h)
  <2>1. SUFFICES ASSUME kind[m] \in Texts, NEW y \in Pipe' \cup InHand', y \in Owed' PROVE m <= y
    BY <1>7 DEF Leads
  <2>2. y \in Updates /\ y \in Owed /\ kind[y] \in Texts
    BY <1>3, <2>1 DEF Owed, TextRows, Rows
  <2>3. y = m \/ y \in ToSet(startup) \cup ToSet(queue)
    <3>1. InHand' \subseteq InHand \cup {m}
      BY <1>2, HandleMoves, SlotMoves
    <3> QED BY <1>1, <1>4, <1>8, <2>1, <2>2, <3>1 DEF Pipe
  <2>4. CASE y \in ToSet(startup) \cup ToSet(queue)
    <3>1. <<m, y>> \notin Misordered
      BY <1>2, <1>3, <2>4 DEF AheadIsFirst, FreeOf
    <3>2. ~(y < m)
      BY <2>1, <2>2, <3>1 DEF Misordered
    <3> QED BY <2>2, <3>2, Bounds
  <2> QED BY <2>2, <2>3, <2>4, Bounds
<1> QED BY <1>2, <1>6, <1>9, AcceptLine

\* The gate opens.
LEMMA ReleasedLine ==
  ASSUME Types, OnTheWay, Calm, Line, Released
  PROVE  Line'
<1>1. /\ UNCHANGED <<queue, startup, slot, work>> /\ heldClaims' = {} /\ mode' = "up"
  BY DEF Released
<1>2. /\ InHand' = InHand /\ Downloading' = Downloading /\ InBatch' = InBatch /\ InQueue' = InQueue
      /\ Claims' = Claims /\ Void' = Void /\ Gate' = Gate /\ turn' = turn /\ queued' = queued
  BY <1>1 DEF work, InBatch, InQueue, Claims, Void, Gate, Active, Calm, InHand, Downloading
<1>3. Places' = Places /\ Pipe' = Pipe
  BY <1>1, <1>2 DEF Places, Pipe
<1>4. PutIsLast' /\ OwedIsEnqueued' /\ OwedIsKept'
  BY <1>1, <1>3, CalmLine DEF OnTheWay
<1>5. Misordered' \subseteq Misordered /\ Owed' \subseteq Owed /\ AheadIsFirst
  BY OwedLess DEF Line
<1>6. NoPair(queue', Misordered') /\ NoPair(startup', Misordered')
  BY <1>1, <1>5, PairsWeaker DEF FreeOf, AheadIsFirst
<1>7. FreeOf(Misordered)'
  BY <1>1, <1>2, <1>5, <1>6 DEF FreeOf, AheadIsFirst
<1>8. AheadIsFirst'
  BY <1>2, <1>3, <1>5, <1>7 DEF AheadIsFirst
<1>9. QueuedWaits' /\ TextBehindGate'
  BY <1>1, <1>2 DEF Line, QueuedWaits, TextBehindGate
<1> QED BY <1>4, <1>8, <1>9 DEF Line

\* What comes to be out of order is not in the pipe.
LEMMA FreeOfMore ==
  ASSUME UNCHANGED <<queue, startup>>, Downloading' = Downloading, NEW bad, NEW more, FreeOf(bad),
         \A p \in more : p \in bad \/ p[2] \notin Pipe
  PROVE  FreeOf(more)
<1>1. \A x, y : <<x, y>> \in more => <<x, y>> \in bad \/ y \notin Pipe
  OBVIOUS
<1>2. ASSUME NEW s, ToSet(s) \subseteq Pipe, NoPair(s, bad) PROVE NoPair(s, more)
  <2>1. \A j \in DOMAIN s : s[j] \in Pipe
    BY <1>2 DEF ToSet
  <2> QED BY <1>1, <1>2, <2>1 DEF NoPair
<1>3. NoPair(queue, more) /\ NoPair(startup, more)
  BY <1>2 DEF FreeOf, Pipe
<1> QED BY <1>1, <1>3 DEF FreeOf, Pipe

\* An update goes on record, or passes it by.
LEMMA RecordLine ==
  ASSUME Types, OnTheWay, SettledOnRecord, RecordedSoFar, UnderWayIsRecorded, Line, Record
  PROVE  Line'
<1>1. /\ UNCHANGED <<kind, allowed, confirmed, enqueued, startup, slot, heldClaims, work, mode>>
      /\ fetched # <<>> /\ putting = Nobody
  BY DEF Record
<1>2. PICK m \in Updates : m = Head(fetched) /\ confirmed <= m
  BY <1>1, HeadAndTail DEF OnTheWay, Polled, Types, ServerTypes
<1>3. /\ InHand' = InHand /\ Downloading' = Downloading /\ InBatch' = InBatch /\ InQueue' = InQueue
      /\ Claims' = Claims /\ Void' = Void /\ Gate' = Gate /\ turn' = turn /\ queued' = queued
  BY <1>1 DEF work, InBatch, InQueue, Claims, Void, Gate, Active, InHand, Downloading
<1>4. Places' = Places /\ QueuedWaits' /\ TextBehindGate'
  BY <1>1, <1>3 DEF Line, Places, QueuedWaits, TextBehindGate
<1>5. /\ FreeOf(Misordered) /\ AheadIsFirst /\ OwedIsKept /\ OwedIsEnqueued
  BY DEF Line, AheadIsFirst
<1>6. putting.m \notin Updates /\ Nobody.m \notin Updates
  BY <1>1, Bounds DEF Nobody
<1>7. CASE UNCHANGED <<spool, putting>>
  <2>1. Rows' = Rows /\ Owed' = Owed /\ Misordered' = Misordered
    BY <1>1, <1>7 DEF Rows, Owed, TextRows, Misordered
  <2>2. queue' = queue \/ (queue' = Append(queue, m) /\ m \notin Owed)
    <3>1. queue' = queue \/ (queue' = Append(queue, m) /\ kind[m] = "other")
      BY <1>2, <1>7 DEF Record, Wanted
    <3> QED BY <3>1 DEF Owed, TextRows, Texts
  <2>3. ToSet(queue') \subseteq ToSet(queue) \cup {m} /\ ToSet(queue) \subseteq ToSet(queue')
        /\ (m \in Owed => queue' = queue)
    <3>1. ToSet(Append(queue, m)) = ToSet(queue) \cup {m}
      BY AppendSet DEF Types, IntakeTypes
    <3> QED BY <2>2, <3>1
  <2>4. PutIsLast' /\ OwedIsEnqueued'
    BY <1>1, <1>5, <1>7, <2>1 DEF PutIsLast, OwedIsEnqueued
  <2>5. OwedIsKept'
    BY <1>1, <1>4, <1>5, <2>1, <2>3 DEF OwedIsKept
  <2>6. \A x : <<x, m>> \in Misordered => m \in Owed
    BY DEF Misordered
  <2>7. NoPair(queue', Misordered)
    <3>1. CASE queue' = queue
      BY <1>5, <3>1 DEF FreeOf
    <3>2. CASE queue' = Append(queue, m) /\ m \notin Owed
      BY <1>5, <2>6, <3>2, PairsOfAppend DEF FreeOf, Types, IntakeTypes
    <3> QED BY <2>2, <3>1, <3>2
  <2>8. \A y \in ToSet(queue') : y \in ToSet(queue) \/ (y = m /\ m \notin Owed)
    BY <2>2, <2>3
  <2>9. FreeOf(Misordered)'
    BY <1>1, <1>3, <1>5, <2>1, <2>6, <2>7, <2>8 DEF FreeOf
  <2>10. \A y \in Pipe' : y \in Pipe \/ y \notin Owed
    BY <1>1, <1>3, <2>8 DEF Pipe
  <2>11. AheadIsFirst'
    BY <1>3, <1>5, <2>1, <2>9, <2>10 DEF AheadIsFirst
  <2> QED BY <1>4, <2>4, <2>5, <2>11 DEF Line
<1>8. CASE /\ Wanted(m) /\ Trusted(m) /\ queue' = queue /\ putting'.m = m
           /\ spool' = [spool EXCEPT ![m] = IF @ \in {"none", "gone"} THEN "pending" ELSE @]
  <2>1. spool \in [Updates -> {"none", "pending", "completed", "gone"}]
    BY DEF Types, StoreTypes
  <2>2. spool[m] # "gone"
    <3>1. m \in Int /\ confirmed \in Int /\ allowed
      BY <1>8, Bounds DEF Types, ServerTypes, Trusted
    <3> QED BY <1>2, <3>1 DEF SettledOnRecord
  <2>3. spool[m] # "none" => spool' = spool
    BY <1>8, <2>1, <2>2
  <2>4. Rows' = Rows \cup {m} /\ Rows \subseteq Updates
    BY <1>8, <2>1, <2>2 DEF Rows
  <2>5. Owed' \subseteq Owed \cup {m} /\ (m \in Rows => Owed' = Owed) /\ Owed \subseteq Updates
    BY <1>1, <1>8, <2>1, <2>2, <2>3 DEF Rows, Owed, TextRows
  <2>6. PutIsLast'
    <3>1. SUFFICES ASSUME m \notin enqueued, m \in Owed', NEW n \in Rows' PROVE n <= m
      BY <1>1, <1>8 DEF PutIsLast
    <3>2. m \notin Rows
      BY <1>5, <1>6, <2>5, <3>1 DEF OwedIsEnqueued
    <3>3. CASE n = m
      BY <3>3, Bounds
    <3>4. CASE n \in Rows
      <4>1. ~(m <= n)
        BY <1>8, <3>2, <3>4 DEF RecordedSoFar, Come
      <4> QED BY <2>4, <3>4, <4>1, Bounds
    <3> QED BY <2>4, <3>1, <3>3, <3>4
  <2>7. OwedIsEnqueued'
    BY <1>1, <1>5, <1>6, <1>8, <2>5 DEF OwedIsEnqueued
  <2>8. OwedIsKept'
    <3>1. Owed' \cap (enqueued \cup heldClaims) \subseteq Owed
      BY <1>5, <2>5 DEF OwedIsKept
    <3> QED BY <1>1, <1>4, <1>5, <1>8, <2>4, <3>1 DEF OwedIsKept
  <2>9. m \in Rows \/ m \notin Pipe \cup InHand \cup InBatch
    BY <1>8 DEF UnderWayIsRecorded, UnderWay, Work
  <2>10. \A y \in Pipe \cup InHand \cup InBatch : y \in Owed' => y \in Owed
    BY <2>5, <2>9
  <2>11. \A p \in Misordered' : p \in Misordered \/ p[2] \notin Pipe
    BY <1>1, <2>10 DEF Misordered
  <2>12. FreeOf(Misordered')
    BY <1>1, <1>3, <1>5, <1>8, <2>11, FreeOfMore
  <2>13. FreeOf(Misordered)'
    BY <1>1, <1>3, <1>8, <2>12 DEF FreeOf
  <2>14. Pipe' = Pipe
    BY <1>1, <1>3, <1>8 DEF Pipe
  <2>15. AheadIsFirst'
    BY <1>3, <1>5, <2>10, <2>13, <2>14 DEF AheadIsFirst
  <2> QED BY <1>4, <2>6, <2>7, <2>8, <2>15 DEF Line
<1> QED BY <1>2, <1>7, <1>8 DEF Record

\* A recorded update is put into the queue.
LEMMA PutLine ==
  ASSUME Types, OnTheWay, SettledOnRecord, UnderWayIsRecorded, Line, Put
  PROVE  Line'
<1>1. /\ UNCHANGED <<kind, spool, startup, slot, heldClaims, work, mode>>
      /\ putting # Nobody /\ putting' = Nobody
  BY DEF Put, durable
<1>2. PICK m \in Updates : m = putting.m /\ spool[m] # "none"
                           /\ (putting.said = "completed" => spool[m] # "pending")
  BY <1>1, HeadAndTail DEF OnTheWay, Polled, Types, ServerTypes
<1>3. /\ InHand' = InHand /\ Downloading' = Downloading /\ InBatch' = InBatch /\ InQueue' = InQueue
      /\ Claims' = Claims /\ Void' = Void /\ Gate' = Gate /\ turn' = turn /\ queued' = queued
  BY <1>1 DEF work, InBatch, InQueue, Claims, Void, Gate, Active, InHand, Downloading
<1>4. Places' = Places /\ QueuedWaits' /\ TextBehindGate' /\ PutIsLast'
  BY <1>1, <1>3 DEF Line, Places, QueuedWaits, TextBehindGate, PutIsLast
<1>5. /\ FreeOf(Misordered) /\ AheadIsFirst /\ OwedIsKept /\ OwedIsEnqueued /\ PutIsLast
  BY DEF Line, AheadIsFirst
<1>6. Rows' = Rows /\ Owed' = Owed /\ Misordered' = Misordered
  BY <1>1 DEF Rows, Owed, TextRows, Misordered
<1>7. m \in Rows /\ Rows \subseteq Updates /\ Owed \subseteq Rows
  BY <1>2 DEF Rows, Owed, TextRows
<1>8. CASE UNCHANGED <<queue, enqueued>> /\ (putting.said = "completed" \/ m \in enqueued)
  <2>1. Pipe' = Pipe
    BY <1>1, <1>3, <1>8 DEF Pipe
  <2>2. OwedIsEnqueued'
    BY <1>2, <1>5, <1>6, <1>8 DEF OwedIsEnqueued, Owed
  <2>3. OwedIsKept'
    BY <1>1, <1>4, <1>5, <1>6, <1>8 DEF OwedIsKept
  <2>4. FreeOf(Misordered)'
    BY <1>1, <1>3, <1>5, <1>6, <1>8 DEF FreeOf
  <2>5. AheadIsFirst'
    BY <1>3, <1>5, <1>6, <2>1, <2>4 DEF AheadIsFirst
  <2> QED BY <1>4, <2>2, <2>3, <2>5 DEF Line
<1>9. CASE m \notin enqueued /\ enqueued' = enqueued \cup {m} /\ queue' = Append(queue, m)
  <2>1. ToSet(queue') = ToSet(queue) \cup {m}
    BY <1>9, AppendSet DEF Types, IntakeTypes
  <2>2. Pipe' = Pipe \cup {m}
    BY <1>1, <1>3, <2>1 DEF Pipe
  <2>3. m \in Owed => \A n \in Rows : n <= m
    BY <1>1, <1>2, <1>5, <1>9 DEF PutIsLast
  <2>4. OwedIsEnqueued'
    BY <1>2, <1>5, <1>6, <1>9 DEF OwedIsEnqueued
  <2>5. OwedIsKept'
    BY <1>1, <1>4, <1>5, <1>6, <1>7, <1>9, <2>1 DEF OwedIsKept
  <2>6. ASSUME NEW x \in Pipe PROVE <<x, m>> \notin Misordered
    <3>1. SUFFICES ASSUME x \in Updates, m < x, m \in Owed, kind[x] \in Texts PROVE FALSE
      BY DEF Misordered
    <3>2. Wanted(x)
      BY <3>1 DEF Wanted, Texts
    <3>3. x <= m
      BY <2>3, <3>1, <3>2 DEF UnderWayIsRecorded
    <3> QED BY <3>1, <3>3, Bounds
  <2>7. FreeOf(Misordered)'
    <3>1. NoPair(queue', Misordered)
      BY <1>5, <1>9, <2>6, PairsOfAppend DEF FreeOf, Types, IntakeTypes, Pipe
    <3> QED BY <1>1, <1>3, <1>5, <1>6, <2>1, <2>6, <3>1 DEF FreeOf, Pipe
  <2>8. \A x \in InBatch \cup InQueue : m \in Owed => x <= m
    BY <2>3 DEF UnderWayIsRecorded, UnderWay, Work
  <2>9. AheadIsFirst'
    BY <1>3, <1>5, <1>6, <2>2, <2>7, <2>8 DEF AheadIsFirst
  <2> QED BY <1>4, <2>4, <2>5, <2>9 DEF Line
<1> QED BY <1>1, <1>2, <1>8, <1>9 DEF Put

\* A process starts.
LEMMA StartLine ==
  ASSUME Types, OnTheWay, Standing, OnRecord, Start
  PROVE  Line'
<1>1. /\ UNCHANGED <<kind, putting, slot, startup, heldClaims, work>> /\ mode = "off" /\ Replay
  BY DEF Start, server
<1>2. /\ putting = Nobody /\ startup = <<>> /\ queue = <<>> /\ queued = <<>> /\ heldClaims = {} /\ enqueued = {}
      /\ Downloading = {} /\ InBatch = {} /\ InQueue = {} /\ ToSet(startup) = {} /\ ToSet(queue) = {}
      /\ \A h \in Handlers : slot[h].at = "idle"
  BY <1>1, ShortSets DEF OnTheWay, Polled, Standing, HeldIsIdle, GateKept, OnRecord, OffIsEmpty, InBatch, InQueue
<1>3. InHand' = {} /\ Downloading' = {} /\ InBatch' = {} /\ InQueue' = {} /\ ToSet(startup') = {}
  BY <1>1, <1>2 DEF InHand, Downloading, work, InBatch, InQueue
<1>4. PutIsLast' /\ QueuedWaits' /\ TextBehindGate'
  BY <1>1, <1>2 DEF PutIsLast, QueuedWaits, TextBehindGate, work, Handlers
<1>5. NoPair(startup', Misordered')
  BY <1>1, <1>2 DEF NoPair
<1>6. CASE ~allowed
  <2>1. /\ spool' = [m \in Updates |-> IF spool[m] = "pending" THEN "gone" ELSE spool[m]]
        /\ UNCHANGED <<queue, enqueued>>
    BY <1>1, <1>6 DEF Replay, Discard, Pending
  <2>2. Owed' = {} /\ Misordered' = {}
    BY <2>1 DEF Owed, TextRows, Rows, Misordered
  <2>3. NoPair(queue', Misordered')
    BY <2>2 DEF NoPair
  <2>4. AheadIsFirst'
    BY <1>3, <1>5, <2>2, <2>3 DEF AheadIsFirst, FreeOf
  <2> QED BY <1>1, <1>2, <1>4, <2>1, <2>2, <2>4 DEF Line, OwedIsEnqueued, OwedIsKept
<1>7. CASE allowed
  <2>1. spool' = spool /\ queue' \in Ascending(Pending) /\ enqueued' = Pending
    BY <1>1, <1>7 DEF Replay
  <2>2. ToSet(queue') = Pending /\ Owed' \subseteq Pending /\ Pending \subseteq Rows'
    BY <1>1, <2>1 DEF Ascending, Owed, TextRows, Rows, Pending
  <2>3. NoPair(queue', Misordered')
    <3>1. \A p \in Misordered' : p \in Updates \X Updates /\ p[2] < p[1]
      BY DEF Misordered
    <3>2. ASSUME NEW i \in DOMAIN queue', NEW j \in DOMAIN queue', i < j
          PROVE  <<queue'[i], queue'[j]>> \notin Misordered'
      <4>1. PICK q \in Ascending(Pending) : q = queue'
        BY <2>1
      <4>2. q[i] < q[j]
        BY <3>2, <4>1, AscendingType DEF Pending
      <4>3. \A a, b \in Updates : a < b => ~(b < a)
        BY Bounds
      <4>4. <<q[i], q[j]>> \in Misordered' => q[i] \in Updates /\ q[j] \in Updates /\ q[j] < q[i]
        BY <3>1
      <4> QED BY <4>1, <4>2, <4>3, <4>4
    <3> QED BY <3>2 DEF NoPair
  <2>4. AheadIsFirst'
    BY <1>3, <1>5, <2>3 DEF AheadIsFirst, FreeOf
  <2>5. OwedIsEnqueued' /\ OwedIsKept'
    BY <1>1, <1>2, <2>1, <2>2 DEF OwedIsEnqueued, OwedIsKept
  <2> QED BY <1>4, <2>4, <2>5 DEF Line
<1> QED BY <1>6, <1>7

\* Every step keeps the line.
LEMMA StepInLine ==
  ASSUME Types, OnTheWay, Standing, Answering, InLine, Next
  PROVE  InLine'
<1>1. /\ OnRecord /\ SettledOnRecord /\ VoidWaits /\ UnderWayIsRecorded /\ RecordedSoFar
  BY DEF InLine, OnRecord, Answering
<1>2. OnRecord'
  BY <1>1, StepOnRecord
<1>3. SUFFICES ASSUME Taking' PROVE Line'
  BY <1>2 DEF InLine
<1>4. CASE Start
  BY <1>1, <1>4, StartLine
<1>5. ASSUME ~Start PROVE Taking /\ Line /\ mode' \in {mode, "recovered", "releasing", "up"}
  BY <1>3, <1>5, TakingStays DEF InLine
<1>6. CASE Record
  <2>1. ~Start
    BY <1>6 DEF Record, Start, Running
  <2> QED BY <1>1, <1>5, <1>6, <2>1, RecordLine
<1>7. CASE Put
  <2>1. ~Start
    BY <1>7 DEF Put, Start, Running
  <2> QED BY <1>1, <1>5, <1>7, <2>1, PutLine
<1>8. ASSUME ~Start, ~Record, ~Put PROVE Calm /\ Line /\ Taking /\ ~failed' /\ mode' \notin {"off", "closing", "draining", "leaving"}
  BY <1>1, <1>3, <1>5, <1>8, CalmStep DEF Taking, Stopping
<1>9. CASE ~Start /\ ~Record /\ ~Put
  <2>1. Calm /\ Line /\ Taking /\ ~failed' /\ mode' \notin {"off", "closing", "draining", "leaving"}
    BY <1>8, <1>9
  <2>2. CASE \/ Poll \/ HandlerStep \/ Resume \/ RecordRecovered \/ Retire \/ RetireUnknown \/ Release
    <3>1. ~Refuse
      BY <2>1 DEF Refuse, HandlerFails
    <3> QED BY <1>1, <1>3, <2>1, <2>2, <3>1, QuietTurns
  <2>3. CASE Dispatch
    BY <1>1, <2>1, <2>3, DispatchLine
  <2>4. CASE ReleaseNext
    BY <1>1, <2>1, <2>4, ReleaseLine
  <2>5. CASE Flush
    BY <1>1, <2>1, <2>5, FlushLine
  <2>6. CASE \E h \in Handlers : Download(h) \/ SettleUpdate(h)
    BY <1>1, <2>1, <2>6, DownloadLine, QuietSettles
  <2>7. CASE Return
    BY <1>1, <2>1, <2>7, ReturnLine
  <2>8. CASE \E m \in Updates : CommandStep(m)
    BY <1>1, <2>1, <2>8, QuietCommands, LetsGoLine
  <2>9. CASE Released
    BY <1>1, <2>1, <2>9, ReleasedLine
  <2>10. ~RecoveryBlocked /\ ~RecoveryFails /\ ~RecordFails /\ ~PollingFails /\ ~Raise
         /\ ~(\E h \in Handlers : UpdateFails(h)) /\ ~(\E m \in Updates : CommandFails(m))
    BY <2>1 DEF RecoveryBlocked, RecoveryFails, FailsClosed, RecordFails, PollingFails, Raise,
         HandlerFails, UpdateFails, CommandFails
  <2>11. ~StopIntake /\ ~IntakeClosed /\ ~Drained /\ ~Exit /\ ~Abort /\ ~Crash
    BY <2>1 DEF StopIntake, IntakeClosed, Drained, Exit, Abort, Crash, Gone
  <2>12. ~Revoke /\ ~Prune
    BY <2>1 DEF Revoke, Prune, Taking
  <2> QED BY Zenon, <1>9, <2>2, <2>3, <2>4, <2>5, <2>6, <2>7, <2>8, <2>9, <2>10, <2>11, <2>12
        DEF Next, Progress, Trouble
<1> QED BY <1>4, <1>6, <1>7, <1>9

\* Initially, and when nothing happens.
LEMMA InitInLine ==
  ASSUME Init PROVE InLine
<1>1. Rows = {} /\ ToSet(queue) = {} /\ ToSet(startup) = {} /\ Claims = {}
      /\ InBatch = {} /\ InLate = {} /\ InQueue = {}
  BY ShortSets DEF Init, Rows, Claims, NoTurn, InBatch, InLate, InQueue
<1>2. InHand = {} /\ Downloading = {} /\ Void = {} /\ Active = {} /\ \A h \in Handlers : slot[h].at = "idle"
  BY Records DEF Init, InHand, Downloading, Void, Active
<1>3. RecordedSoFar
  <2>1. \A m \in Updates : ~(m < 1)
    BY Bounds
  <2> QED BY <1>1, <2>1 DEF RecordedSoFar, Come, Init
<1>4. OffIsEmpty /\ VoidWaits
  BY <1>2 DEF Init, OffIsEmpty, VoidWaits
<1>5. UnderWayIsRecorded
  BY <1>1, <1>2 DEF UnderWayIsRecorded, UnderWay, Work, Pipe
<1> QED BY <1>3, <1>4, <1>5 DEF Init, InLine, OnRecord, Taking

LEMMA StutterInLine ==
  ASSUME Types, OnTheWay, InLine, UNCHANGED vars
  PROVE  InLine'
<1>1. /\ UNCHANGED <<kind, allowed, confirmed, offset, fetched, putting, spool, queue, enqueued, slot, startup>>
      /\ UNCHANGED <<heldClaims, seen, work, mode, failed>>
  BY DEF vars, server, durable, inflow
<1>2. /\ UNCHANGED <<batch, late, queued, turn, cmd, after, dropped>>
      /\ InHand' = InHand /\ Downloading' = Downloading /\ InBatch' = InBatch /\ InLate' = InLate
      /\ InQueue' = InQueue /\ Claims' = Claims /\ Void' = Void /\ Active' = Active /\ Gate' = Gate
      /\ Rows' = Rows
  BY <1>1 DEF work, InBatch, InLate, InQueue, Claims, Void, Gate, Active, InHand, Downloading, Rows
<1>3. UnderWay' = UnderWay /\ Work' = Work /\ Pipe' = Pipe /\ Places' = Places
  BY <1>1, <1>2 DEF UnderWay, Work, Pipe, Places
<1>4. OnRecord'
  <2>1. \A m \in Updates : (Come(m)' <=> Come(m)) /\ (Wanted(m)' <=> Wanted(m)) /\ (Trusted(m)' <=> Trusted(m))
    BY <1>1, <1>2 DEF Come, Wanted, Trusted
  <2>2. RecordedSoFar'
    BY <1>2, <2>1 DEF InLine, OnRecord, RecordedSoFar
  <2>3. OffIsEmpty' /\ VoidWaits'
    BY <1>1, <1>2 DEF InLine, OnRecord, OffIsEmpty, VoidWaits
  <2>4. UnderWayIsRecorded'
    BY <1>1, <1>2, <1>3 DEF InLine, OnRecord, UnderWayIsRecorded, Wanted
  <2> QED BY <2>2, <2>3, <2>4 DEF OnRecord
<1>5. ASSUME Taking' PROVE Line'
  <2>1. Taking /\ Line
    BY <1>1, <1>5 DEF Taking, Stopping, InLine
  <2>2. Calm
    BY <1>1, <1>2 DEF Calm
  <2>3. QueuedWaits' /\ TextBehindGate'
    BY <1>1, <1>2, <2>1 DEF Line, QueuedWaits, TextBehindGate
  <2> QED BY <1>1, <1>2, <1>3, <2>1, <2>2, <2>3, QuietLine DEF OnTheWay
<1> QED BY <1>4, <1>5 DEF InLine

\* How a turn begins: with the batch, or with what waited behind the last one.
LEMMA TurnStarts ==
  ASSUME Types, Next, turn' # turn, turn'.at = "working", ~Stopping
  PROVE  /\ mode # "off" /\ ~Record
         /\ \/ turn' = NewTurn(batch) /\ turn = NoTurn /\ Gate = {}
            \/ turn' = NewTurn(queued) /\ (turn = NoTurn \/ Completes(Claims))
<1> DEFINE Goal == /\ mode # "off" /\ ~Record
                   /\ \/ turn' = NewTurn(batch) /\ turn = NoTurn /\ Gate = {}
                      \/ turn' = NewTurn(queued) /\ (turn = NoTurn \/ Completes(Claims))
<1>1. ~Record
  BY DEF Record, work
<1>2. NoTurn.at = "none"
  BY DEF NoTurn
<1>3. \A ph \in TurnPhases : At(ph) => turn'.at = ph
  BY TurnViews DEF Types
<1>4. ASSUME NEW m \in Updates, NEW h \in Handlers, Accept(m, h) \/ Handle(m, h) \/ Hold(m)
      PROVE  turn' = NewTurn(batch) /\ turn = NoTurn /\ Gate = {}
  <2>1. UNCHANGED work \/ Accept(m, h)
    BY <1>4 DEF Handle, Hold
  <2> QED BY <2>1 DEF Accept, Collect, Command, QueueTurn, work
<1>5. ASSUME Dispatch \/ ReleaseNext \/ \E h \in Handlers : Download(h) PROVE Goal
  <2>1. mode # "off"
    BY <1>5 DEF Dispatch, ReleaseNext, Download, Running, Busy
  <2>2. PICK m \in Updates, h \in Handlers : Accept(m, h) \/ Handle(m, h) \/ Hold(m)
    BY <1>5, HandlersPipe DEF Handlers
  <2> QED BY <1>1, <1>4, <2>1, <2>2
<1>6. ASSUME Flush PROVE Goal
  BY <1>1, <1>6 DEF Flush, QueueTurn, Running
<1>7. ASSUME HandlerStep \/ Raise PROVE Goal
  <2>1. turn' = NoTurn \/ \E ph \in TurnPhases \ {"working"} : At(ph)
    BY <1>7 DEF HandlerStep, Begin, Notify, Answer, Stopped, Fence, Finalize, Refuse, Raise,
         HandlerFails, TurnPhases
  <2> QED BY <1>2, <1>3, <2>1
<1>8. ASSUME Return PROVE Goal
  BY <1>1, <1>2, <1>8 DEF Return, Continue, Running
<1>9. ASSUME NEW m \in Updates, CommandStep(m) \/ CommandFails(m) PROVE Goal
  <2>1. mode # "off"
    BY <1>9 DEF CommandStep, Clear, Reserve, Execute, Complete, CommandEnds, CommandFails, Running
  <2>2. turn' = turn \/ turn' = NoTurn \/ (turn = NoTurn /\ turn' = NewTurn(queued))
    BY <1>9 DEF CommandStep, Clear, Reserve, Execute, Complete, CommandEnds, CommandFails, TaskEnds, LetsGo
  <2> QED BY <1>1, <1>2, <2>1, <2>2
<1>10. /\ ~Poll /\ ~Put /\ ~RecordFails /\ ~PollingFails
       /\ \A h \in Handlers : ~SettleUpdate(h) /\ ~UpdateFails(h)
  BY DEF Poll, Put, RecordFails, PollingFails, SettleUpdate, UpdateFails, work
<1>11. /\ ~Start /\ ~Resume /\ ~RecordRecovered /\ ~Retire /\ ~RetireUnknown /\ ~Release
       /\ ~RecoveryBlocked /\ ~RecoveryFails /\ ~Released /\ ~StopIntake /\ ~Revoke /\ ~Prune
  BY DEF Start, Resume, RecordRecovered, Retire, RetireUnknown, Release, RecoveryBlocked,
     RecoveryFails, FailsClosed, Released, StopIntake, Revoke, Prune, work
<1>12. ~IntakeClosed /\ ~Drained
  BY DEF IntakeClosed, Drained, Stopping
<1>13. ~Exit /\ ~Abort /\ ~Crash
  BY <1>2 DEF Exit, Abort, Crash, Gone
<1> HIDE DEF Goal
<1>14. Goal
  BY Zenon, <1>1, <1>5, <1>6, <1>7, <1>8, <1>9, <1>10, <1>11, <1>12, <1>13 DEF Next, Progress, Trouble
<1> QED BY <1>14 DEF Goal

\* It begins in order.
LEMMA TurnsInOrder ==
  ASSUME Types, OnTheWay, Standing, Answering, InLine, Next,
         turn' # turn, turn'.at = "working", ~failed, ~Stopping,
         NEW m \in Updates, NEW n \in ToSet(turn'.claims),
         m < n, kind[m] \in Texts, spool'[m] = "pending"
  PROVE  m \in ToSet(turn'.claims) \/ \E c \in Updates : m \in dropped[c]
<1>1. /\ UnderWayIsRecorded /\ Line /\ ~Record
      /\ \/ turn' = NewTurn(batch) /\ turn = NoTurn /\ Gate = {}
         \/ turn' = NewTurn(queued) /\ (turn = NoTurn \/ Completes(Claims))
  BY TurnStarts DEF InLine, OnRecord, Taking
<1>2. PICK S \in SUBSET (InBatch \cup InQueue) :
        /\ ToSet(turn'.claims) = S
        /\ \/ S = InBatch /\ Claims = {} /\ InQueue = {}
           \/ S = InQueue /\ m \notin Claims
  <2>1. CASE turn' = NewTurn(batch) /\ turn = NoTurn /\ Gate = {}
    <3>1. queued = <<>>
      BY <1>1, <2>1 DEF Line, QueuedWaits
    <3> QED BY <2>1, <3>1, TurnViews, ShortSets DEF NewTurn, InBatch, InQueue
  <2>2. CASE turn' = NewTurn(queued) /\ (turn = NoTurn \/ Completes(Claims))
    <3>1. m \notin Claims
      BY <2>2, TurnViews DEF Completes
    <3> QED BY <2>2, <3>1 DEF NewTurn, InQueue
  <2> QED BY <1>1, <2>1, <2>2
<1>3. m \in Owed /\ n \in Rows /\ n \in Updates
  <2>1. spool[m] = "pending"
    BY <1>1, RowsStay
  <2> QED BY <1>1, <1>2, <2>1 DEF Owed, TextRows, Rows, UnderWayIsRecorded, UnderWay, Work
<1>4. ~(n <= m)
  BY <1>3, Bounds
<1>5. m \in enqueued
  <2>1. CASE m # putting.m
    BY <1>1, <1>3, <2>1 DEF Line, OwedIsEnqueued
  <2>2. CASE m = putting.m /\ m \notin enqueued
    <3>1. putting # Nobody
      BY <2>2, Bounds DEF Nobody
    <3> QED BY <1>1, <1>3, <1>4, <2>2, <3>1 DEF Line, PutIsLast
  <2> QED BY <2>1, <2>2
<1>6. m \notin Pipe \cup InHand
  BY <1>1, <1>2, <1>3, <1>4 DEF Line, AheadIsFirst
<1>7. m \in InBatch \cup InQueue \cup Claims \cup Void
  BY <1>1, <1>3, <1>5, <1>6 DEF Line, OwedIsKept, Places, Pipe
<1>8. CASE m \in Void
  BY <1>8 DEF Void
<1>9. CASE m \in InBatch \cup InQueue \cup Claims
  BY <1>1, <1>2, <1>3, <1>4, <1>9 DEF Line, AheadIsFirst
<1> QED BY <1>7, <1>8, <1>9

\* The messages of a conversation are answered in the order they were sent in:
\* whatever the server sends again, a crash replays, a download delays and a
\* command lets go, no turn begins while an earlier message is still owed an
\* answer that is not its own or about to be made void.
THEOREM AnsweredInOrder == Spec => InOrder
<1> DEFINE Inv == IInv /\ InLine
           TurnWaits == turn' # turn /\ turn'.at = "working" /\ ~failed /\ ~Stopping =>
        \A m \in Updates : \A n \in ToSet(turn'.claims) :
            m < n /\ kind[m] \in Texts /\ spool'[m] = "pending" =>
                \/ m \in ToSet(turn'.claims)
                \/ \E c \in Updates : m \in dropped[c]
<1>1. Init => Inv
  BY InitTypes, InitKeeping, InitAnswering, InitInLine DEF IInv
<1>2. Inv /\ [Next]_vars => Inv'
  <2>1. ASSUME Inv, Next PROVE Inv'
    <3>1. Types /\ OnTheWay /\ Standing /\ Answering /\ InLine /\ Polled
      BY <2>1 DEF IInv, OnTheWay
    <3>2. Types'
      BY <2>1, <3>1, StepTypes
    <3>3. InLine'
      BY <2>1, <3>1, StepInLine
    <3> QED BY <2>1, <3>1, <3>2, <3>3, StepKeeping, StepAnswering DEF IInv
  <2>2. ASSUME Inv, UNCHANGED vars PROVE Inv'
    BY <2>2, StutterKeeps, StutterAnswering, StutterInLine DEF IInv
  <2> QED BY <2>1, <2>2
<1>3. Inv /\ [Next]_vars => [TurnWaits]_vars
  BY TurnsInOrder DEF IInv
<1>4. InOrder <=> [][TurnWaits]_vars
  BY DEF InOrder
<1> QED BY <1>1, <1>2, <1>3, <1>4, PTL DEF Spec
=============================================================================
