---------------------------- MODULE InboundProofs ----------------------------
(***************************************************************************)
(* Proofs about the way of a conversation's messages for every number of   *)
(* messages, every script, every bound of the spool and the ledger, and    *)
(* every number of crashes, losses and failing calls.                      *)
(***************************************************************************)
EXTENDS InboundClaims, FiniteSetTheorems, TLAPS

-----------------------------------------------------------------------------
(* The types the steps keep, the sequences by their elements.              *)

\* The values of the flags and of the records in flight.
Modes == {"off", "holding", "recorded", "up", "stopping"}
TurnPhases == {"none", "working", "model", "ready", "answered", "fenced", "settling"}
CmdPhases == {"none", "waiting", "executing", "executed", "saved", "settling"}
SettleRecord == [act : {"ack", "release"}, claims : SUBSET Messages,
                 tries : 1 .. Attempts, by : Int]

\* The spool and the response on its way.
SpoolTypes ==
    /\ next \in SUBSET Messages
    /\ accepted \in Seq(Messages) /\ claimed \in SUBSET Messages
    /\ done \in Seq(Messages) /\ response \in Seq(Messages)

\* What the process has accepted, and what it remembers.
IntakeTypes ==
    /\ held \in Seq(Messages) /\ inbox \in Seq(Messages)
    /\ seen \in SUBSET Messages /\ cached \in SUBSET Messages

\* What survives a restart.
StoreTypes ==
    /\ ledger \in Seq(Messages)
    /\ checkpoint \in [claims : SUBSET Messages, ready : BOOLEAN]
    /\ outcome \in [Messages -> {"none", "started", "completed"}]

\* Batches, turn and commands.
WorkTypes ==
    /\ batch \in Seq(Messages) /\ queued \in Seq(Messages)
    /\ turn \in [claims : Seq(Messages), at : TurnPhases]
    /\ cmd \in [Messages -> CmdPhases]
    /\ after \in [Messages -> SUBSET Messages]

\* The running settlements.
SettlingTypes == settling \in SUBSET SettleRecord

\* What the proofs' histories hold.
GhostTypes ==
    /\ answers \in [Messages -> 0 .. 2] /\ runs \in [Messages -> Nat]
    /\ waived \in SUBSET Messages /\ lapsed \in SUBSET Messages

\* The flags of the two processes, and the script.
FlagTypes ==
    /\ kind \in Scripts /\ spent \in 0 .. Budget[kind]
    /\ bridge \in BOOLEAN /\ failed \in BOOLEAN /\ mode \in Modes

\* All of them.
Types ==
    /\ SpoolTypes /\ IntakeTypes /\ StoreTypes /\ WorkTypes /\ SettlingTypes
    /\ GhostTypes /\ FlagTypes

-----------------------------------------------------------------------------
(* Answered once.  All of it is said of messages whose identity has not    *)
(* lapsed: of those the channel still knows what it did.                   *)

\* What is recorded as completed, and what waits in a batch or the turn queue.
Known == ToSet(ledger)
InBatch == ToSet(batch)
InQueue == ToSet(queued)

\* The claims of the turn while its handler has not ended.
InHand == IF turn.at = "settling" THEN {} ELSE Claims

\* Those it has not begun to answer.
Unbegun == IF turn.at = "working" THEN Claims ELSE {}

\* What waits to be answered: no model was asked about it yet.
Waiting == InBatch \cup InQueue \cup Unbegun

\* Only texts wait for a turn, and only commands are run as commands.
KindsKept ==
    /\ \A m \in InBatch \cup InQueue \cup Claims : kind[m] = "text"
    /\ \A m \in Messages : cmd[m] # "none" => kind[m] # "text"

\* What the process remembers as settled is recorded, or is nothing to
\* answer.
CacheBacked ==
    \A m \in cached \ lapsed : m \in Known \/ kind[m] = "ignored"

\* What waits or runs would not be accepted again.
WorkKnown ==
    \A m \in (InBatch \cup InQueue \cup InHand) \ lapsed : m \in seen \cup Known

\* No message is in two places of the turn queue.
WorkApart ==
    \A m \in Messages \ lapsed :
        /\ ~ (m \in InBatch /\ m \in InQueue)
        /\ ~ (m \in InBatch /\ m \in InHand)
        /\ ~ (m \in InQueue /\ m \in InHand)

\* Before the inbound is released nothing waits and no turn runs.
HeldIsIdle ==
    mode \in {"off", "holding", "recorded"} =>
        turn = NoTurn /\ batch = <<>> /\ queued = <<>>

\* The checkpoint is the running turn's, and recorded before it is retired.
TurnCheckpointed ==
    /\ turn.at \in {"model", "ready", "answered"} =>
         /\ checkpoint.claims = Claims
         /\ checkpoint.ready <=> turn.at # "model"
    /\ turn.at = "answered" => Claims \subseteq Known \cup lapsed
    /\ mode = "recorded" =>
         checkpoint.ready /\ checkpoint.claims \subseteq Known \cup lapsed

\* What was answered is recorded, or its turn's checkpoint says so.
AnswerRemembered ==
    \A m \in Messages \ lapsed : answers[m] > 0 =>
        m \in Known \/ (m \in checkpoint.claims /\ checkpoint.ready)

\* What waits for a turn has no answer that only this process knows of.
WaitingUnanswered ==
    \A m \in Waiting \ lapsed : answers[m] = 0 \/ m \in checkpoint.claims

\* A turn that is not ready has no answer.
UnreadyUnanswered ==
    ~checkpoint.ready =>
        \A m \in checkpoint.claims \ lapsed : answers[m] = 0

\* What was made void is recorded, waits for nothing and is answered by no
\* turn that still runs or is resumed.
VoidIsOut ==
    \A m \in waived \ lapsed :
        /\ m \in Known /\ m \notin Waiting
        /\ turn.at = "model" => m \notin Claims
        /\ m \in checkpoint.claims => checkpoint.ready

\* The part of the invariant behind "answered once".
Answering ==
    /\ KindsKept /\ CacheBacked /\ WorkKnown /\ WorkApart /\ HeldIsIdle
    /\ TurnCheckpointed /\ AnswerRemembered /\ WaitingUnanswered
    /\ UnreadyUnanswered /\ VoidIsOut /\ AnsweredOnce

-----------------------------------------------------------------------------
(* Executed once.                                                          *)

\* A command is executed behind its reservation, and never after it.
RunReserved ==
    \A m \in Messages :
        /\ cmd[m] = "executing" => runs[m] = 0 /\ outcome[m] # "none"
        /\ runs[m] > 0 => outcome[m] # "none"
        /\ cmd[m] = "saved" => outcome[m] = "completed"

\* The part behind "executed once".
Executing == RunReserved /\ ExecutedOnce

-----------------------------------------------------------------------------
(* Nothing lost.                                                           *)

\* A turn that is ready was answered, and so was the one that runs.
ReadyAnswered ==
    /\ checkpoint.ready => \A m \in checkpoint.claims : answers[m] > 0
    /\ turn.at = "fenced" => \A m \in Claims : Cause(m)

\* What is recorded, remembered or acknowledged has its cause.
SettledForCause ==
    /\ \A m \in Known \cup cached : Cause(m)
    /\ \A r \in settling : r.act = "ack" => \A m \in r.claims : Cause(m)

\* The part behind "nothing lost", which is itself a part of it.
Keeping == ReadyAnswered /\ SettledForCause /\ NothingLost

\* The inductive invariant.
IInv == Types /\ Answering /\ Executing /\ Keeping

-----------------------------------------------------------------------------
(* Sequences and the sets of their elements.                               *)

\* A sequence has elements of its kind only.
LEMMA SeqSet ==
  ASSUME NEW T, NEW s \in Seq(T)
  PROVE  ToSet(s) \subseteq T
BY DEF ToSet

\* Two sequences in a row.
LEMMA ConcatSet ==
  ASSUME NEW T, NEW s \in Seq(T), NEW t \in Seq(T)
  PROVE  s \o t \in Seq(T) /\ ToSet(s \o t) = ToSet(s) \cup ToSet(t)
<1>1. s \o t \in Seq(T) /\ Len(s \o t) = Len(s) + Len(t)
  OBVIOUS
<1>2. ASSUME NEW i \in DOMAIN s PROVE s[i] \in ToSet(s \o t)
  <2>1. i \in DOMAIN (s \o t) /\ (s \o t)[i] = s[i]
    OBVIOUS
  <2> QED BY <2>1, Zenon DEF ToSet
<1>3. ASSUME NEW i \in DOMAIN t PROVE t[i] \in ToSet(s \o t)
  <2>1. Len(s) + i \in DOMAIN (s \o t) /\ (s \o t)[Len(s) + i] = t[i]
    OBVIOUS
  <2> QED BY <2>1, Zenon DEF ToSet
<1>4. ASSUME NEW i \in DOMAIN (s \o t) PROVE (s \o t)[i] \in ToSet(s) \cup ToSet(t)
  <2>1. \/ i \in DOMAIN s /\ (s \o t)[i] = s[i]
        \/ i - Len(s) \in DOMAIN t /\ (s \o t)[i] = t[i - Len(s)]
    OBVIOUS
  <2> QED BY <2>1, Zenon DEF ToSet
<1> QED BY <1>1, <1>2, <1>3, <1>4, Zenon DEF ToSet

\* One more element.
LEMMA AppendSet ==
  ASSUME NEW T, NEW s \in Seq(T), NEW e \in T
  PROVE  Append(s, e) \in Seq(T) /\ ToSet(Append(s, e)) = ToSet(s) \cup {e}
<1>1. Append(s, e) \in Seq(T) /\ Len(Append(s, e)) = Len(s) + 1
  OBVIOUS
<1>2. ASSUME NEW i \in DOMAIN s PROVE s[i] \in ToSet(Append(s, e))
  <2>1. i \in DOMAIN Append(s, e) /\ Append(s, e)[i] = s[i]
    OBVIOUS
  <2> QED BY <2>1, Zenon DEF ToSet
<1>3. e \in ToSet(Append(s, e))
  <2>1. Len(s) + 1 \in DOMAIN Append(s, e) /\ Append(s, e)[Len(s) + 1] = e
    OBVIOUS
  <2> QED BY <2>1, Zenon DEF ToSet
<1>4. ASSUME NEW i \in DOMAIN Append(s, e) PROVE Append(s, e)[i] \in ToSet(s) \cup {e}
  <2>1. \/ i \in DOMAIN s /\ Append(s, e)[i] = s[i]
        \/ Append(s, e)[i] = e
    OBVIOUS
  <2> QED BY <2>1, Zenon DEF ToSet
<1> QED BY <1>1, <1>2, <1>3, <1>4, Zenon DEF ToSet

\* None, and one.
LEMMA ShortSets ==
  /\ ToSet(<<>>) = {}
  /\ \A T : <<>> \in Seq(T)
  /\ \A e : ToSet(<<e>>) = {e}
  /\ \A T : \A e \in T : <<e>> \in Seq(T)
BY DEF ToSet

\* A part of a sequence has elements of it only.
LEMMA PartOf ==
  ASSUME NEW T, NEW s \in Seq(T), NEW a \in Nat \ {0}, NEW b \in Nat, b <= Len(s)
  PROVE  SubSeq(s, a, b) \in Seq(T) /\ ToSet(SubSeq(s, a, b)) \subseteq ToSet(s)
<1>1. SubSeq(s, a, b) \in Seq(T)
  OBVIOUS
<1>2. ASSUME NEW i \in DOMAIN SubSeq(s, a, b) PROVE SubSeq(s, a, b)[i] \in ToSet(s)
  <2>1. a + i - 1 \in DOMAIN s /\ SubSeq(s, a, b)[i] = s[a + i - 1]
    OBVIOUS
  <2> QED BY <2>1, Zenon DEF ToSet
<1> QED BY <1>1, <1>2, Zenon DEF ToSet

\* The first element, and the rest.
LEMMA HeadAndTail ==
  ASSUME NEW T, NEW s \in Seq(T), s # <<>>
  PROVE  /\ Head(s) \in ToSet(s) /\ Head(s) \in T
         /\ Tail(s) \in Seq(T)
         /\ ToSet(s) = {Head(s)} \cup ToSet(Tail(s))
<1>1. 1 \in DOMAIN s /\ Head(s) = s[1]
  OBVIOUS
<1>2. Head(s) \in ToSet(s)
  BY <1>1, Zenon DEF ToSet
<1>3. Tail(s) \in Seq(T)
  OBVIOUS
<1>4. ASSUME NEW i \in DOMAIN s PROVE s[i] = Head(s) \/ s[i] \in ToSet(Tail(s))
  <2>1. i = 1 \/ (i - 1 \in DOMAIN Tail(s) /\ Tail(s)[i - 1] = s[i])
    OBVIOUS
  <2> QED BY <1>1, <2>1, Zenon DEF ToSet
<1>5. ASSUME NEW i \in DOMAIN Tail(s) PROVE Tail(s)[i] \in ToSet(s)
  <2>1. i + 1 \in DOMAIN s /\ Tail(s)[i] = s[i + 1]
    OBVIOUS
  <2> QED BY <2>1, Zenon DEF ToSet
<1>6. Head(s) \in T
  BY <1>1
<1> QED BY <1>2, <1>3, <1>4, <1>5, <1>6, Zenon DEF ToSet

\* Without lets go exactly what it is told to.
LEMMA WithoutKeeps ==
  ASSUME NEW T, NEW s \in Seq(T), NEW S
  PROVE  /\ Without(s, S) \in Seq(T)
         /\ ToSet(Without(s, S)) = ToSet(s) \ S
<1> DEFINE kept == {i \in DOMAIN s : s[i] \notin S}
           Upto(i) == {j \in kept : j <= i}
           Place(i) == Cardinality(Upto(i))
           N == Cardinality(kept)
           place == [i \in kept |-> Place(i)]
<1>1. IsFiniteSet(kept) /\ N \in Nat
  <2>1. IsFiniteSet(1 .. Len(s)) /\ kept \in SUBSET (1 .. Len(s))
    BY FS_Interval
  <2> QED BY <2>1, FS_Subset, FS_CardinalityType
<1>2. ASSUME NEW i \in kept
      PROVE  /\ IsFiniteSet(Upto(i)) /\ Place(i) \in 1 .. N
  <2>1. Upto(i) \in SUBSET kept /\ i \in Upto(i)
    OBVIOUS
  <2>2. IsFiniteSet(Upto(i)) /\ Place(i) <= N /\ Place(i) \in Nat
    BY <1>1, <2>1, FS_Subset, FS_CardinalityType
  <2>3. Place(i) # 0
    BY <2>1, <2>2, FS_EmptySet
  <2> QED BY <1>1, <2>2, <2>3
<1>3. ASSUME NEW i \in kept, NEW j \in kept, i < j
      PROVE  Place(i) # Place(j)
  <2>1. Upto(i) \in SUBSET Upto(j) /\ j \in Upto(j) /\ j \notin Upto(i)
    <3>1. i \in Nat /\ j \in Nat /\ kept \subseteq Nat
      OBVIOUS
    <3> QED BY <1>3, <3>1
  <2>2. IsFiniteSet(Upto(j))
    BY <1>2
  <2> HIDE DEF Upto
  <2>3. Place(j) = Place(i) => Upto(j) = Upto(i)
    BY <2>1, <2>2, FS_Subset
  <2> QED BY <2>1, <2>3
<1>4. \A i, j \in kept : Place(i) = Place(j) => i = j
  <2>1. kept \subseteq Nat
    OBVIOUS
  <2> HIDE DEF kept, Place
  <2> QED BY <1>3, <2>1
<1>5. place \in Injection(kept, 1 .. N)
  <2>1. place \in [kept -> 1 .. N]
    BY <1>2
  <2>2. \A i, j \in DOMAIN place : place[i] = place[j] => i = j
    <3> HIDE DEF Place, kept
    <3> QED BY <1>4
  <2> QED BY <2>1, <2>2 DEF Injection, IsInjective
<1>6. place \in Surjection(kept, 1 .. N)
  <2>1. IsFiniteSet(1 .. N) /\ Cardinality(1 .. N) = N
    BY <1>1, FS_Interval
  <2> HIDE DEF place
  <2> QED BY <1>5, <2>1, FS_Injection
<1>7. \A n \in 1 .. N : \E i \in kept : Place(i) = n
  BY <1>6 DEF Surjection
<1> DEFINE Nth(n) == CHOOSE i \in kept : Place(i) = n
<1>8. \A n \in 1 .. N : Nth(n) \in kept /\ Place(Nth(n)) = n
  <2> HIDE DEF Place, kept, N
  <2> QED BY <1>7
<1>9. \A i \in kept : Nth(Place(i)) = i
  <2> HIDE DEF Place, kept, N
  <2> QED BY <1>2, <1>4, <1>8
<1>10. Without(s, S) = [n \in 1 .. N |-> s[Nth(n)]]
  BY DEF Without
<1>11. \A i \in kept : s[i] \in T /\ s[i] \in ToSet(s) /\ s[i] \notin S
  BY DEF ToSet
<1>12. \A e \in ToSet(s) \ S : \E i \in kept : e = s[i]
  BY DEF ToSet
<1> HIDE DEF kept, Place, N, Nth
<1>13. Without(s, S) \in Seq(T)
  BY <1>1, <1>8, <1>10, <1>11
<1>14. ASSUME NEW e \in ToSet(Without(s, S)) PROVE e \in ToSet(s) \ S
  <2>1. PICK n \in 1 .. N : e = s[Nth(n)]
    BY <1>10 DEF ToSet
  <2> QED BY <2>1, <1>8, <1>11
<1>15. ASSUME NEW e \in ToSet(s) \ S PROVE e \in ToSet(Without(s, S))
  <2>1. PICK i \in kept : e = s[i]
    BY <1>12
  <2>2. Place(i) \in 1 .. N /\ Without(s, S)[Place(i)] = e
    BY <1>2, <1>9, <1>10, <2>1
  <2>3. Place(i) \in DOMAIN Without(s, S)
    BY <1>10, <2>2
  <2> QED BY <2>2, <2>3 DEF ToSet
<1> QED BY <1>13, <1>14, <1>15

\* A finite set as a sequence.
LEMMA SetAsSeq ==
  ASSUME NEW S, IsFiniteSet(S)
  PROVE  SetToSeq(S) \in Seq(S) /\ ToSet(SetToSeq(S)) = S
<1> DEFINE N == Cardinality(S)
<1>1. N \in Nat /\ ExistsBijection(1 .. N, S)
  BY FS_CardinalityType
<1>2. \E f \in [1 .. N -> S] : IsInjective(f)
  BY <1>1 DEF ExistsBijection, Bijection, Injection
<1>3. SetToSeq(S) \in [1 .. N -> S] /\ IsInjective(SetToSeq(S))
  BY <1>2 DEF SetToSeq
<1>4. SetToSeq(S) \in Injection(1 .. N, S)
  BY <1>3 DEF Injection
<1>5. Cardinality(1 .. N) = Cardinality(S)
  BY <1>1, FS_Interval
<1>6. SetToSeq(S) \in Surjection(1 .. N, S)
  BY <1>4, <1>5, FS_Injection
<1>7. ToSet(SetToSeq(S)) = S
  BY <1>3, <1>6 DEF Surjection, ToSet
<1>8. SetToSeq(S) \in Seq(S)
  BY <1>1, <1>3
<1> QED BY <1>7, <1>8
-----------------------------------------------------------------------------
(* The operations of the spool and the ledger.                             *)

\* The messages are finitely many, a conversation's bounds are numbers.
LEMMA Bounds ==
  /\ IsFiniteSet(Messages) /\ Messages \subseteq Nat \ {0}
  /\ ClaimBatch \in Nat \ {0} /\ MaxDone \in Nat \ {0} /\ MaxLedger \in Nat \ {0}
  /\ Attempts \in Nat \ {0}
  /\ Scripts \subseteq [Messages -> Kinds] /\ Budget \in [Scripts -> Nat]
BY InboundAssumption, ScriptAssumption

\* The pruned directory holds nothing new.
LEMMA PrunedSet ==
  ASSUME NEW d \in Seq(Messages)
  PROVE  PrunedDone(d) \in Seq(Messages) /\ ToSet(PrunedDone(d)) \subseteq ToSet(d)
<1>1. CASE Len(d) <= MaxDone
  BY <1>1 DEF PrunedDone
<1>2. CASE ~ (Len(d) <= MaxDone)
  <2>1. Len(d) \in Nat /\ MaxDone \in Nat \ {0}
    BY Bounds
  <2>2. (MaxDone * 9) \div 10 \in Nat /\ (MaxDone * 9) \div 10 <= MaxDone
    BY <2>1
  <2>3. LowWater \in Nat \ {0} /\ LowWater <= MaxDone
    BY <2>1, <2>2 DEF LowWater
  <2>4. Len(d) - LowWater + 1 \in Nat \ {0}
    BY <1>2, <2>1, <2>3
  <2>5. SubSeq(d, Len(d) - LowWater + 1, Len(d)) \in Seq(Messages)
    BY <2>1, <2>4, PartOf
  <2>6. ToSet(SubSeq(d, Len(d) - LowWater + 1, Len(d))) \subseteq ToSet(d)
    BY <2>1, <2>4, PartOf
  <2> QED BY <1>2, <2>5, <2>6 DEF PrunedDone
<1> QED BY <1>1, <1>2

\* Nor does one claim of the spool.
LEMMA OldestSet ==
  ASSUME NEW s \in Seq(Messages)
  PROVE  Oldest(s) \in Seq(Messages) /\ ToSet(Oldest(s)) \subseteq ToSet(s)
<1> DEFINE n == IF Len(s) < ClaimBatch THEN Len(s) ELSE ClaimBatch
<1>1. n \in Nat /\ n <= Len(s)
  BY Bounds
<1>2. SubSeq(s, 1, n) \in Seq(Messages) /\ ToSet(SubSeq(s, 1, n)) \subseteq ToSet(s)
  BY <1>1, PartOf
<1> QED BY <1>2 DEF Oldest

\* The ledger after a mark: what was in it, and the new claims, less what its
\* bound lets go.
LEMMA MarkedSet ==
  ASSUME ledger \in Seq(Messages), NEW claims \in Seq(Messages)
  PROVE  /\ Marked(claims) \in Seq(Messages)
         /\ ToSet(Marked(claims)) \subseteq ToSet(ledger) \cup ToSet(claims)
<1> DEFINE l == Without(ledger, ToSet(claims)) \o claims
<1>1. Without(ledger, ToSet(claims)) \in Seq(Messages)
  BY WithoutKeeps
<1>2. ToSet(Without(ledger, ToSet(claims))) = ToSet(ledger) \ ToSet(claims)
  BY WithoutKeeps
<1>3. l \in Seq(Messages)
  BY <1>1, ConcatSet
<1>4. ToSet(l) = ToSet(Without(ledger, ToSet(claims))) \cup ToSet(claims)
  BY <1>1, ConcatSet
<1>5. ToSet(l) \subseteq ToSet(ledger) \cup ToSet(claims)
  BY <1>2, <1>4, Zenon
<1> HIDE DEF l
<1>6. CASE Len(l) <= MaxLedger
  BY <1>3, <1>5, <1>6 DEF Marked, l
<1>7. CASE ~ (Len(l) <= MaxLedger)
  <2>1. Len(l) \in Nat /\ MaxLedger \in Nat \ {0}
    BY <1>3, Bounds
  <2>2. Len(l) - MaxLedger + 1 \in Nat \ {0}
    BY <1>7, <2>1
  <2>3. /\ SubSeq(l, Len(l) - MaxLedger + 1, Len(l)) \in Seq(Messages)
        /\ ToSet(SubSeq(l, Len(l) - MaxLedger + 1, Len(l))) \subseteq ToSet(l)
    BY <1>3, <2>1, <2>2, PartOf
  <2> QED BY <1>5, <1>7, <2>3 DEF Marked, l
<1> QED BY <1>6, <1>7

\* A mark: what it records is in the ledger, or has lapsed.
LEMMA MarkEffect ==
  ASSUME ledger \in Seq(Messages), cached \in SUBSET Messages,
         lapsed \in SUBSET Messages, NEW claims \in Seq(Messages), Mark(claims)
  PROVE  /\ ledger' \in Seq(Messages) /\ cached' \in SUBSET Messages
         /\ lapsed' \in SUBSET Messages
         /\ cached' = cached \cup ToSet(claims)
         /\ Known' \subseteq Known \cup ToSet(claims)
         /\ lapsed \subseteq lapsed'
         /\ (Known \cup ToSet(claims)) \subseteq Known' \cup lapsed'
<1>1. ledger' = Marked(claims) /\ cached' = cached \cup ToSet(claims)
      /\ lapsed' = lapsed \cup ((ToSet(ledger) \cup ToSet(claims)) \ ToSet(Marked(claims)))
  BY DEF Mark
<1>2. Marked(claims) \in Seq(Messages)
  BY MarkedSet
<1>3. ToSet(Marked(claims)) \subseteq ToSet(ledger) \cup ToSet(claims)
  BY MarkedSet
<1>4. ToSet(ledger) \subseteq Messages /\ ToSet(claims) \subseteq Messages
  BY SeqSet
<1>5. Known' = ToSet(Marked(claims))
  BY <1>1 DEF Known
<1> QED BY <1>1, <1>2, <1>3, <1>4, <1>5 DEF Known

\* A batch is sent on: behind a command or a turn it waits, or it is the turn.
LEMMA QueueEffect ==
  ASSUME queued \in Seq(Messages), NEW claims \in Seq(Messages), QueueTurn(claims)
  PROVE  \/ /\ queued' \in Seq(Messages) /\ turn' = turn
            /\ InQueue' = InQueue \cup ToSet(claims)
         \/ /\ turn = NoTurn /\ turn' = NewTurn(claims) /\ queued' = queued
            /\ InQueue' = InQueue
<1>1. queued \o claims \in Seq(Messages)
  BY ConcatSet
<1>2. ToSet(queued \o claims) = ToSet(queued) \cup ToSet(claims)
  BY ConcatSet
<1> QED BY <1>1, <1>2 DEF QueueTurn, InQueue
-----------------------------------------------------------------------------
(* The types are kept.                                                     *)

\* What a settlement is begun with.
LEMMA SettlingType ==
  ASSUME NEW act \in {"ack", "release"}, NEW claims \in SUBSET Messages, NEW by \in Int
  PROVE  Settling(act, claims, by) \in SettleRecord
<1>1. 1 \in 1 .. Attempts
  BY Bounds
<1> QED BY <1>1 DEF Settling, SettleRecord

\* One attempt to settle.
LEMMA AgainType ==
  ASSUME SettlingTypes, NEW r \in settling, Again(r)
  PROVE  SettlingTypes'
<1>1. r \in SettleRecord
  BY DEF SettlingTypes
<1>2. ASSUME r.tries < Attempts PROVE [r EXCEPT !.tries = @ + 1] \in SettleRecord
  <2>1. Attempts \in Nat
    BY Bounds
  <2> QED BY <1>1, <1>2, <2>1 DEF SettleRecord
<1> QED BY <1>2 DEF Again, SettlingTypes

\* A settlement leaves sequences and sets of messages.
LEMMA SettledType ==
  ASSUME SpoolTypes, NEW r \in SettleRecord, Settled(r)
  PROVE  accepted' \in Seq(Messages) /\ claimed' \in SUBSET Messages /\ done' \in Seq(Messages)
<1> DEFINE known == (ToSet(accepted) \cap r.claims) \ ToSet(done)
<1>1. CASE r.act = "ack"
  <2>1. ToSet(accepted) \subseteq Messages
    BY SeqSet DEF SpoolTypes
  <2>2. known \in SUBSET Messages
    BY <2>1
  <2>3. IsFiniteSet(known)
    BY <2>2, Bounds, FS_Subset
  <2> HIDE DEF known
  <2>4. SetToSeq(known) \in Seq(known)
    BY <2>3, SetAsSeq
  <2>5. SetToSeq(known) \in Seq(Messages)
    BY <2>2, <2>4
  <2>6. done \o SetToSeq(known) \in Seq(Messages)
    BY <2>5, ConcatSet DEF SpoolTypes
  <2>7. PrunedDone(done \o SetToSeq(known)) \in Seq(Messages)
    BY <2>6, PrunedSet
  <2>8. Without(accepted, known) \in Seq(Messages)
    BY WithoutKeeps DEF SpoolTypes
  <2>9. /\ done' = PrunedDone(done \o SetToSeq(known))
        /\ accepted' = Without(accepted, known)
        /\ claimed' = claimed \ known
    BY <1>1 DEF Settled, known
  <2> QED BY <2>7, <2>8, <2>9 DEF SpoolTypes
<1>2. CASE r.act # "ack"
  BY <1>2 DEF Settled, SpoolTypes
<1> QED BY <1>1, <1>2

\* The bridge that starts again.
LEMMA RestoredType ==
  ASSUME SpoolTypes, Restored
  PROVE  accepted' \in Seq(Messages) /\ claimed' \in SUBSET Messages /\ done' \in Seq(Messages)
<1>1. Without(accepted, claimed \cap ToSet(done)) \in Seq(Messages)
  BY WithoutKeeps DEF SpoolTypes
<1>2. PrunedDone(done) \in Seq(Messages)
  BY PrunedSet DEF SpoolTypes
<1> QED BY <1>1, <1>2 DEF Restored

\* One fault more.
LEMMA FaultType ==
  ASSUME FlagTypes, Fault, kind' = kind
  PROVE  spent' \in 0 .. Budget[kind]
<1>1. Budget[kind] \in Nat
  BY Bounds DEF FlagTypes
<1> QED BY <1>1 DEF FlagTypes, Fault

\* One answer more.
LEMMA CountedType ==
  ASSUME GhostTypes, NEW S, Counted(S)
  PROVE  answers' \in [Messages -> 0 .. 2]
<1>1. ASSUME NEW m \in Messages
      PROVE  (IF m \in S /\ answers[m] < 2 THEN answers[m] + 1 ELSE answers[m]) \in 0 .. 2
  BY DEF GhostTypes
<1> QED BY <1>1 DEF Counted

\* The first event of a response that is being accepted.
LEMMA AcceptTypes ==
  ASSUME Types, Accept
  PROVE  Types'
<1> DEFINE m == Head(inbox)
<1> USE DEF Types, spool, store, work, ghosts
<1>1. inbox \in Seq(Messages) /\ inbox # <<>>
  BY DEF Accept, IntakeTypes
<1>2. m \in Messages
  BY <1>1, HeadAndTail
<1>3. Tail(inbox) \in Seq(Messages)
  BY <1>1, HeadAndTail
<1>4. UNCHANGED <<kind, next, accepted, claimed, done, bridge, response, mode>>
  BY DEF Accept
<1>5. SpoolTypes'
  BY <1>4 DEF SpoolTypes
<1>6. /\ batch \in Seq(Messages) /\ queued \in Seq(Messages)
      /\ turn \in [claims : Seq(Messages), at : TurnPhases]
  BY DEF WorkTypes
<1>7. batch \o queued \in Seq(Messages)
  BY <1>6, ConcatSet
<1>8. ToSet(Superseded) \subseteq Messages
  BY <1>7, SeqSet DEF Superseded
<1> HIDE DEF m
<1>9. ASSUME \/ Hold(m)
             \/ /\ ~Holding \/ Bypasses(m)
                /\ \/ Void(m)
                   \/ Duplicate(m)
                   \/ /\ ~Completed(m) /\ m \notin seen
                      /\ seen' = seen \cup {m} /\ UNCHANGED held
                      /\ Collect(m) \/ Command(m),
             Rest, UNCHANGED spent
      PROVE  Types'
  <2>1. inbox' \in Seq(Messages)
    BY <1>3, <1>9 DEF Rest
  <2>2. CASE Hold(m)
    <3>1. held' \in Seq(Messages)
      BY <1>2, <2>2, AppendSet DEF Hold, IntakeTypes
    <3>2. IntakeTypes'
      BY <2>1, <2>2, <3>1 DEF Hold, IntakeTypes
    <3> QED BY <1>4, <1>5, <1>9, <2>2, <3>2
        DEF Hold, StoreTypes, WorkTypes, SettlingTypes, GhostTypes, FlagTypes
  <2>3. CASE Void(m)
    <3>1. IntakeTypes'
      BY <1>2, <2>1, <2>3 DEF Void, AckLater, IntakeTypes
    <3>2. Settling("ack", {m}, Later) \in SettleRecord
      BY <1>2, SettlingType DEF Later
    <3>3. SettlingTypes'
      BY <2>3, <3>2 DEF Void, AckLater, SettlingTypes
    <3> QED BY <1>4, <1>5, <1>9, <2>3, <3>1, <3>3
        DEF Void, StoreTypes, WorkTypes, GhostTypes, FlagTypes
  <2>4. CASE Duplicate(m)
    <3>1. IntakeTypes'
      BY <2>1, <2>4 DEF Duplicate, IntakeTypes
    <3> QED BY <1>4, <1>5, <1>9, <2>4, <3>1
        DEF Duplicate, StoreTypes, WorkTypes, SettlingTypes, GhostTypes, FlagTypes
  <2>5. CASE seen' = seen \cup {m} /\ UNCHANGED held /\ Collect(m)
    <3>1. IntakeTypes'
      BY <1>2, <2>1, <2>5 DEF Collect, IntakeTypes
    <3>2. Append(batch, m) \in Seq(Messages) /\ <<m>> \in Seq(Messages)
      BY <1>2, <1>6, AppendSet, ShortSets
    <3>3. WorkTypes'
      <4>1. CASE batch' = Append(batch, m) /\ UNCHANGED <<queued, turn>>
        BY <2>5, <3>2, <4>1 DEF Collect, WorkTypes
      <4>2. CASE QueueTurn(batch) /\ batch' = <<m>>
        <5>1. /\ queued' \in Seq(Messages)
              /\ turn' \in [claims : Seq(Messages), at : TurnPhases]
          BY <1>6, <4>2, QueueEffect DEF NewTurn, TurnPhases
        <5> QED BY <2>5, <3>2, <4>2, <5>1 DEF Collect, WorkTypes
      <4> QED BY <2>5, <4>1, <4>2 DEF Collect
    <3> QED BY <1>4, <1>5, <1>9, <2>5, <3>1, <3>3
        DEF Collect, StoreTypes, SettlingTypes, GhostTypes, FlagTypes
  <2>6. CASE seen' = seen \cup {m} /\ UNCHANGED held /\ Command(m)
    <3>1. CASE Mark(Superseded) /\ kind[m] \in Control /\ batch \o queued # <<>>
      <4>1. /\ ledger' \in Seq(Messages) /\ cached' \in SUBSET Messages
            /\ lapsed' \in SUBSET Messages
        BY <1>7, <3>1, MarkEffect DEF StoreTypes, IntakeTypes, GhostTypes, Superseded
      <4>2. /\ settling' = settling \cup {Settling("ack", ToSet(Superseded), Later)}
            /\ waived' = waived \cup (ToSet(batch \o queued) \ checkpoint.claims)
            /\ batch' = Without(batch, ToSet(Superseded))
            /\ queued' = Without(queued, ToSet(Superseded))
        BY <2>6, <3>1 DEF Command
      <4>3. Settling("ack", ToSet(Superseded), Later) \in SettleRecord
        BY <1>8, SettlingType DEF Later
      <4>4. SettlingTypes'
        BY <4>2, <4>3 DEF SettlingTypes
      <4>5. batch' \in Seq(Messages) /\ queued' \in Seq(Messages)
        BY <1>6, <4>2, WithoutKeeps
      <4>6. waived' \in SUBSET Messages
        BY <1>8, <4>2 DEF GhostTypes, Superseded
      <4>7. WorkTypes'
        <5>1. cmd' \in [Messages -> CmdPhases]
          BY <2>6 DEF Command, WorkTypes, CmdPhases
        <5>2. after' \in [Messages -> SUBSET Messages]
          BY <2>6 DEF Command, WorkTypes, WaitsFor, Gate, Active
        <5> QED BY <2>6, <4>5, <5>1, <5>2 DEF Command, WorkTypes
      <4>8. IntakeTypes'
        BY <1>2, <2>1, <2>6, <4>1 DEF IntakeTypes
      <4> QED BY <1>4, <1>5, <1>9, <2>6, <4>1, <4>4, <4>6, <4>7, <4>8
          DEF Command, StoreTypes, GhostTypes, FlagTypes
    <3>2. CASE UNCHANGED <<ledger, cached, lapsed, settling, waived, batch, queued>>
      <4>1. WorkTypes'
        <5>1. cmd' \in [Messages -> CmdPhases]
          BY <2>6 DEF Command, WorkTypes, CmdPhases
        <5>2. after' \in [Messages -> SUBSET Messages]
          BY <2>6 DEF Command, WorkTypes, WaitsFor, Gate, Active
        <5> QED BY <2>6, <3>2, <5>1, <5>2 DEF Command, WorkTypes
      <4>2. IntakeTypes'
        BY <1>2, <2>1, <2>6, <3>2 DEF IntakeTypes
      <4> QED BY <1>4, <1>5, <1>9, <2>6, <3>2, <4>1, <4>2
          DEF Command, StoreTypes, SettlingTypes, GhostTypes, FlagTypes
    <3> QED BY <2>6, <3>1, <3>2 DEF Command
  <2> QED BY <1>9, <2>2, <2>3, <2>4, <2>5, <2>6
<1>10. ASSUME LedgerFails(m), Fault, inbox' \in {<<>>, Tail(inbox)}
       PROVE  Types'
  <2>1. inbox' \in Seq(Messages)
    BY <1>3, <1>10, ShortSets
  <2>2. IntakeTypes'
    BY <1>2, <1>10, <2>1 DEF LedgerFails, IntakeTypes
  <2>3. WorkTypes'
    BY <1>10, ShortSets DEF LedgerFails, WorkTypes
  <2>4. FlagTypes'
    BY <1>4, <1>10, FaultType DEF LedgerFails, FlagTypes
  <2> QED BY <1>5, <1>10, <2>2, <2>3, <2>4
      DEF LedgerFails, StoreTypes, SettlingTypes, GhostTypes
<1> QED BY <1>9, <1>10 DEF Accept, m
\* The claims of the turn are messages.
LEMMA ClaimsType ==
  ASSUME WorkTypes
  PROVE  Claims \in SUBSET Messages /\ turn.claims \in Seq(Messages)
<1>1. turn.claims \in Seq(Messages)
  BY DEF WorkTypes
<1> QED BY <1>1, SeqSet DEF Claims

\* The spool, and the responses of the bridge.
LEMMA SpoolStepTypes ==
  ASSUME Types,
         \/ (\E m \in Messages : Enqueue(m)) \/ Claim \/ Receive \/ Lose
         \/ (\E r \in settling : Settle(r) \/ SettleFails(r))
         \/ BridgeDies \/ BridgeBack \/ GiveUp
  PROVE  Types'
<1> USE DEF Types, spool, intake, store, work, ghosts
<1>1. ASSUME NEW m \in Messages, Enqueue(m) PROVE Types'
  <2>1. accepted' \in Seq(Messages)
    BY <1>1, AppendSet DEF Enqueue, SpoolTypes
  <2>2. SpoolTypes'
    BY <1>1, <2>1 DEF Enqueue, SpoolTypes
  <2>3. FlagTypes'
    <3>1. kind' = kind
      BY <1>1 DEF Enqueue
    <3>2. spent' \in 0 .. Budget[kind]
      <4>1. UNCHANGED spent \/ Fault
        BY <1>1 DEF Enqueue
      <4> QED BY <3>1, <4>1, FaultType DEF FlagTypes
    <3> QED BY <1>1, <3>2 DEF Enqueue, FlagTypes
  <2> QED BY <1>1, <2>2, <2>3
      DEF Enqueue, IntakeTypes, StoreTypes, WorkTypes, SettlingTypes, GhostTypes
<1>2. ASSUME Claim PROVE Types'
  <2> DEFINE live == Without(accepted, ToSet(done) \ claimed)
             out == Oldest(Without(live, claimed))
  <2>1. live \in Seq(Messages)
    BY WithoutKeeps DEF SpoolTypes
  <2>2. Without(live, claimed) \in Seq(Messages)
    BY <2>1, WithoutKeeps
  <2>3. out \in Seq(Messages)
    BY <2>2, OldestSet
  <2>4. ToSet(out) \subseteq Messages
    BY <2>3, SeqSet
  <2> HIDE DEF live, out
  <2>5. accepted' = live /\ claimed' = claimed \cup ToSet(out) /\ response' = out
    BY <1>2 DEF Claim, live, out
  <2>6. SpoolTypes'
    BY <1>2, <2>1, <2>3, <2>4, <2>5 DEF Claim, SpoolTypes
  <2> QED BY <1>2, <2>6
      DEF Claim, IntakeTypes, StoreTypes, WorkTypes, SettlingTypes, GhostTypes, FlagTypes
<1>3. ASSUME Receive PROVE Types'
  <2>1. SpoolTypes'
    BY <1>3, ShortSets DEF Receive, SpoolTypes
  <2>2. IntakeTypes'
    BY <1>3 DEF Receive, SpoolTypes, IntakeTypes
  <2> QED BY <1>3, <2>1, <2>2
      DEF Receive, StoreTypes, WorkTypes, SettlingTypes, GhostTypes, FlagTypes
<1>4. ASSUME Lose PROVE Types'
  <2>1. SpoolTypes'
    BY <1>4, ShortSets DEF Lose, SpoolTypes
  <2>2. FlagTypes'
    BY <1>4, FaultType DEF Lose, FlagTypes
  <2> QED BY <1>4, <2>1, <2>2
      DEF Lose, IntakeTypes, StoreTypes, WorkTypes, SettlingTypes, GhostTypes
<1>5. ASSUME NEW r \in settling, Settle(r) PROVE Types'
  <2>1. r \in SettleRecord
    BY DEF SettlingTypes
  <2>2. accepted' \in Seq(Messages) /\ claimed' \in SUBSET Messages /\ done' \in Seq(Messages)
    <3>1. Settled(r) \/ UNCHANGED <<accepted, claimed, done>>
      BY <1>5 DEF Settle
    <3> QED BY <2>1, <3>1, SettledType DEF SpoolTypes
  <2>3. SpoolTypes'
    BY <1>5, <2>2 DEF Settle, SpoolTypes
  <2>4. SettlingTypes'
    <3>1. settling' = settling \ {r} \/ Again(r)
      BY <1>5 DEF Settle
    <3> QED BY <3>1, AgainType DEF SettlingTypes
  <2>5. FlagTypes'
    <3>1. UNCHANGED spent \/ Fault
      BY <1>5 DEF Settle
    <3> QED BY <1>5, <3>1, FaultType DEF Settle, FlagTypes
  <2> QED BY <1>5, <2>3, <2>4, <2>5
      DEF Settle, IntakeTypes, StoreTypes, WorkTypes, GhostTypes
<1>6. ASSUME NEW r \in settling, SettleFails(r) PROVE Types'
  <2>1. SettlingTypes'
    BY <1>6, AgainType DEF SettleFails
  <2> QED BY <1>6, <2>1
      DEF SettleFails, SpoolTypes, IntakeTypes, StoreTypes, WorkTypes, GhostTypes, FlagTypes
<1>7. ASSUME BridgeDies PROVE Types'
  <2>1. done' \in Seq(Messages)
    <3>1. ASSUME NEW r \in settling, NEW m \in r.claims \cap ToSet(accepted)
          PROVE  Append(done, m) \in Seq(Messages)
      <4>1. m \in Messages
        BY SeqSet DEF SpoolTypes
      <4> QED BY <4>1, AppendSet DEF SpoolTypes
    <3> QED BY <1>7, <3>1 DEF BridgeDies, SpoolTypes
  <2>2. SpoolTypes'
    BY <1>7, <2>1, ShortSets DEF BridgeDies, SpoolTypes
  <2>3. FlagTypes'
    BY <1>7, FaultType DEF BridgeDies, FlagTypes
  <2> QED BY <1>7, <2>2, <2>3
      DEF BridgeDies, IntakeTypes, StoreTypes, WorkTypes, SettlingTypes, GhostTypes
<1>8. ASSUME BridgeBack PROVE Types'
  <2>1. SpoolTypes'
    BY <1>8, RestoredType DEF BridgeBack, SpoolTypes
  <2> QED BY <1>8, <2>1
      DEF BridgeBack, IntakeTypes, StoreTypes, WorkTypes, SettlingTypes, GhostTypes, FlagTypes
<1>9. ASSUME GiveUp PROVE Types'
  <2>1. FlagTypes'
    BY <1>9, FaultType DEF GiveUp, FlagTypes
  <2> QED BY <1>9, <2>1
      DEF GiveUp, SpoolTypes, IntakeTypes, StoreTypes, WorkTypes, SettlingTypes, GhostTypes
<1> QED BY <1>1, <1>2, <1>3, <1>4, <1>5, <1>6, <1>7, <1>8, <1>9

\* The turn of the queue.
LEMMA TurnStepTypes ==
  ASSUME Types,
         \/ Flush \/ Begin \/ Refuse \/ Raise \/ Answer \/ Stopped \/ Fence
         \/ Finalize \/ Return \/ Unrecorded \/ NextTurn
  PROVE  Types'
<1> USE DEF Types, spool, intake, store, work, ghosts
<1>1. Claims \in SUBSET Messages /\ turn.claims \in Seq(Messages)
  BY ClaimsType
<1>2. \A ph \in TurnPhases : [turn EXCEPT !.at = ph] \in [claims : Seq(Messages), at : TurnPhases]
  BY DEF WorkTypes
<1>3. ASSUME NEW ph \in TurnPhases, At(ph), UNCHANGED <<batch, queued, cmd, after>>
      PROVE  WorkTypes'
  BY <1>2, <1>3 DEF At, WorkTypes
<1>4. \A ph \in {"model", "ready", "answered", "fenced", "settling"} : ph \in TurnPhases
  BY DEF TurnPhases
<1>5. NoTurn \in [claims : Seq(Messages), at : TurnPhases]
  BY ShortSets DEF NoTurn, TurnPhases
<1>6. ASSUME NEW s \in Seq(Messages)
      PROVE  NewTurn(s) \in [claims : Seq(Messages), at : TurnPhases]
  BY DEF NewTurn, TurnPhases
<1>7. ASSUME Flush PROVE Types'
  <2>1. batch \in Seq(Messages) /\ queued \in Seq(Messages)
    BY DEF WorkTypes
  <2>2. queued' \in Seq(Messages) /\ turn' \in [claims : Seq(Messages), at : TurnPhases]
    BY <1>6, <1>7, <2>1, QueueEffect DEF Flush, WorkTypes
  <2>3. WorkTypes'
    BY <1>7, <2>2, ShortSets DEF Flush, WorkTypes
  <2> QED BY <1>7, <2>3
      DEF Flush, SpoolTypes, IntakeTypes, StoreTypes, SettlingTypes, GhostTypes, FlagTypes
<1>8. ASSUME Begin PROVE Types'
  <2>1. checkpoint' \in [claims : SUBSET Messages, ready : BOOLEAN]
    BY <1>1, <1>8 DEF Begin
  <2>2. WorkTypes'
    BY <1>3, <1>4, <1>8 DEF Begin
  <2> QED BY <1>8, <2>1, <2>2
      DEF Begin, SpoolTypes, IntakeTypes, StoreTypes, SettlingTypes, GhostTypes, FlagTypes
<1>9. ASSUME HandlerFails, UNCHANGED spent \/ Fault PROVE Types'
  <2>1. WorkTypes'
    BY <1>3, <1>4, <1>9 DEF HandlerFails
  <2>2. HandedBack(Claims, Turn) \in SettleRecord
    BY <1>1, SettlingType DEF HandedBack, Turn
  <2>3. SettlingTypes'
    BY <1>9, <2>2 DEF HandlerFails, SettlingTypes
  <2>4. FlagTypes'
    BY <1>9, FaultType DEF HandlerFails, FlagTypes
  <2>5. IntakeTypes'
    BY <1>9 DEF HandlerFails, IntakeTypes
  <2> QED BY <1>9, <2>1, <2>3, <2>4, <2>5
      DEF HandlerFails, SpoolTypes, StoreTypes, GhostTypes
<1>10. ASSUME Answer PROVE Types'
  <2>1. checkpoint' \in [claims : SUBSET Messages, ready : BOOLEAN]
    BY <1>10 DEF Answer, StoreTypes
  <2>2. WorkTypes'
    BY <1>3, <1>4, <1>10 DEF Answer
  <2>3. GhostTypes'
    BY <1>10, CountedType DEF Answer, GhostTypes
  <2> QED BY <1>10, <2>1, <2>2, <2>3
      DEF Answer, SpoolTypes, IntakeTypes, StoreTypes, SettlingTypes, FlagTypes
<1>11. ASSUME Mark(turn.claims)
       PROVE  /\ ledger' \in Seq(Messages) /\ cached' \in SUBSET Messages
              /\ lapsed' \in SUBSET Messages
  BY <1>1, <1>11, MarkEffect DEF StoreTypes, IntakeTypes, GhostTypes
<1>12. ASSUME Stopped PROVE Types'
  <2>1. WorkTypes'
    BY <1>3, <1>4, <1>12 DEF Stopped
  <2>2. checkpoint' \in [claims : SUBSET Messages, ready : BOOLEAN]
    BY <1>12 DEF Stopped, NoCheckpoint
  <2> QED BY <1>1, <1>11, <1>12, <2>1, <2>2
      DEF Stopped, SpoolTypes, IntakeTypes, StoreTypes, SettlingTypes, GhostTypes, FlagTypes
<1>13. ASSUME Fence PROVE Types'
  <2>1. WorkTypes'
    BY <1>3, <1>4, <1>13 DEF Fence
  <2> QED BY <1>11, <1>13, <2>1
      DEF Fence, SpoolTypes, IntakeTypes, StoreTypes, SettlingTypes, GhostTypes, FlagTypes
<1>14. ASSUME Finalize PROVE Types'
  <2>1. WorkTypes'
    BY <1>3, <1>4, <1>14 DEF Finalize
  <2>2. checkpoint' \in [claims : SUBSET Messages, ready : BOOLEAN]
    BY <1>14 DEF Finalize, NoCheckpoint
  <2> QED BY <1>14, <2>1, <2>2
      DEF Finalize, SpoolTypes, IntakeTypes, StoreTypes, SettlingTypes, GhostTypes, FlagTypes
<1>15. ASSUME Return PROVE Types'
  <2>1. WorkTypes'
    BY <1>3, <1>4, <1>15 DEF Return
  <2>2. Settling("ack", Claims, Turn) \in SettleRecord
    BY <1>1, SettlingType DEF Turn
  <2>3. SettlingTypes'
    BY <1>15, <2>2 DEF Return, SettlingTypes
  <2> QED BY <1>11, <1>15, <2>1, <2>3
      DEF Return, SpoolTypes, IntakeTypes, StoreTypes, GhostTypes, FlagTypes
<1>16. ASSUME Unrecorded PROVE Types'
  <2>1. WorkTypes'
    BY <1>5, <1>16, ShortSets DEF Unrecorded, WorkTypes
  <2>2. FlagTypes'
    BY <1>16, FaultType DEF Unrecorded, FlagTypes
  <2> QED BY <1>16, <2>1, <2>2
      DEF Unrecorded, SpoolTypes, IntakeTypes, StoreTypes, SettlingTypes, GhostTypes
<1>17. ASSUME NextTurn PROVE Types'
  <2>1. queued \in Seq(Messages)
    BY DEF WorkTypes
  <2>2. WorkTypes'
    BY <1>5, <1>6, <1>17, <2>1, ShortSets DEF NextTurn, WorkTypes
  <2> QED BY <1>17, <2>2
      DEF NextTurn, SpoolTypes, IntakeTypes, StoreTypes, SettlingTypes, GhostTypes, FlagTypes
<1> QED BY <1>7, <1>8, <1>9, <1>10, <1>12, <1>13, <1>14, <1>15, <1>16, <1>17
    DEF Refuse, Raise
\* The commands.
LEMMA CommandStepTypes ==
  ASSUME Types, NEW m \in Messages, CommandStep(m) \/ CommandFails(m)
  PROVE  Types'
<1> USE DEF Types, spool, intake, store, work, ghosts
<1>1. ASSUME NEW ph \in CmdPhases PROVE [cmd EXCEPT ![m] = ph] \in [Messages -> CmdPhases]
  BY DEF WorkTypes
<1>2. \A ph \in {"executing", "saved", "executed", "settling", "none"} : ph \in CmdPhases
  BY DEF CmdPhases
<1>3. ASSUME Reserve(m) PROVE Types'
  <2>1. cmd' \in [Messages -> CmdPhases]
    BY <1>1, <1>2, <1>3 DEF Reserve, Step
  <2>2. outcome' \in [Messages -> {"none", "started", "completed"}]
    BY <1>3 DEF Reserve, StoreTypes
  <2> QED BY <1>3, <2>1, <2>2
      DEF Reserve, SpoolTypes, IntakeTypes, StoreTypes, WorkTypes, SettlingTypes, GhostTypes, FlagTypes
<1>4. ASSUME Execute(m) PROVE Types'
  <2>1. cmd' \in [Messages -> CmdPhases]
    BY <1>1, <1>2, <1>4 DEF Execute, Step
  <2>2. runs' \in [Messages -> Nat]
    BY <1>4 DEF Execute, GhostTypes
  <2> QED BY <1>4, <2>1, <2>2
      DEF Execute, SpoolTypes, IntakeTypes, StoreTypes, WorkTypes, SettlingTypes, GhostTypes, FlagTypes
<1>5. ASSUME Complete(m) PROVE Types'
  <2>1. cmd' \in [Messages -> CmdPhases]
    BY <1>1, <1>2, <1>5 DEF Complete, Step
  <2>2. outcome' \in [Messages -> {"none", "started", "completed"}]
    BY <1>5 DEF Complete, StoreTypes
  <2> QED BY <1>5, <2>1, <2>2
      DEF Complete, SpoolTypes, IntakeTypes, StoreTypes, WorkTypes, SettlingTypes, GhostTypes, FlagTypes
<1>6. ASSUME Reply(m) PROVE Types'
  <2>1. cmd' \in [Messages -> CmdPhases]
    BY <1>1, <1>2, <1>6 DEF Reply, Step
  <2>2. <<m>> \in Seq(Messages)
    BY ShortSets
  <2>3. /\ ledger' \in Seq(Messages) /\ cached' \in SUBSET Messages
        /\ lapsed' \in SUBSET Messages
    BY <1>6, <2>2, MarkEffect DEF Reply, StoreTypes, IntakeTypes, GhostTypes
  <2>4. Settling("ack", {m}, m) \in SettleRecord
    BY Bounds, SettlingType
  <2>5. SettlingTypes'
    BY <1>6, <2>4 DEF Reply, SettlingTypes
  <2> QED BY <1>6, <2>1, <2>3, <2>5
      DEF Reply, SpoolTypes, IntakeTypes, StoreTypes, WorkTypes, GhostTypes, FlagTypes
<1>7. ASSUME CommandEnds(m) PROVE Types'
  <2>1. cmd' \in [Messages -> CmdPhases]
    BY <1>1, <1>2, <1>7 DEF CommandEnds, Step
  <2>2. after' \in [Messages -> SUBSET Messages]
    BY <1>7 DEF CommandEnds, WorkTypes
  <2>3. queued' \in Seq(Messages) /\ turn' \in [claims : Seq(Messages), at : TurnPhases]
    <3>1. queued \in Seq(Messages) /\ turn \in [claims : Seq(Messages), at : TurnPhases]
      BY DEF WorkTypes
    <3>2. NoTurn \in [claims : Seq(Messages), at : TurnPhases]
      BY ShortSets DEF NoTurn, TurnPhases
    <3>3. NewTurn(queued) \in [claims : Seq(Messages), at : TurnPhases]
      BY <3>1 DEF NewTurn, TurnPhases
    <3>4. \/ queued' = <<>> /\ turn' \in {NoTurn, NewTurn(queued)}
          \/ UNCHANGED <<queued, turn>>
      BY <1>7 DEF CommandEnds
    <3> QED BY <3>1, <3>2, <3>3, <3>4, ShortSets
  <2> QED BY <1>7, <2>1, <2>2, <2>3
      DEF CommandEnds, SpoolTypes, IntakeTypes, StoreTypes, WorkTypes, SettlingTypes, GhostTypes, FlagTypes
<1>8. ASSUME CommandFails(m) PROVE Types'
  <2>1. cmd' \in [Messages -> CmdPhases]
    BY <1>1, <1>2, <1>8 DEF CommandFails, Step
  <2>2. HandedBack({m}, m) \in SettleRecord
    BY Bounds, SettlingType DEF HandedBack
  <2>3. SettlingTypes'
    BY <1>8, <2>2 DEF CommandFails, SettlingTypes
  <2>4. IntakeTypes'
    BY <1>8 DEF CommandFails, IntakeTypes
  <2>5. FlagTypes'
    BY <1>8, FaultType DEF CommandFails, FlagTypes
  <2> QED BY <1>8, <2>1, <2>3, <2>4, <2>5
      DEF CommandFails, SpoolTypes, StoreTypes, WorkTypes, GhostTypes
<1> QED BY <1>3, <1>4, <1>5, <1>6, <1>7, <1>8 DEF CommandStep

\* The process: its start, its recovery and its end.
LEMMA ProcessStepTypes ==
  ASSUME Types,
         \/ Start \/ Resume \/ Record \/ Retire \/ RecoveryFails \/ Release
         \/ StopIntake \/ Cancel \/ Exit \/ Crash
         \/ (\E m \in Messages : Expire(m))
  PROVE  Types'
<1> USE DEF Types, spool, intake, store, work, ghosts
<1>1. ASSUME Start PROVE Types'
  <2>1. SpoolTypes'
    BY <1>1, RestoredType DEF Start, SpoolTypes
  <2> QED BY <1>1, <2>1
      DEF Start, IntakeTypes, StoreTypes, WorkTypes, SettlingTypes, GhostTypes, FlagTypes, Modes
<1>2. ASSUME Resume PROVE Types'
  <2>1. checkpoint' \in [claims : SUBSET Messages, ready : BOOLEAN]
    BY <1>2 DEF Resume, StoreTypes
  <2>2. GhostTypes'
    BY <1>2, CountedType DEF Resume, GhostTypes
  <2> QED BY <1>2, <2>1, <2>2
      DEF Resume, SpoolTypes, IntakeTypes, StoreTypes, WorkTypes, SettlingTypes, FlagTypes
<1>3. ASSUME Record PROVE Types'
  <2>1. checkpoint.claims \in SUBSET Messages
    BY DEF StoreTypes
  <2>2. IsFiniteSet(checkpoint.claims)
    BY <2>1, Bounds, FS_Subset
  <2>3. SetToSeq(checkpoint.claims) \in Seq(Messages)
    <3>1. SetToSeq(checkpoint.claims) \in Seq(checkpoint.claims)
      BY <2>2, SetAsSeq
    <3> QED BY <2>1, <3>1
  <2>4. /\ ledger' \in Seq(Messages) /\ cached' \in SUBSET Messages
        /\ lapsed' \in SUBSET Messages
    BY <1>3, <2>3, MarkEffect DEF Record, StoreTypes, IntakeTypes, GhostTypes
  <2> QED BY <1>3, <2>4
      DEF Record, SpoolTypes, IntakeTypes, StoreTypes, WorkTypes, SettlingTypes, GhostTypes, FlagTypes, Modes
<1>4. ASSUME Retire PROVE Types'
  <2>1. checkpoint' \in [claims : SUBSET Messages, ready : BOOLEAN]
    BY <1>4 DEF Retire, NoCheckpoint
  <2> QED BY <1>4, <2>1
      DEF Retire, SpoolTypes, IntakeTypes, StoreTypes, WorkTypes, SettlingTypes, GhostTypes, FlagTypes, Modes
<1>5. ASSUME RecoveryFails PROVE Types'
  <2>1. FlagTypes'
    BY <1>5, FaultType DEF RecoveryFails, FlagTypes
  <2> QED BY <1>5, <2>1
      DEF RecoveryFails, SpoolTypes, IntakeTypes, StoreTypes, WorkTypes, SettlingTypes, GhostTypes
<1>6. ASSUME Release PROVE Types'
  <2>1. IntakeTypes'
    BY <1>6, ShortSets DEF Release, IntakeTypes
  <2> QED BY <1>6, <2>1
      DEF Release, SpoolTypes, StoreTypes, WorkTypes, SettlingTypes, GhostTypes, FlagTypes, Modes
<1>7. ASSUME StopIntake PROVE Types'
  <2>1. IntakeTypes'
    BY <1>7, ShortSets DEF StopIntake, IntakeTypes
  <2>2. SpoolTypes'
    BY <1>7, ShortSets DEF StopIntake, SpoolTypes
  <2>3. FlagTypes'
    <3>1. UNCHANGED spent \/ Fault
      BY <1>7 DEF StopIntake
    <3> QED BY <1>7, <3>1, FaultType DEF StopIntake, FlagTypes, Modes
  <2> QED BY <1>7, <2>1, <2>2, <2>3
      DEF StopIntake, StoreTypes, WorkTypes, SettlingTypes, GhostTypes
<1>8. ASSUME NoWork PROVE WorkTypes'
  <2>1. NoTurn \in [claims : Seq(Messages), at : TurnPhases]
    BY ShortSets DEF NoTurn, TurnPhases
  <2> QED BY <1>8, <2>1, ShortSets DEF NoWork, WorkTypes, CmdPhases
<1>9. ASSUME Cancel PROVE Types'
  <2>1. WorkTypes'
    BY <1>8, <1>9 DEF Cancel
  <2>2. Cancelled \in SUBSET Messages
    BY ClaimsType DEF Cancelled, Active
  <2>3. HandedBack(Cancelled, Later) \in SettleRecord
    BY <2>2, SettlingType DEF HandedBack, Later
  <2>4. SettlingTypes'
    BY <1>9, <2>3 DEF Cancel, SettlingTypes
  <2>5. IntakeTypes'
    BY <1>9 DEF Cancel, IntakeTypes
  <2> QED BY <1>9, <2>1, <2>4, <2>5
      DEF Cancel, SpoolTypes, StoreTypes, GhostTypes, FlagTypes
<1>10. ASSUME Gone, UNCHANGED spent \/ Fault PROVE Types'
  <2>1. WorkTypes'
    BY <1>8, <1>10 DEF Gone
  <2>2. SpoolTypes' /\ IntakeTypes' /\ SettlingTypes'
    BY <1>10, ShortSets DEF Gone, SpoolTypes, IntakeTypes, SettlingTypes
  <2>3. FlagTypes'
    BY <1>10, FaultType DEF Gone, FlagTypes, Modes
  <2> QED BY <1>10, <2>1, <2>2, <2>3 DEF Gone, StoreTypes, GhostTypes
<1>11. ASSUME NEW m \in Messages, Expire(m) PROVE Types'
  <2>1. IntakeTypes'
    BY <1>11 DEF Expire, IntakeTypes
  <2>2. GhostTypes'
    BY <1>11 DEF Expire, GhostTypes
  <2>3. FlagTypes'
    BY <1>11, FaultType DEF Expire, FlagTypes
  <2> QED BY <1>11, <2>1, <2>2, <2>3
      DEF Expire, SpoolTypes, StoreTypes, WorkTypes, SettlingTypes
<1> QED BY <1>1, <1>2, <1>3, <1>4, <1>5, <1>6, <1>7, <1>9, <1>10, <1>11
    DEF Exit, Crash

\* All of them.
LEMMA StepTypes ==
  ASSUME Types, Next
  PROVE  Types'
<1>1. CASE \E m \in Messages : CommandStep(m) \/ CommandFails(m)
  BY <1>1, CommandStepTypes
<1>2. CASE \/ (\E m \in Messages : Enqueue(m)) \/ Claim \/ Receive \/ Lose
           \/ (\E r \in settling : Settle(r) \/ SettleFails(r))
           \/ BridgeDies \/ BridgeBack \/ GiveUp
  BY <1>2, SpoolStepTypes
<1>3. CASE \/ Flush \/ Begin \/ Refuse \/ Raise \/ Answer \/ Stopped \/ Fence
           \/ Finalize \/ Return \/ Unrecorded \/ NextTurn
  BY <1>3, TurnStepTypes
<1>4. CASE \/ Start \/ Resume \/ Record \/ Retire \/ RecoveryFails \/ Release
           \/ StopIntake \/ Cancel \/ Exit \/ Crash
           \/ (\E m \in Messages : Expire(m))
  BY <1>4, ProcessStepTypes
<1>5. CASE Accept
  BY <1>5, AcceptTypes
<1> QED BY Zenon, <1>1, <1>2, <1>3, <1>4, <1>5 DEF Next, Progress, Trouble
-----------------------------------------------------------------------------
(* Answered once: the frames.                                              *)

\* What the turn queue's views show of a turn.
LEMMA TurnViews ==
  /\ \A s : turn' = NewTurn(s) =>
       /\ Claims' = ToSet(s) /\ InHand' = ToSet(s) /\ Unbegun' = ToSet(s)
       /\ turn.at' = "working"
  /\ turn' = NoTurn =>
       Claims' = {} /\ InHand' = {} /\ Unbegun' = {} /\ turn.at' = "none"
  /\ turn = NoTurn =>
       Claims = {} /\ InHand = {} /\ Unbegun = {} /\ turn.at = "none"
  /\ turn' = turn =>
       Claims' = Claims /\ InHand' = InHand /\ Unbegun' = Unbegun /\ turn.at' = turn.at
  /\ WorkTypes => \A ph \in TurnPhases \ {"working"} : At(ph) =>
       /\ Claims' = Claims /\ Unbegun' = {} /\ turn.at' = ph
       /\ InHand' = IF ph = "settling" THEN {} ELSE Claims
<1>1. ASSUME NEW s, turn' = NewTurn(s)
      PROVE  /\ Claims' = ToSet(s) /\ InHand' = ToSet(s) /\ Unbegun' = ToSet(s)
             /\ turn.at' = "working"
  BY <1>1 DEF NewTurn, Claims, InHand, Unbegun
<1>2. turn' = NoTurn =>
        Claims' = {} /\ InHand' = {} /\ Unbegun' = {} /\ turn.at' = "none"
  BY ShortSets DEF NoTurn, Claims, InHand, Unbegun
<1>3. turn = NoTurn =>
        Claims = {} /\ InHand = {} /\ Unbegun = {} /\ turn.at = "none"
  BY ShortSets DEF NoTurn, Claims, InHand, Unbegun
<1>4. turn' = turn =>
        Claims' = Claims /\ InHand' = InHand /\ Unbegun' = Unbegun /\ turn.at' = turn.at
  BY DEF Claims, InHand, Unbegun
<1>5. ASSUME WorkTypes, NEW ph \in TurnPhases \ {"working"}, At(ph)
      PROVE  /\ Claims' = Claims /\ Unbegun' = {} /\ turn.at' = ph
             /\ InHand' = IF ph = "settling" THEN {} ELSE Claims
  <2>1. turn'.claims = turn.claims /\ turn'.at = ph
    BY <1>5 DEF At, WorkTypes
  <2>2. Claims' = Claims
    BY <2>1 DEF Claims
  <2> QED BY <1>5, <2>1, <2>2 DEF InHand, Unbegun
<1> QED BY <1>1, <1>2, <1>3, <1>4, <1>5

\* The books of a process that a step leaves alone.
Books == <<kind, mode, seen, cached, ledger, checkpoint, batch, queued, turn,
           cmd, answers, waived, lapsed>>

\* A step that leaves the books alone keeps what is said of answers.
LEMMA BooksUntouched ==
  ASSUME Answering, UNCHANGED Books
  PROVE  Answering'
<1> USE DEF Books, InBatch, InQueue, Known, Claims
<1>1. InHand' = InHand /\ Unbegun' = Unbegun /\ Waiting' = Waiting
  BY DEF InHand, Unbegun, Waiting
<1>2. KindsKept' /\ CacheBacked' /\ WorkKnown'
  BY <1>1 DEF Answering, KindsKept, CacheBacked, WorkKnown
<1>3. WorkApart' /\ HeldIsIdle' /\ TurnCheckpointed'
  BY <1>1 DEF Answering, WorkApart, HeldIsIdle, TurnCheckpointed
<1>4. AnswerRemembered' /\ WaitingUnanswered' /\ UnreadyUnanswered'
  BY <1>1 DEF Answering, AnswerRemembered, WaitingUnanswered, UnreadyUnanswered
<1>5. VoidIsOut' /\ AnsweredOnce'
  BY <1>1 DEF Answering, VoidIsOut, AnsweredOnce
<1> QED BY <1>2, <1>3, <1>4, <1>5 DEF Answering

\* A turn that begins replaces no checkpoint and takes only unanswered claims.
LEMMA BeginAnswering ==
  ASSUME Types, Answering, Begin
  PROVE  Answering'
<1> USE DEF Types, Answering
<1>1. /\ Claims' = Claims /\ Unbegun' = {} /\ turn.at' = "model" /\ InHand' = Claims
      /\ turn.at = "working" /\ InHand = Claims /\ Unbegun = Claims
  BY TurnViews DEF Begin, TurnPhases, InHand, Unbegun
<1>2. /\ checkpoint' = [claims |-> Claims, ready |-> FALSE]
      /\ checkpoint = [claims |-> {}, ready |-> FALSE]
  BY DEF Begin, NoCheckpoint
<1>3. /\ InBatch' = InBatch /\ InQueue' = InQueue /\ Known' = Known
      /\ UNCHANGED <<kind, mode, seen, cached, batch, queued, cmd, answers, waived, lapsed>>
  BY DEF Begin, intake, ghosts, InBatch, InQueue, Known
<1>4. mode \notin {"off", "holding", "recorded"}
  BY <1>1, TurnViews DEF HeldIsIdle
<1>5. KindsKept' /\ CacheBacked' /\ WorkKnown'
  BY <1>1, <1>3 DEF KindsKept, CacheBacked, WorkKnown
<1>6. WorkApart' /\ HeldIsIdle' /\ TurnCheckpointed'
  BY <1>1, <1>2, <1>3, <1>4 DEF WorkApart, HeldIsIdle, TurnCheckpointed
<1>7. AnswerRemembered' /\ WaitingUnanswered' /\ UnreadyUnanswered'
  BY <1>1, <1>2, <1>3, <1>4 DEF AnswerRemembered, WaitingUnanswered, UnreadyUnanswered, Waiting
<1>8. VoidIsOut' /\ AnsweredOnce'
  BY <1>1, <1>2, <1>3, <1>4 DEF VoidIsOut, AnsweredOnce, Waiting
<1> QED BY <1>5, <1>6, <1>7, <1>8
-----------------------------------------------------------------------------
(* Answered once: the steps.                                               *)

\* What an answer counts.
LEMMA CountedEffect ==
  ASSUME GhostTypes, NEW S, Counted(S), NEW m \in Messages
  PROVE  /\ m \notin S => answers'[m] = answers[m]
         /\ m \in S => answers'[m] > 0
         /\ m \in S /\ answers[m] = 0 => answers'[m] = 1
<1>1. answers'[m] = IF m \in S /\ answers[m] < 2 THEN answers[m] + 1 ELSE answers[m]
  BY DEF Counted
<1>2. answers[m] \in 0 .. 2
  BY DEF GhostTypes
<1> QED BY <1>1, <1>2

\* Whatever the handler raises: the turn ends, its claims are given back.
LEMMA HandlerFailsAnswering ==
  ASSUME Types, Answering, HandlerFails,
         turn.at \in {"working", "model", "ready", "answered"}
  PROVE  Answering'
<1> USE DEF Types, Answering
<1>1. /\ Claims' = Claims /\ Unbegun' = {} /\ turn.at' = "settling" /\ InHand' = {}
      /\ InHand = Claims
  BY TurnViews DEF HandlerFails, TurnPhases, InHand
<1>2. /\ InBatch' = InBatch /\ InQueue' = InQueue /\ Known' = Known
      /\ seen' = seen \ Claims
      /\ UNCHANGED <<kind, mode, cached, checkpoint, batch, queued, cmd, answers, waived, lapsed>>
  BY DEF HandlerFails, store, ghosts, InBatch, InQueue, Known
<1>3. mode \notin {"off", "holding", "recorded"}
  BY <1>1, TurnViews DEF HeldIsIdle
<1>4. InBatch \subseteq Messages /\ InQueue \subseteq Messages
  BY SeqSet DEF InBatch, InQueue, WorkTypes
<1>5. KindsKept' /\ CacheBacked' /\ WorkKnown'
  <2>1. WorkKnown'
    BY <1>1, <1>2, <1>4 DEF WorkKnown, WorkApart
  <2> QED BY <1>1, <1>2, <2>1 DEF KindsKept, CacheBacked
<1>6. WorkApart' /\ HeldIsIdle' /\ TurnCheckpointed'
  BY <1>1, <1>2, <1>3 DEF WorkApart, HeldIsIdle, TurnCheckpointed
<1>7. AnswerRemembered' /\ WaitingUnanswered' /\ UnreadyUnanswered'
  BY <1>1, <1>2 DEF AnswerRemembered, WaitingUnanswered, UnreadyUnanswered, Waiting
<1>8. VoidIsOut' /\ AnsweredOnce'
  BY <1>1, <1>2 DEF VoidIsOut, AnsweredOnce, Waiting
<1> QED BY <1>5, <1>6, <1>7, <1>8

\* The model has answered.
LEMMA AnswerAnswering ==
  ASSUME Types, Answering, Answer
  PROVE  Answering'
<1> USE DEF Types, Answering
<1>1. /\ Claims' = Claims /\ Unbegun' = {} /\ turn.at' = "ready" /\ InHand' = Claims
      /\ turn.at = "model" /\ InHand = Claims /\ Claims \subseteq Messages
  BY TurnViews, ClaimsType DEF Answer, TurnPhases, InHand
<1>2. /\ checkpoint'.claims = checkpoint.claims /\ checkpoint'.ready
      /\ checkpoint.claims = Claims /\ ~checkpoint.ready
  BY <1>1 DEF Answer, StoreTypes, TurnCheckpointed
<1>3. /\ InBatch' = InBatch /\ InQueue' = InQueue /\ Known' = Known
      /\ UNCHANGED <<kind, mode, seen, cached, batch, queued, cmd, waived, lapsed>>
  BY DEF Answer, intake, InBatch, InQueue, Known
<1>4. mode \notin {"off", "holding", "recorded"}
  BY <1>1, TurnViews DEF HeldIsIdle
<1>5. ASSUME NEW m \in Messages
      PROVE  /\ m \notin Claims => answers'[m] = answers[m]
             /\ m \in Claims /\ answers[m] = 0 => answers'[m] = 1
  BY CountedEffect DEF Answer
<1>6. InBatch \subseteq Messages /\ InQueue \subseteq Messages
  BY SeqSet DEF InBatch, InQueue, WorkTypes
<1>7. KindsKept' /\ CacheBacked' /\ WorkKnown'
  BY <1>1, <1>3 DEF KindsKept, CacheBacked, WorkKnown
<1>8. WorkApart' /\ HeldIsIdle' /\ TurnCheckpointed'
  BY <1>1, <1>2, <1>3, <1>4 DEF WorkApart, HeldIsIdle, TurnCheckpointed
<1>9. AnswerRemembered' /\ UnreadyUnanswered'
  BY <1>1, <1>2, <1>3, <1>5 DEF AnswerRemembered, UnreadyUnanswered
<1>10. WaitingUnanswered'
  BY <1>1, <1>2, <1>3, <1>5, <1>6 DEF WaitingUnanswered, Waiting, WorkApart
<1>11. AnsweredOnce'
  BY <1>2, <1>3, <1>5 DEF AnsweredOnce, UnreadyUnanswered
<1>12. VoidIsOut'
  BY <1>1, <1>2, <1>3 DEF VoidIsOut, Waiting
<1> QED BY <1>7, <1>8, <1>9, <1>10, <1>11, <1>12

\* A command has stopped the turn.
LEMMA StoppedAnswering ==
  ASSUME Types, Answering, Stopped
  PROVE  Answering'
<1> USE DEF Types, Answering
<1>1. /\ Claims' = Claims /\ Unbegun' = {} /\ turn.at' = "fenced" /\ InHand' = Claims
      /\ turn.at = "model" /\ InHand = Claims /\ Claims \subseteq Messages
      /\ Unbegun = {}
  BY TurnViews, ClaimsType DEF Stopped, TurnPhases, InHand, Unbegun
<1>2. /\ checkpoint'.claims = {} /\ ~checkpoint'.ready
      /\ checkpoint.claims = Claims /\ ~checkpoint.ready
  BY <1>1 DEF Stopped, TurnCheckpointed, NoCheckpoint
<1>3. /\ InBatch' = InBatch /\ InQueue' = InQueue
      /\ waived' = waived \cup Claims
      /\ UNCHANGED <<kind, mode, seen, batch, queued, cmd, answers>>
  BY DEF Stopped, InBatch, InQueue
<1>4. /\ cached' = cached \cup Claims /\ Known' \subseteq Known \cup Claims
      /\ lapsed \subseteq lapsed' /\ (Known \cup Claims) \subseteq Known' \cup lapsed'
      /\ lapsed' \subseteq Messages
  BY ClaimsType, MarkEffect DEF Stopped, StoreTypes, IntakeTypes, GhostTypes, Claims
<1>5. mode \notin {"off", "holding", "recorded"}
  BY <1>1, TurnViews DEF HeldIsIdle
<1>6. InBatch \subseteq Messages /\ InQueue \subseteq Messages
  BY SeqSet DEF InBatch, InQueue, WorkTypes
<1>7. KindsKept' /\ CacheBacked' /\ WorkKnown'
  BY <1>1, <1>3, <1>4 DEF KindsKept, CacheBacked, WorkKnown
<1>8. WorkApart' /\ HeldIsIdle' /\ TurnCheckpointed'
  BY <1>1, <1>3, <1>4, <1>5 DEF WorkApart, HeldIsIdle, TurnCheckpointed
<1>9. AnswerRemembered' /\ UnreadyUnanswered'
  BY <1>1, <1>2, <1>3, <1>4 DEF AnswerRemembered, UnreadyUnanswered
<1>10. WaitingUnanswered'
  BY <1>1, <1>2, <1>3, <1>4, <1>6 DEF WaitingUnanswered, Waiting, WorkApart
<1>11. AnsweredOnce'
  BY <1>3, <1>4 DEF AnsweredOnce
<1>12. VoidIsOut'
  BY <1>1, <1>2, <1>3, <1>4, <1>6 DEF VoidIsOut, Waiting, WorkApart
<1> QED BY <1>7, <1>8, <1>9, <1>10, <1>11, <1>12

\* The claims of the turn are recorded: before its checkpoint goes, and when
\* its handler has returned.
LEMMA RecordedAnswering ==
  ASSUME Types, Answering, Fence \/ Return
  PROVE  Answering'
<1> USE DEF Types, Answering
<1> PICK ph \in {"answered", "settling"} :
        /\ turn.at = IF ph = "answered" THEN "ready" ELSE "fenced"
        /\ At(ph) /\ Mark(turn.claims)
        /\ UNCHANGED <<kind, mode, seen, checkpoint, batch, queued, cmd, answers, waived>>
  BY DEF Fence, Return
<1>1. /\ Claims' = Claims /\ Unbegun' = {} /\ turn.at' = ph
      /\ InHand' = (IF ph = "settling" THEN {} ELSE Claims)
      /\ InHand = Claims /\ Claims \subseteq Messages /\ Unbegun = {}
  BY TurnViews, ClaimsType DEF TurnPhases, InHand, Unbegun
<1>2. ph = "answered" => checkpoint.claims = Claims /\ checkpoint.ready
  BY DEF TurnCheckpointed
<1>3. InBatch' = InBatch /\ InQueue' = InQueue
  BY DEF InBatch, InQueue
<1>4. /\ cached' = cached \cup Claims /\ Known' \subseteq Known \cup Claims
      /\ lapsed \subseteq lapsed' /\ (Known \cup Claims) \subseteq Known' \cup lapsed'
      /\ lapsed' \subseteq Messages
  BY ClaimsType, MarkEffect DEF StoreTypes, IntakeTypes, GhostTypes, Claims
<1>5. mode \notin {"off", "holding", "recorded"}
  BY TurnViews DEF HeldIsIdle
<1>6. KindsKept' /\ CacheBacked' /\ WorkKnown'
  BY <1>1, <1>3, <1>4 DEF KindsKept, CacheBacked, WorkKnown
<1>7. WorkApart' /\ HeldIsIdle' /\ TurnCheckpointed'
  BY <1>1, <1>2, <1>3, <1>4, <1>5 DEF WorkApart, HeldIsIdle, TurnCheckpointed
<1>8. AnswerRemembered' /\ UnreadyUnanswered' /\ AnsweredOnce'
  BY <1>1, <1>3, <1>4 DEF AnswerRemembered, UnreadyUnanswered, AnsweredOnce
<1>9. WaitingUnanswered'
  BY <1>1, <1>3, <1>4 DEF WaitingUnanswered, Waiting
<1>10. VoidIsOut'
  BY <1>1, <1>3, <1>4 DEF VoidIsOut, Waiting
<1> QED BY <1>6, <1>7, <1>8, <1>9, <1>10

\* The checkpoint goes behind the record of its claims.
LEMMA FinalizeAnswering ==
  ASSUME Types, Answering, Finalize
  PROVE  Answering'
<1> USE DEF Types, Answering
<1>1. /\ Claims' = Claims /\ Unbegun' = {} /\ turn.at' = "fenced" /\ InHand' = Claims
      /\ turn.at = "answered" /\ InHand = Claims /\ Unbegun = {}
  BY TurnViews DEF Finalize, TurnPhases, InHand, Unbegun
<1>2. /\ checkpoint'.claims = {} /\ ~checkpoint'.ready
      /\ checkpoint.claims = Claims /\ checkpoint.ready
      /\ Claims \subseteq Known \cup lapsed
  BY <1>1 DEF Finalize, TurnCheckpointed, NoCheckpoint
<1>3. /\ InBatch' = InBatch /\ InQueue' = InQueue /\ Known' = Known
      /\ UNCHANGED <<kind, mode, seen, cached, batch, queued, cmd, answers, waived, lapsed>>
  BY DEF Finalize, intake, ghosts, InBatch, InQueue, Known
<1>4. mode \notin {"off", "holding", "recorded"}
  BY <1>1, TurnViews DEF HeldIsIdle
<1>5. InBatch \subseteq Messages /\ InQueue \subseteq Messages
  BY SeqSet DEF InBatch, InQueue, WorkTypes
<1>6. KindsKept' /\ CacheBacked' /\ WorkKnown'
  BY <1>1, <1>3 DEF KindsKept, CacheBacked, WorkKnown
<1>7. WorkApart' /\ HeldIsIdle' /\ TurnCheckpointed'
  BY <1>1, <1>3, <1>4 DEF WorkApart, HeldIsIdle, TurnCheckpointed
<1>8. AnswerRemembered' /\ UnreadyUnanswered' /\ AnsweredOnce'
  BY <1>1, <1>2, <1>3 DEF AnswerRemembered, UnreadyUnanswered, AnsweredOnce
<1>9. WaitingUnanswered'
  BY <1>1, <1>2, <1>3, <1>5 DEF WaitingUnanswered, Waiting, WorkApart
<1>10. VoidIsOut'
  BY <1>1, <1>2, <1>3 DEF VoidIsOut, Waiting
<1> QED BY <1>6, <1>7, <1>8, <1>9, <1>10
\* What waits moves on to the turn, or is let go: no book is written.
Moved ==
    /\ UNCHANGED <<kind, cached, ledger, checkpoint, answers, waived, lapsed>>
    /\ InBatch' \cup InQueue' \subseteq InBatch \cup InQueue
    /\ \/ turn' = turn \/ turn' = NoTurn
       \/ /\ turn'.at = "working" /\ InHand' = Claims' /\ Unbegun' = Claims'
          /\ Claims' \subseteq InBatch \cup InQueue
    /\ \A m \in Messages : cmd'[m] # "none" => cmd[m] # "none"
    /\ mode' \in {"off", "holding", "recorded"} =>
         turn' = NoTurn /\ batch' = <<>> /\ queued' = <<>>
    /\ mode' = "recorded" => mode = "recorded"

\* A step that only moves messages between batch, queue and turn keeps it, when
\* it puts none in two places.
LEMMA MovedAnswering ==
  ASSUME Types, Answering, Moved, WorkApart', WorkKnown'
  PROVE  Answering'
<1> USE DEF Types, Answering
<1>1. /\ Known' = Known
      /\ UNCHANGED <<kind, cached, checkpoint, answers, waived, lapsed>>
      /\ InBatch' \cup InQueue' \subseteq InBatch \cup InQueue
  BY DEF Moved, Known
<1>2. \/ Claims' = Claims /\ InHand' = InHand /\ Unbegun' = Unbegun /\ turn.at' = turn.at
      \/ Claims' = {} /\ InHand' = {} /\ Unbegun' = {} /\ turn.at' = "none"
      \/ /\ turn.at' = "working" /\ InHand' = Claims' /\ Unbegun' = Claims'
         /\ Claims' \subseteq InBatch \cup InQueue
  BY TurnViews DEF Moved
<1>3. Waiting' \subseteq Waiting
  BY <1>1, <1>2 DEF Waiting
<1>4. KindsKept' /\ CacheBacked'
  BY <1>1, <1>2 DEF KindsKept, CacheBacked, Moved
<1>5. HeldIsIdle' /\ TurnCheckpointed'
  BY <1>1, <1>2 DEF HeldIsIdle, TurnCheckpointed, Moved
<1>6. AnswerRemembered' /\ UnreadyUnanswered' /\ AnsweredOnce'
  BY <1>1 DEF AnswerRemembered, UnreadyUnanswered, AnsweredOnce
<1>7. WaitingUnanswered'
  BY <1>1, <1>3 DEF WaitingUnanswered
<1>8. VoidIsOut'
  BY <1>1, <1>2, <1>3 DEF VoidIsOut
<1> QED BY <1>4, <1>5, <1>6, <1>7, <1>8

\* The quiet period has passed, a turn has ended, a command lets the input go.
LEMMA QueueStepAnswering ==
  ASSUME Types, Answering,
         Flush \/ Unrecorded \/ NextTurn \/ (\E m \in Messages : CommandEnds(m))
  PROVE  Answering'
<1> USE DEF Types, Answering
<1> USE ShortSets DEF InBatch, InQueue
<1>1. batch \in Seq(Messages) /\ queued \in Seq(Messages)
  BY DEF WorkTypes
<1>2. InBatch \subseteq Messages /\ InQueue \subseteq Messages
  BY <1>1, SeqSet
<1>3. ASSUME Flush PROVE Answering'
  <2>1. /\ mode' = mode /\ batch # <<>> /\ InBatch' = {}
        /\ UNCHANGED <<kind, seen, cached, ledger, checkpoint, answers, waived, lapsed, cmd>>
    BY <1>3 DEF Flush, intake, store, ghosts
  <2>2. mode \notin {"off", "holding", "recorded"}
    BY <2>1 DEF HeldIsIdle
  <2>3. \/ turn' = turn /\ InQueue' = InQueue \cup InBatch
        \/ turn = NoTurn /\ turn' = NewTurn(batch) /\ InQueue' = InQueue
    BY <1>1, <1>3, QueueEffect DEF Flush
  <2>4. \/ Claims' = Claims /\ InHand' = InHand /\ Unbegun' = Unbegun /\ turn' = turn
           /\ InQueue' = InQueue \cup InBatch
        \/ /\ turn.at' = "working" /\ Claims' = InBatch /\ InHand' = InBatch
           /\ Unbegun' = InBatch /\ InQueue' = InQueue /\ InHand = {}
    BY <2>3, TurnViews
  <2> HIDE DEF InBatch, InQueue
  <2>5. Moved
    BY <2>1, <2>2, <2>4 DEF Moved
  <2>6. WorkApart' /\ WorkKnown'
    BY <2>1, <2>4 DEF WorkApart, WorkKnown, Known
  <2> QED BY <2>5, <2>6, MovedAnswering
<1>4. ASSUME \/ queued' = <<>> /\ turn' = NoTurn
             \/ turn' = NoTurn /\ UNCHANGED queued
             \/ turn' = NewTurn(queued) /\ queued' = <<>>
             \/ UNCHANGED <<queued, turn>>,
             UNCHANGED <<kind, mode, seen, cached, ledger, checkpoint, answers,
                         waived, lapsed, batch>>,
             \A m \in Messages : cmd'[m] # "none" => cmd[m] # "none",
             turn # NoTurn \/ queued # <<>> \/ UNCHANGED <<queued, turn>>
      PROVE  Answering'
  <2>1. InBatch' = InBatch /\ Known' = Known
    BY <1>4 DEF Known
  <2>2. \/ Claims' = {} /\ InHand' = {} /\ Unbegun' = {} /\ InQueue' = {} /\ turn' = NoTurn
        \/ Claims' = {} /\ InHand' = {} /\ Unbegun' = {} /\ InQueue' = InQueue /\ turn' = NoTurn
        \/ /\ turn.at' = "working" /\ Claims' = InQueue /\ InHand' = InQueue
           /\ Unbegun' = InQueue /\ InQueue' = {}
        \/ /\ Claims' = Claims /\ InHand' = InHand /\ Unbegun' = Unbegun /\ turn' = turn
           /\ InQueue' = InQueue
    BY <1>4, TurnViews
  <2>3. mode' \in {"off", "holding", "recorded"} =>
          turn' = NoTurn /\ batch' = <<>> /\ queued' = <<>>
    BY <1>4 DEF HeldIsIdle
  <2> HIDE DEF InBatch, InQueue
  <2>4. Moved
    BY <1>4, <2>1, <2>2, <2>3 DEF Moved
  <2>5. WorkApart' /\ WorkKnown'
    BY <1>4, <2>1, <2>2 DEF WorkApart, WorkKnown
  <2> QED BY <2>4, <2>5, MovedAnswering
<1>5. ASSUME Unrecorded PROVE Answering'
  <2>1. turn # NoTurn
    BY <1>5 DEF Unrecorded, NoTurn
  <2> QED BY <1>4, <1>5, <2>1 DEF Unrecorded, intake, store, ghosts
<1>6. ASSUME NextTurn PROVE Answering'
  <2>1. turn # NoTurn
    BY <1>6 DEF NextTurn, NoTurn
  <2> QED BY <1>4, <1>6, <2>1 DEF NextTurn, intake, store, ghosts
<1>7. ASSUME NEW m \in Messages, CommandEnds(m) PROVE Answering'
  <2>1. \A n \in Messages : cmd'[n] # "none" => cmd[n] # "none"
    BY <1>7 DEF CommandEnds, Step, WorkTypes
  <2>2. \/ queued' = <<>> /\ turn' = NoTurn /\ queued # <<>>
        \/ turn' = NewTurn(queued) /\ queued' = <<>> /\ queued # <<>>
        \/ UNCHANGED <<queued, turn>>
    BY <1>7 DEF CommandEnds, LetsGo
  <2> QED BY <1>4, <1>7, <2>1, <2>2 DEF CommandEnds, intake, store, ghosts
<1> QED BY <1>3, <1>5, <1>6, <1>7

\* The other steps of a command.
LEMMA CommandStepAnswering ==
  ASSUME Types, Answering, NEW c \in Messages,
         Reserve(c) \/ Execute(c) \/ Complete(c) \/ Reply(c) \/ CommandFails(c)
  PROVE  Answering'
<1> USE DEF Types, Answering
<1>1. /\ UNCHANGED <<kind, mode, checkpoint, batch, queued, turn, answers, waived>>
      /\ InBatch' = InBatch /\ InQueue' = InQueue
  BY DEF Reserve, Execute, Complete, Reply, CommandFails, store, ghosts, InBatch, InQueue
<1>2. Claims' = Claims /\ InHand' = InHand /\ Unbegun' = Unbegun /\ turn.at' = turn.at
      /\ InHand \subseteq Claims
  BY <1>1, TurnViews DEF InHand
<1>3. cmd[c] # "none" /\ kind[c] # "text"
  BY DEF Reserve, Execute, Complete, Reply, CommandFails, KindsKept
<1>4. \A n \in Messages : cmd'[n] # "none" => cmd[n] # "none"
  <2>1. \E ph \in CmdPhases : cmd' = [cmd EXCEPT ![c] = ph]
    BY DEF Reserve, Execute, Complete, Reply, CommandFails, Step, CmdPhases
  <2> QED BY <1>3, <2>1 DEF WorkTypes
<1>5. /\ lapsed \subseteq lapsed' /\ Known \subseteq Known' \cup lapsed'
      /\ Known' \subseteq Known \cup {c} /\ seen \ {c} \subseteq seen'
      /\ cached' \subseteq cached \cup {c}
      /\ c \in cached' => c \in cached \cup Known' \cup lapsed'
  <2>1. CASE Reply(c)
    <3>1. <<c>> \in Seq(Messages) /\ ToSet(<<c>>) = {c}
      BY ShortSets
    <3> QED BY <2>1, <3>1, MarkEffect DEF Reply, StoreTypes, IntakeTypes, GhostTypes
  <2>2. CASE ~Reply(c)
    BY <2>2 DEF Reserve, Execute, Complete, CommandFails, intake, store, ghosts, Known
  <2> QED BY <2>1, <2>2
<1>6. KindsKept' /\ CacheBacked'
  BY <1>1, <1>2, <1>4, <1>5 DEF KindsKept, CacheBacked
<1>7. WorkKnown' /\ WorkApart'
  BY <1>1, <1>2, <1>3, <1>5 DEF WorkKnown, WorkApart, KindsKept
<1>8. HeldIsIdle' /\ TurnCheckpointed'
  BY <1>1, <1>2, <1>5 DEF HeldIsIdle, TurnCheckpointed
<1>9. AnswerRemembered' /\ UnreadyUnanswered' /\ AnsweredOnce'
  BY <1>1, <1>5 DEF AnswerRemembered, UnreadyUnanswered, AnsweredOnce
<1>10. WaitingUnanswered' /\ VoidIsOut'
  BY <1>1, <1>2, <1>5 DEF WaitingUnanswered, VoidIsOut, Waiting
<1> QED BY <1>6, <1>7, <1>8, <1>9, <1>10
\* A text that is accepted is known nowhere else.
LEMMA CollectAnswering ==
  ASSUME Types, Answering, NEW m \in Messages, Collect(m),
         ~Completed(m), m \notin seen, seen' = seen \cup {m},
         ~Holding, mode # "off", mode' = mode, kind' = kind
  PROVE  Answering'
<1> USE DEF Types, Answering
<1> USE DEF InBatch, InQueue
<1>1. batch \in Seq(Messages) /\ queued \in Seq(Messages)
  BY DEF WorkTypes
<1>2. /\ UNCHANGED <<kind, mode, cached, ledger, checkpoint, cmd, answers, waived, lapsed>>
      /\ Known' = Known /\ kind[m] = "text"
  BY DEF Collect, store, ghosts, Known
<1>3. mode \notin {"off", "holding", "recorded"}
  BY DEF Holding
<1>4. m \notin Known /\ m \notin cached
  BY DEF Completed, Known
<1>5. m \in lapsed \/ (m \notin InBatch /\ m \notin InQueue /\ m \notin InHand)
  BY <1>4 DEF WorkKnown
<1>6. m \in lapsed \/ answers[m] = 0 \/ m \in checkpoint.claims
  <2>1. answers[m] \in 0 .. 2
    BY DEF GhostTypes
  <2> QED BY <1>4, <2>1 DEF AnswerRemembered
<1>7. m \in lapsed \/ m \notin waived
  BY <1>4 DEF VoidIsOut
<1>8. \/ /\ Claims' = Claims /\ InHand' = InHand /\ Unbegun' = Unbegun /\ turn' = turn
         /\ InQueue' = InQueue /\ InBatch' = InBatch \cup {m}
      \/ /\ Claims' = Claims /\ InHand' = InHand /\ Unbegun' = Unbegun /\ turn' = turn
         /\ InQueue' = InQueue \cup InBatch /\ InBatch' = {m}
      \/ /\ turn = NoTurn /\ turn.at' = "working" /\ Claims' = InBatch /\ InHand' = InBatch
         /\ Unbegun' = InBatch /\ InQueue' = InQueue /\ InBatch' = {m} /\ InHand = {}
  <2>1. CASE batch' = Append(batch, m) /\ UNCHANGED <<queued, turn>>
    <3>1. InBatch' = InBatch \cup {m}
      BY <1>1, <2>1, AppendSet
    <3> QED BY <2>1, <3>1, TurnViews
  <2>2. CASE QueueTurn(batch) /\ batch' = <<m>>
    <3>1. InBatch' = {m}
      BY <2>2, ShortSets
    <3>2. \/ turn' = turn /\ InQueue' = InQueue \cup InBatch
          \/ turn = NoTurn /\ turn' = NewTurn(batch) /\ InQueue' = InQueue
      BY <1>1, <2>2, QueueEffect
    <3>3. CASE turn' = turn /\ InQueue' = InQueue \cup InBatch
      BY <3>1, <3>3, TurnViews
    <3>4. CASE turn = NoTurn /\ turn' = NewTurn(batch) /\ InQueue' = InQueue
      BY <3>1, <3>4, TurnViews
    <3> QED BY <3>2, <3>3, <3>4
  <2> QED BY <2>1, <2>2 DEF Collect
<1> HIDE DEF InBatch, InQueue
<1>9. Waiting' \subseteq Waiting \cup {m}
  BY <1>8 DEF Waiting
<1>10. KindsKept' /\ CacheBacked'
  BY <1>2, <1>8 DEF KindsKept, CacheBacked
<1>11. WorkKnown'
  BY <1>2, <1>8 DEF WorkKnown
<1>12. WorkApart'
  BY <1>2, <1>5, <1>8 DEF WorkApart
<1>13. HeldIsIdle' /\ TurnCheckpointed'
  BY <1>2, <1>3, <1>8, TurnViews DEF HeldIsIdle, TurnCheckpointed
<1>14. AnswerRemembered' /\ UnreadyUnanswered' /\ AnsweredOnce'
  BY <1>2 DEF AnswerRemembered, UnreadyUnanswered, AnsweredOnce
<1>15. WaitingUnanswered'
  BY <1>2, <1>6, <1>9 DEF WaitingUnanswered
<1>16. VoidIsOut'
  BY <1>2, <1>7, <1>8, <1>9 DEF VoidIsOut
<1> QED BY <1>10, <1>11, <1>12, <1>13, <1>14, <1>15, <1>16

\* A command that is accepted makes void what waits.
LEMMA CommandAnswering ==
  ASSUME Types, Answering, NEW m \in Messages, Command(m),
         seen' = seen \cup {m}, mode' = mode, kind' = kind
  PROVE  Answering'
<1> USE DEF Types, Answering
<1>1. batch \in Seq(Messages) /\ queued \in Seq(Messages)
  BY DEF WorkTypes
<1>2. kind[m] # "text" /\ UNCHANGED <<turn, checkpoint, answers>>
  BY DEF Command
<1>3. Claims' = Claims /\ InHand' = InHand /\ Unbegun' = Unbegun /\ turn.at' = turn.at
      /\ InHand \subseteq Claims /\ Unbegun \subseteq InHand
  BY <1>2, TurnViews DEF InHand, Unbegun
<1>4. \A n \in Messages : cmd'[n] # "none" => cmd[n] # "none" \/ n = m
  BY DEF Command, WorkTypes
<1>5. InBatch \subseteq Messages /\ InQueue \subseteq Messages
  BY <1>1, SeqSet DEF InBatch, InQueue
<1>6. CASE UNCHANGED <<ledger, cached, lapsed, settling, waived, batch, queued>>
  <2>1. InBatch' = InBatch /\ InQueue' = InQueue /\ Known' = Known
    BY <1>6 DEF InBatch, InQueue, Known
  <2>2. KindsKept' /\ CacheBacked' /\ WorkKnown'
    BY <1>2, <1>3, <1>4, <1>6, <2>1 DEF KindsKept, CacheBacked, WorkKnown
  <2>3. WorkApart' /\ HeldIsIdle' /\ TurnCheckpointed'
    BY <1>2, <1>3, <1>6, <2>1 DEF WorkApart, HeldIsIdle, TurnCheckpointed
  <2>4. AnswerRemembered' /\ WaitingUnanswered' /\ UnreadyUnanswered'
    BY <1>2, <1>3, <1>6, <2>1 DEF AnswerRemembered, WaitingUnanswered, UnreadyUnanswered, Waiting
  <2>5. VoidIsOut' /\ AnsweredOnce'
    BY <1>2, <1>3, <1>6, <2>1 DEF VoidIsOut, AnsweredOnce, Waiting
  <2> QED BY <2>2, <2>3, <2>4, <2>5
<1>7. CASE kind[m] \in Control /\ batch \o queued # <<>> /\ Mark(Superseded)
  <2>1. Superseded \in Seq(Messages) /\ ToSet(Superseded) = InBatch \cup InQueue
    BY <1>1, ConcatSet DEF Superseded, InBatch, InQueue
  <2>2. /\ cached' = cached \cup InBatch \cup InQueue
        /\ Known' \subseteq Known \cup InBatch \cup InQueue
        /\ lapsed \subseteq lapsed' /\ lapsed' \subseteq Messages
        /\ Known \cup InBatch \cup InQueue \subseteq Known' \cup lapsed'
    BY <1>7, <2>1, MarkEffect DEF StoreTypes, IntakeTypes, GhostTypes
  <2>3. /\ batch' = Without(batch, ToSet(Superseded))
        /\ queued' = Without(queued, ToSet(Superseded))
        /\ waived' = waived \cup (ToSet(batch \o queued) \ checkpoint.claims)
    BY <1>7 DEF Command, Mark
  <2>4. InBatch' = {} /\ InQueue' = {}
    <3>1. InBatch' = InBatch \ ToSet(Superseded) /\ InQueue' = InQueue \ ToSet(Superseded)
      BY <1>1, <2>3, WithoutKeeps DEF InBatch, InQueue
    <3> QED BY <2>1, <3>1
  <2>5. waived' = waived \cup ((InBatch \cup InQueue) \ checkpoint.claims)
    BY <2>1, <2>3 DEF Superseded
  <2>6. mode \notin {"off", "holding", "recorded"}
    BY <1>7 DEF HeldIsIdle
  <2>7. KindsKept' /\ CacheBacked' /\ WorkKnown'
    BY <1>2, <1>3, <1>4, <2>2, <2>4 DEF KindsKept, CacheBacked, WorkKnown
  <2>8. WorkApart' /\ HeldIsIdle' /\ TurnCheckpointed'
    BY <1>2, <1>3, <2>2, <2>4, <2>6 DEF WorkApart, HeldIsIdle, TurnCheckpointed
  <2>9. AnswerRemembered' /\ WaitingUnanswered' /\ UnreadyUnanswered'
    BY <1>2, <1>3, <2>2, <2>4 DEF AnswerRemembered, WaitingUnanswered, UnreadyUnanswered, Waiting
  <2>10. AnsweredOnce'
    BY <1>2, <2>2 DEF AnsweredOnce
  <2>11. VoidIsOut'
    <3> SUFFICES ASSUME NEW n \in waived' \ lapsed'
                 PROVE  /\ n \in Known' /\ n \notin Waiting'
                        /\ turn.at' = "model" => n \notin Claims'
                        /\ n \in checkpoint.claims' => checkpoint.ready'
      BY DEF VoidIsOut
    <3>1. CASE n \in waived
      BY <1>2, <1>3, <2>2, <2>4, <3>1 DEF VoidIsOut, Waiting
    <3>2. CASE n \in (InBatch \cup InQueue) \ checkpoint.claims
      <4>1. n \notin InHand
        BY <1>5, <2>2, <3>2 DEF WorkApart
      <4>2. turn.at = "model" => InHand = Claims
        BY DEF InHand
      <4> QED BY <1>2, <1>3, <2>2, <2>4, <3>2, <4>1, <4>2 DEF Waiting
    <3> QED BY <2>5, <3>1, <3>2
  <2> QED BY <2>7, <2>8, <2>9, <2>10, <2>11
<1> QED BY <1>6, <1>7 DEF Command

\* An event that is held, dropped as a copy, settled before, or refused.
LEMMA SetAsideAnswering ==
  ASSUME Types, Answering, NEW m \in Messages, mode' = mode, kind' = kind,
         Hold(m) \/ Void(m) \/ Duplicate(m) \/ LedgerFails(m)
  PROVE  Answering'
<1> USE DEF Types, Answering
<1>1. CASE Hold(m) \/ Duplicate(m)
  <2>1. UNCHANGED Books
    BY <1>1 DEF Hold, Duplicate, Books, store, work, ghosts
  <2> QED BY <2>1, BooksUntouched
<1>2. CASE Void(m)
  <2>1. /\ UNCHANGED <<ledger, checkpoint, batch, queued, turn, cmd, answers, waived, lapsed>>
        /\ seen \subseteq seen' /\ cached' = cached \cup {m}
        /\ m \in cached \cup Known \/ kind[m] = "ignored"
    BY <1>2 DEF Void, AckLater, store, ghosts, Completed, Ignored, Known
  <2>2. /\ InBatch' = InBatch /\ InQueue' = InQueue /\ Known' = Known
        /\ Claims' = Claims /\ InHand' = InHand /\ Unbegun' = Unbegun
    BY <2>1, TurnViews DEF InBatch, InQueue, Known
  <2>3. KindsKept' /\ CacheBacked' /\ WorkKnown'
    BY <2>1, <2>2 DEF KindsKept, CacheBacked, WorkKnown
  <2>4. WorkApart' /\ HeldIsIdle' /\ TurnCheckpointed'
    BY <2>1, <2>2 DEF WorkApart, HeldIsIdle, TurnCheckpointed
  <2>5. AnswerRemembered' /\ WaitingUnanswered' /\ UnreadyUnanswered'
    BY <2>1, <2>2 DEF AnswerRemembered, WaitingUnanswered, UnreadyUnanswered, Waiting
  <2>6. VoidIsOut' /\ AnsweredOnce'
    BY <2>1, <2>2 DEF VoidIsOut, AnsweredOnce, Waiting
  <2> QED BY <2>3, <2>4, <2>5, <2>6
<1>3. CASE LedgerFails(m)
  <2>1. /\ UNCHANGED <<cached, ledger, checkpoint, turn, cmd, answers, waived, lapsed>>
        /\ UNCHANGED <<seen, batch, queued>> \/ (seen \subseteq seen' /\ batch' = <<>> /\ queued' = <<>>)
    BY <1>3 DEF LedgerFails, store, ghosts
  <2>2. Known' = Known /\ Claims' = Claims /\ InHand' = InHand
    BY <2>1, TurnViews DEF Known
  <2>3. seen \subseteq seen'
    BY <2>1
  <2>4. InBatch' \subseteq InBatch /\ InQueue' \subseteq InQueue
    BY <2>1, ShortSets DEF InBatch, InQueue
  <2>5. mode \in {"off", "holding", "recorded"} =>
          turn = NoTurn /\ batch' = <<>> /\ queued' = <<>>
    BY <2>1 DEF HeldIsIdle
  <2>6. Moved
    BY <2>1, <2>4, <2>5 DEF Moved
  <2>7. WorkApart' /\ WorkKnown'
    BY <2>1, <2>2, <2>3, <2>4 DEF WorkApart, WorkKnown
  <2> QED BY <2>6, <2>7, MovedAnswering
<1> QED BY <1>1, <1>2, <1>3

\* The first event of a response.
LEMMA AcceptAnswering ==
  ASSUME Types, Answering, Accept
  PROVE  Answering'
<1> DEFINE m == Head(inbox)
<1>1. inbox \in Seq(Messages) /\ inbox # <<>>
  BY DEF Accept, Types, IntakeTypes
<1>2. m \in Messages
  BY <1>1, HeadAndTail
<1>3. mode' = mode /\ kind' = kind /\ mode # "off"
  BY DEF Accept
<1> HIDE DEF m
<1>4. CASE Hold(m) \/ Void(m) \/ Duplicate(m) \/ LedgerFails(m)
  BY <1>2, <1>3, <1>4, SetAsideAnswering
<1>5. CASE Command(m) /\ seen' = seen \cup {m}
  BY <1>2, <1>3, <1>5, CommandAnswering
<1>6. CASE /\ Collect(m) /\ seen' = seen \cup {m} /\ ~Completed(m) /\ m \notin seen
           /\ ~Holding \/ Bypasses(m)
  <2>1. ~Holding
    BY <1>6 DEF Collect, Bypasses
  <2> QED BY <1>2, <1>3, <1>6, <2>1, CollectAnswering
<1> QED BY <1>4, <1>5, <1>6 DEF Accept, m
\* The recovery: the interrupted turn is answered, recorded, and retired.
LEMMA RecoveryAnswering ==
  ASSUME Types, Answering, Resume \/ Record \/ Retire
  PROVE  Answering'
<1> USE DEF Types, Answering
<1>1. /\ mode \in {"holding", "recorded"} /\ mode' \in {"holding", "recorded"}
      /\ UNCHANGED <<kind, seen, batch, queued, turn, cmd, waived>>
      /\ InBatch' = InBatch /\ InQueue' = InQueue
  BY DEF Resume, Record, Retire, intake, work, ghosts, InBatch, InQueue
<1>2. /\ turn = NoTurn /\ turn' = NoTurn
      /\ batch = <<>> /\ queued = <<>> /\ batch' = <<>> /\ queued' = <<>>
  BY <1>1 DEF HeldIsIdle
<1>3. /\ Claims = {} /\ InHand = {} /\ Unbegun = {} /\ turn.at = "none"
      /\ Claims' = {} /\ InHand' = {} /\ Unbegun' = {} /\ turn.at' = "none"
      /\ InBatch = {} /\ InQueue = {} /\ Waiting = {} /\ Waiting' = {}
      /\ InBatch' = {} /\ InQueue' = {}
  BY <1>1, <1>2, TurnViews, ShortSets DEF InBatch, InQueue, Waiting
<1>4. KindsKept' /\ WorkKnown' /\ WorkApart' /\ HeldIsIdle' /\ WaitingUnanswered'
  <2>1. KindsKept' /\ WorkKnown'
    BY <1>1, <1>3 DEF KindsKept, WorkKnown
  <2>2. WorkApart' /\ HeldIsIdle' /\ WaitingUnanswered'
    BY <1>2, <1>3 DEF WorkApart, HeldIsIdle, WaitingUnanswered
  <2> QED BY <2>1, <2>2
<1>5. ASSUME Resume PROVE Answering'
  <2>1. /\ UNCHANGED <<cached, ledger, lapsed>> /\ Known' = Known
        /\ checkpoint'.claims = checkpoint.claims /\ checkpoint'.ready /\ ~checkpoint.ready
        /\ mode = "holding" /\ mode' = "holding"
    BY <1>5 DEF Resume, StoreTypes, intake, work, Known
  <2>2. ASSUME NEW m \in Messages
        PROVE  /\ m \notin checkpoint.claims => answers'[m] = answers[m]
               /\ m \in checkpoint.claims /\ answers[m] = 0 => answers'[m] = 1
    BY <1>5, CountedEffect DEF Resume
  <2>3. CacheBacked' /\ TurnCheckpointed'
    BY <1>1, <1>3, <2>1 DEF CacheBacked, TurnCheckpointed
  <2>4. AnswerRemembered' /\ UnreadyUnanswered'
    BY <2>1, <2>2 DEF AnswerRemembered, UnreadyUnanswered
  <2>5. AnsweredOnce'
    BY <2>1, <2>2 DEF AnsweredOnce, UnreadyUnanswered
  <2>6. VoidIsOut'
    BY <1>1, <1>3, <2>1 DEF VoidIsOut
  <2> QED BY <1>4, <2>3, <2>4, <2>5, <2>6
<1>6. ASSUME Record PROVE Answering'
  <2>1. checkpoint.claims \in SUBSET Messages
    BY DEF StoreTypes
  <2>2. IsFiniteSet(checkpoint.claims)
    BY <2>1, Bounds, FS_Subset
  <2>3. SetToSeq(checkpoint.claims) \in Seq(checkpoint.claims)
    BY <2>2, SetAsSeq
  <2>4. SetToSeq(checkpoint.claims) \in Seq(Messages)
    BY <2>1, <2>3
  <2>5. ToSet(SetToSeq(checkpoint.claims)) = checkpoint.claims
    BY <2>2, SetAsSeq
  <2>6. /\ cached' = cached \cup checkpoint.claims
        /\ Known' \subseteq Known \cup checkpoint.claims
        /\ lapsed \subseteq lapsed' /\ lapsed' \subseteq Messages
        /\ Known \cup checkpoint.claims \subseteq Known' \cup lapsed'
    BY <1>6, <2>4, <2>5, MarkEffect DEF Record, StoreTypes, IntakeTypes, GhostTypes
  <2>7. UNCHANGED <<checkpoint, answers>> /\ checkpoint.ready
    BY <1>6 DEF Record
  <2>8. CacheBacked' /\ TurnCheckpointed'
    BY <1>1, <1>3, <2>6, <2>7 DEF CacheBacked, TurnCheckpointed
  <2>9. AnswerRemembered' /\ UnreadyUnanswered' /\ AnsweredOnce'
    BY <2>6, <2>7 DEF AnswerRemembered, UnreadyUnanswered, AnsweredOnce
  <2>10. VoidIsOut'
    BY <1>1, <1>3, <2>6, <2>7 DEF VoidIsOut
  <2> QED BY <1>4, <2>8, <2>9, <2>10
<1>7. ASSUME Retire PROVE Answering'
  <2>1. /\ UNCHANGED <<cached, ledger, lapsed, answers>> /\ Known' = Known
        /\ checkpoint'.claims = {} /\ ~checkpoint'.ready
        /\ mode = "recorded" /\ mode' = "holding"
    BY <1>7 DEF Retire, intake, work, ghosts, Known, NoCheckpoint
  <2>2. CacheBacked' /\ TurnCheckpointed'
    BY <1>1, <1>3, <2>1 DEF CacheBacked, TurnCheckpointed
  <2>3. AnswerRemembered' /\ UnreadyUnanswered' /\ AnsweredOnce'
    BY <2>1 DEF AnswerRemembered, UnreadyUnanswered, AnsweredOnce, TurnCheckpointed
  <2>4. VoidIsOut'
    BY <1>1, <1>3, <2>1 DEF VoidIsOut
  <2> QED BY <1>4, <2>2, <2>3, <2>4
<1> QED BY <1>5, <1>6, <1>7

\* The process starts, lets its inbound go, and ends.
LEMMA ProcessStepAnswering ==
  ASSUME Types, Answering,
         Start \/ Release \/ StopIntake \/ Cancel \/ Exit \/ Crash
  PROVE  Answering'
<1> USE DEF Types, Answering
<1>1. ASSUME Start \/ Release \/ StopIntake PROVE Answering'
  <2>1. /\ UNCHANGED <<kind, seen, cached, ledger, checkpoint, batch, queued, turn,
                       cmd, answers, waived, lapsed>>
        /\ mode' \in {"holding", "up", "stopping"}
        /\ mode' = "holding" => mode = "off"
    BY <1>1 DEF Start, Release, StopIntake, intake, store, work, ghosts
  <2>2. InBatch' = InBatch /\ InQueue' = InQueue /\ InHand' = InHand /\ Known' = Known
    BY <2>1, TurnViews DEF InBatch, InQueue, Known
  <2>3. Moved
    BY <2>1, <2>2 DEF Moved, HeldIsIdle
  <2>4. WorkApart' /\ WorkKnown'
    BY <2>1, <2>2 DEF WorkApart, WorkKnown
  <2> QED BY <2>3, <2>4, MovedAnswering
<1>2. ASSUME Cancel \/ Exit \/ Crash PROVE Answering'
  <2>1. /\ UNCHANGED <<kind, ledger, checkpoint, answers, waived, lapsed>>
        /\ cached' \subseteq cached
        /\ turn' = NoTurn /\ batch' = <<>> /\ queued' = <<>>
        /\ cmd' = [m \in Messages |-> "none"]
        /\ mode' # "recorded"
    BY <1>2 DEF Cancel, Exit, Crash, Gone, NoWork, store, ghosts
  <2>2. /\ InBatch' = {} /\ InQueue' = {} /\ Known' = Known
        /\ Claims' = {} /\ InHand' = {} /\ Unbegun' = {} /\ turn.at' = "none"
        /\ Waiting' = {}
    BY <2>1, TurnViews, ShortSets DEF InBatch, InQueue, Known, Waiting
  <2>3. KindsKept' /\ CacheBacked' /\ WorkKnown'
    BY <2>1, <2>2 DEF KindsKept, CacheBacked, WorkKnown
  <2>4. WorkApart' /\ HeldIsIdle' /\ TurnCheckpointed'
    BY <2>1, <2>2 DEF WorkApart, HeldIsIdle, TurnCheckpointed
  <2>5. AnswerRemembered' /\ WaitingUnanswered' /\ UnreadyUnanswered'
    BY <2>1, <2>2 DEF AnswerRemembered, WaitingUnanswered, UnreadyUnanswered
  <2>6. VoidIsOut' /\ AnsweredOnce'
    BY <2>1, <2>2 DEF VoidIsOut, AnsweredOnce
  <2> QED BY <2>3, <2>4, <2>5, <2>6
<1> QED BY <1>1, <1>2

\* An identity that the caches forget is still known, or has lapsed.
LEMMA ExpireAnswering ==
  ASSUME Types, Answering, NEW m \in Messages, Expire(m)
  PROVE  Answering'
<1> USE DEF Types, Answering
<1>1. /\ UNCHANGED <<kind, mode, ledger, checkpoint, batch, queued, turn, cmd, answers, waived>>
      /\ InBatch' = InBatch /\ InQueue' = InQueue /\ Known' = Known
  BY DEF Expire, store, work, InBatch, InQueue, Known
<1>2. Claims' = Claims /\ InHand' = InHand /\ Unbegun' = Unbegun /\ turn.at' = turn.at
      /\ Waiting' = Waiting
  BY <1>1, TurnViews DEF Waiting
<1>3. /\ cached' \subseteq cached /\ lapsed \subseteq lapsed' /\ lapsed' \subseteq Messages
      /\ seen \ {m} \subseteq seen'
      /\ m \in seen' \/ m \notin seen \/ m \in lapsed' \/ m \in Known
  <2>1. Completed(m) => m \in Known \/ m \in lapsed \/ kind[m] = "ignored"
    BY DEF CacheBacked, Completed, Known
  <2> QED BY <2>1 DEF Expire, GhostTypes
<1>4. KindsKept' /\ CacheBacked' /\ WorkKnown'
  BY <1>1, <1>2, <1>3 DEF KindsKept, CacheBacked, WorkKnown
<1>5. WorkApart' /\ HeldIsIdle' /\ TurnCheckpointed'
  BY <1>1, <1>2, <1>3 DEF WorkApart, HeldIsIdle, TurnCheckpointed
<1>6. AnswerRemembered' /\ WaitingUnanswered' /\ UnreadyUnanswered'
  BY <1>1, <1>2, <1>3 DEF AnswerRemembered, WaitingUnanswered, UnreadyUnanswered
<1>7. VoidIsOut' /\ AnsweredOnce'
  BY <1>1, <1>2, <1>3 DEF VoidIsOut, AnsweredOnce
<1> QED BY <1>4, <1>5, <1>6, <1>7

\* The steps of the spool leave the books alone.
LEMMA SpoolAnswering ==
  ASSUME Answering,
         \/ (\E m \in Messages : Enqueue(m)) \/ Claim \/ Receive \/ Lose
         \/ (\E r \in settling : Settle(r) \/ SettleFails(r))
         \/ BridgeDies \/ BridgeBack \/ GiveUp \/ RecoveryFails
  PROVE  Answering'
<1>1. UNCHANGED Books
  BY DEF Enqueue, Claim, Receive, Lose, Settle, SettleFails, BridgeDies, BridgeBack,
         GiveUp, RecoveryFails, Books, intake, store, work, ghosts
<1> QED BY <1>1, BooksUntouched

\* All of them.
LEMMA StepAnswering ==
  ASSUME Types, Answering, Next
  PROVE  Answering'
<1>1. CASE \/ (\E m \in Messages : Enqueue(m)) \/ Claim \/ Receive \/ Lose
           \/ (\E r \in settling : Settle(r) \/ SettleFails(r))
           \/ BridgeDies \/ BridgeBack \/ GiveUp \/ RecoveryFails
  BY <1>1, SpoolAnswering
<1>2. CASE Accept
  BY <1>2, AcceptAnswering
<1>3. CASE Begin
  BY <1>3, BeginAnswering
<1>4. CASE Refuse \/ Raise
  BY <1>4, HandlerFailsAnswering DEF Refuse, Raise
<1>5. CASE Answer
  BY <1>5, AnswerAnswering
<1>6. CASE Stopped
  BY <1>6, StoppedAnswering
<1>7. CASE Fence \/ Return
  BY <1>7, RecordedAnswering
<1>8. CASE Finalize
  BY <1>8, FinalizeAnswering
<1>9. CASE Flush \/ Unrecorded \/ NextTurn
  BY <1>9, QueueStepAnswering
<1>10. CASE \E m \in Messages : CommandStep(m) \/ CommandFails(m)
  BY <1>10, QueueStepAnswering, CommandStepAnswering DEF CommandStep
<1>11. CASE Resume \/ Record \/ Retire
  BY <1>11, RecoveryAnswering
<1>12. CASE Start \/ Release \/ StopIntake \/ Cancel \/ Exit \/ Crash
  BY <1>12, ProcessStepAnswering
<1>13. CASE \E m \in Messages : Expire(m)
  BY <1>13, ExpireAnswering
<1> QED BY Zenon, <1>1, <1>2, <1>3, <1>4, <1>5, <1>6, <1>7, <1>8, <1>9, <1>10,
           <1>11, <1>12, <1>13 DEF Next, Progress, Trouble
-----------------------------------------------------------------------------
(* Executed once.                                                          *)

\* Every step keeps the part on commands: the reservation comes first.
LEMMA StepExecuting ==
  ASSUME Types, Executing, Next
  PROVE  Executing'
<1> USE DEF Executing, Types
<1>1. ASSUME UNCHANGED <<outcome, runs>>,
             \A m \in Messages : cmd'[m] \in {"executing", "saved"} => cmd'[m] = cmd[m]
      PROVE  Executing'
  BY <1>1 DEF RunReserved, ExecutedOnce
<1>2. CASE UNCHANGED <<cmd, outcome, runs>>
  BY <1>1, <1>2
<1>3. ASSUME NEW m \in Messages, NEW ph \in CmdPhases, cmd' = [cmd EXCEPT ![m] = ph]
      PROVE  cmd'[m] = ph /\ \A n \in Messages \ {m} : cmd'[n] = cmd[n]
  BY <1>3 DEF WorkTypes
<1>4. ASSUME NEW m \in Messages, Command(m) PROVE Executing'
  <2>1. cmd' = [cmd EXCEPT ![m] = "waiting"] /\ "waiting" \in CmdPhases
    BY <1>4 DEF Command, CmdPhases
  <2> QED BY <1>1, <1>3, <1>4, <2>1 DEF Command
<1>5. CASE Accept
  <2>1. inbox \in Seq(Messages) /\ inbox # <<>>
    BY <1>5 DEF Accept, IntakeTypes
  <2>2. Head(inbox) \in Messages
    BY <2>1, HeadAndTail
  <2>3. CASE Command(Head(inbox))
    BY <1>4, <2>2, <2>3
  <2>4. CASE ~Command(Head(inbox))
    BY <1>2, <1>5, <2>4
    DEF Accept, Hold, Void, Duplicate, Collect, LedgerFails, store, work, ghosts
  <2> QED BY <2>3, <2>4
<1>6. ASSUME NEW m \in Messages, Reserve(m) PROVE Executing'
  <2>1. PICK ph \in {"executing", "saved", "executed"} :
          /\ cmd' = [cmd EXCEPT ![m] = ph] /\ runs' = runs
          /\ \/ /\ ph = "executing" /\ outcome[m] = "none"
                /\ outcome' = [outcome EXCEPT ![m] = "started"]
             \/ outcome' = outcome /\ ph = "saved" /\ outcome[m] = "completed"
             \/ outcome' = outcome /\ ph = "executed"
    BY <1>6 DEF Reserve, Step, MayExecute, ghosts
  <2>2. cmd'[m] = ph /\ \A n \in Messages \ {m} : cmd'[n] = cmd[n]
    BY <1>3, <2>1 DEF CmdPhases
  <2>3. \A n \in Messages \ {m} : outcome'[n] = outcome[n]
    BY <2>1 DEF StoreTypes
  <2>4. ph = "executing" => outcome'[m] = "started" /\ outcome[m] = "none"
    BY <2>1 DEF StoreTypes
  <2>5. runs[m] \in Nat
    BY DEF GhostTypes
  <2> QED BY <2>1, <2>2, <2>3, <2>4, <2>5 DEF RunReserved, ExecutedOnce
<1>7. ASSUME NEW m \in Messages, Execute(m) PROVE Executing'
  <2>1. /\ cmd' = [cmd EXCEPT ![m] = "executed"] /\ cmd[m] = "executing"
        /\ runs' = [runs EXCEPT ![m] = @ + 1] /\ outcome' = outcome
    BY <1>7 DEF Execute, Step, store
  <2>2. cmd'[m] = "executed" /\ \A n \in Messages \ {m} : cmd'[n] = cmd[n]
    BY <1>3, <2>1 DEF CmdPhases
  <2>3. runs[m] = 0 /\ runs'[m] = 1 /\ \A n \in Messages \ {m} : runs'[n] = runs[n]
    BY <2>1 DEF GhostTypes, RunReserved
  <2> QED BY <2>1, <2>2, <2>3 DEF RunReserved, ExecutedOnce
<1>8. ASSUME NEW m \in Messages, Complete(m) PROVE Executing'
  <2>1. /\ cmd' = [cmd EXCEPT ![m] = "saved"] /\ runs' = runs
        /\ outcome' = [outcome EXCEPT ![m] = "completed"]
    BY <1>8 DEF Complete, Step, ghosts
  <2>2. cmd'[m] = "saved" /\ \A n \in Messages \ {m} : cmd'[n] = cmd[n]
    BY <1>3, <2>1 DEF CmdPhases
  <2>3. outcome'[m] = "completed" /\ \A n \in Messages \ {m} : outcome'[n] = outcome[n]
    BY <2>1 DEF StoreTypes
  <2> QED BY <2>1, <2>2, <2>3 DEF RunReserved, ExecutedOnce
<1>9. ASSUME NEW m \in Messages, Reply(m) \/ CommandEnds(m) \/ CommandFails(m)
      PROVE  Executing'
  <2>1. PICK ph \in {"settling", "none"} : cmd' = [cmd EXCEPT ![m] = ph]
    BY <1>9 DEF Reply, CommandEnds, CommandFails, Step
  <2>2. UNCHANGED <<outcome, runs>>
    BY <1>9 DEF Reply, CommandEnds, CommandFails, store, ghosts
  <2> QED BY <1>1, <1>3, <2>1, <2>2 DEF CmdPhases
<1>10. CASE Cancel \/ Exit \/ Crash
  <2>1. UNCHANGED <<outcome, runs>> /\ cmd' = [m \in Messages |-> "none"]
    BY <1>10 DEF Cancel, Exit, Crash, Gone, NoWork, store, ghosts
  <2> QED BY <1>1, <2>1
<1>11. CASE \/ (\E m \in Messages : Enqueue(m)) \/ Claim \/ Receive \/ Lose
            \/ (\E r \in settling : Settle(r) \/ SettleFails(r))
            \/ BridgeDies \/ BridgeBack \/ GiveUp \/ RecoveryFails
            \/ (\E m \in Messages : Expire(m))
  BY <1>2, <1>11
  DEF Enqueue, Claim, Receive, Lose, Settle, SettleFails, BridgeDies, BridgeBack,
      GiveUp, RecoveryFails, Expire, store, work, ghosts
<1>12. CASE \/ Flush \/ Begin \/ Refuse \/ Raise \/ Answer \/ Stopped \/ Fence
            \/ Finalize \/ Return \/ Unrecorded \/ NextTurn
  BY <1>2, <1>12
  DEF Flush, Begin, Refuse, Raise, HandlerFails, Answer, Stopped, Fence, Finalize,
      Return, Unrecorded, NextTurn, store, work, ghosts
<1>13. CASE Start \/ Resume \/ Record \/ Retire \/ Release \/ StopIntake
  BY <1>2, <1>13
  DEF Start, Resume, Record, Retire, Release, StopIntake, store, work, ghosts
<1> QED BY Zenon, <1>5, <1>6, <1>7, <1>8, <1>9, <1>10, <1>11, <1>12, <1>13
    DEF Next, Progress, Trouble, CommandStep

-----------------------------------------------------------------------------
(* Nothing lost.                                                           *)

\* A cause stays while what it rests on does.
LEMMA CauseStays ==
  ASSUME Types, NEW m \in Messages, Cause(m), kind' = kind,
         answers'[m] = answers[m] \/ answers'[m] > 0,
         outcome[m] = "completed" => outcome'[m] = "completed",
         waived \subseteq waived',
         m \in checkpoint.claims =>
           m \in checkpoint'.claims \/ answers'[m] > 0 \/ m \in waived'
  PROVE  Cause(m)'
BY DEF Cause

\* What a step has to show, in four parts: it takes no cause away ...
CausesKept == \A m \in Messages : Cause(m) => Cause(m)'
\* New entries of ledger and cache have their cause.
RecordedForCause == \A m \in (Known' \cup cached') \ (Known \cup cached) : Cause(m)'
\* A new acknowledgement has a cause for every claim, or goes on with an old one.
AckedForCause ==
    \A r \in settling' : r.act = "ack" =>
        \/ \E s \in settling : s.act = "ack" /\ r.claims \subseteq s.claims
        \/ \A m \in r.claims : Cause(m)'
\* Only messages with a cause leave the spool.
LeftForCause ==
    \A m \in Messages \ next : m \in ToSet(accepted) \ ToSet(done) =>
        m \in ToSet(accepted') \ ToSet(done') \/ Cause(m)'
\* What arrives is in the spool.
ArrivedInSpool ==
    \A m \in next \ next' : m \in ToSet(accepted') \ ToSet(done')

\* A step that shows this keeps the whole part.
LEMMA KeepingStep ==
  ASSUME Types, Keeping, kind' = kind, Types',
         CausesKept, RecordedForCause, AckedForCause, LeftForCause, ArrivedInSpool,
         ReadyAnswered'
  PROVE  Keeping'
<1> USE DEF Keeping
<1>1. Known \cup cached \subseteq Messages
  BY SeqSet DEF Types, StoreTypes, IntakeTypes, Known
<1>2. \A r \in settling : r.claims \subseteq Messages
  BY DEF Types, SettlingTypes, SettleRecord
<1>3. \A m \in Known' \cup cached' : Cause(m)'
  BY <1>1 DEF SettledForCause, CausesKept, RecordedForCause
<1>4. ASSUME NEW r \in settling', r.act = "ack", NEW m \in r.claims PROVE Cause(m)'
  BY <1>2, <1>4 DEF SettledForCause, CausesKept, AckedForCause
<1>5. SettledForCause'
  BY <1>3, <1>4 DEF SettledForCause
<1>6. NothingLost'
  <2> SUFFICES ASSUME NEW m \in Messages, m \notin next'
               PROVE  \/ kind[m] = "none"
                      \/ m \in ToSet(accepted') \ ToSet(done')
                      \/ Cause(m)'
    BY DEF NothingLost
  <2> QED BY DEF NothingLost, CausesKept, LeftForCause, ArrivedInSpool
<1> QED BY <1>5, <1>6

\* The steps that leave the causes alone.
Grounds == <<kind, answers, checkpoint, outcome, waived>>

\* A step that leaves the grounds alone takes no cause away.
LEMMA GroundsKept ==
  ASSUME Types, UNCHANGED Grounds
  PROVE  /\ CausesKept
         /\ \A m : Cause(m) <=> Cause(m)'
         /\ ReadyAnswered /\ turn' = turn => ReadyAnswered'
<1>1. \A m : Cause(m) <=> Cause(m)'
  BY DEF Grounds, Cause
<1>2. CausesKept
  BY <1>1 DEF CausesKept
<1>3. ASSUME ReadyAnswered, turn' = turn PROVE ReadyAnswered'
  BY <1>1, <1>3 DEF Grounds, ReadyAnswered, Claims
<1> QED BY <1>1, <1>2, <1>3
\* Another attempt acknowledges nothing new.
LEMMA AgainAcks ==
  ASSUME Types, NEW r \in settling, Again(r) \/ settling' = settling \ {r}
  PROVE  AckedForCause
<1>1. r \in SettleRecord
  BY DEF Types, SettlingTypes
<1>2. [r EXCEPT !.tries = @ + 1].act = r.act /\ [r EXCEPT !.tries = @ + 1].claims = r.claims
  BY <1>1 DEF SettleRecord
<1> QED BY <1>2 DEF Again, AckedForCause

\* The spool's own steps.
LEMMA SpoolKeeping ==
  ASSUME Types, Keeping, Types',
         \/ (\E m \in Messages : Enqueue(m)) \/ Claim \/ Receive \/ Lose
         \/ (\E r \in settling : Settle(r) \/ SettleFails(r))
         \/ BridgeDies \/ BridgeBack \/ GiveUp \/ RecoveryFails \/ Start
  PROVE  Keeping'
<1>1. UNCHANGED Grounds /\ UNCHANGED <<turn, ledger, cached>>
  BY DEF Enqueue, Claim, Receive, Lose, Settle, SettleFails, BridgeDies, BridgeBack,
         GiveUp, RecoveryFails, Start, Grounds, intake, store, work, ghosts
<1>2. CausesKept /\ (\A m : Cause(m) <=> Cause(m)') /\ ReadyAnswered'
  BY <1>1, GroundsKept DEF Keeping
<1>3. RecordedForCause /\ kind' = kind
  BY <1>1 DEF RecordedForCause, Known, Grounds
<1>4. accepted \in Seq(Messages) /\ done \in Seq(Messages)
  BY DEF Types, SpoolTypes
<1>5. ASSUME AckedForCause, LeftForCause, ArrivedInSpool PROVE Keeping'
  BY <1>2, <1>3, <1>5, KeepingStep
<1>6. UNCHANGED settling => AckedForCause
  BY DEF AckedForCause
<1>7. next' = next => ArrivedInSpool
  BY DEF ArrivedInSpool
<1>8. ASSUME NEW m \in Messages, Enqueue(m) PROVE Keeping'
  <2>1. ToSet(accepted') = ToSet(accepted) \cup {m}
    BY <1>4, <1>8, AppendSet DEF Enqueue
  <2>2. done' = done /\ m \notin ToSet(done) /\ next' = next \ {m} /\ settling' = settling
    BY <1>8 DEF Enqueue, spool, work
  <2>3. LeftForCause /\ ArrivedInSpool
    BY <2>1, <2>2 DEF LeftForCause, ArrivedInSpool
  <2> QED BY <1>5, <1>6, <2>2, <2>3
<1>9. ASSUME Claim PROVE Keeping'
  <2>1. ToSet(accepted') = ToSet(accepted) \ (ToSet(done) \ claimed)
    BY <1>4, <1>9, WithoutKeeps DEF Claim
  <2>2. done' = done /\ next' = next /\ settling' = settling
    BY <1>9 DEF Claim, work
  <2>3. LeftForCause
    BY <2>1, <2>2 DEF LeftForCause
  <2> QED BY <1>5, <1>6, <1>7, <2>2, <2>3
<1>10. UNCHANGED <<accepted, done>> => LeftForCause
  BY DEF LeftForCause
<1>11. ASSUME Receive \/ Lose \/ GiveUp \/ RecoveryFails PROVE Keeping'
  <2>1. UNCHANGED <<next, accepted, done, settling>>
    BY <1>11 DEF Receive, Lose, GiveUp, RecoveryFails, spool, work
  <2> QED BY <1>5, <1>6, <1>7, <1>10, <2>1
<1>12. ASSUME Restored, UNCHANGED <<next, settling>> PROVE Keeping'
  <2>1. ToSet(accepted') = ToSet(accepted) \ (claimed \cap ToSet(done))
    BY <1>4, <1>12, WithoutKeeps DEF Restored
  <2>2. ToSet(done') \subseteq ToSet(done)
    BY <1>4, <1>12, PrunedSet DEF Restored
  <2>3. LeftForCause
    BY <2>1, <2>2 DEF LeftForCause
  <2> QED BY <1>5, <1>6, <1>7, <1>12, <2>3
<1>13. ASSUME BridgeBack \/ Start PROVE Keeping'
  BY <1>12, <1>13 DEF BridgeBack, Start, work
<1>14. ASSUME BridgeDies PROVE Keeping'
  <2>1. UNCHANGED <<next, accepted, settling>>
    BY <1>14 DEF BridgeDies, work
  <2>2. CASE done' = done
    BY <1>5, <1>6, <1>7, <1>10, <2>1, <2>2
  <2>3. CASE \E r \in settling : \E m \in r.claims \cap ToSet(accepted) :
               r.act = "ack" /\ done' = Append(done, m)
    <3>1. PICK r \in settling : \E m \in r.claims \cap ToSet(accepted) :
                 r.act = "ack" /\ done' = Append(done, m)
      BY <2>3
    <3>2. PICK m \in r.claims \cap ToSet(accepted) : r.act = "ack" /\ done' = Append(done, m)
      BY <3>1
    <3>3. m \in Messages /\ Cause(m)'
      BY <1>2, <1>4, <3>2, SeqSet DEF Keeping, SettledForCause
    <3>4. ToSet(done') = ToSet(done) \cup {m}
      BY <1>4, <3>2, <3>3, AppendSet
    <3>5. LeftForCause
      BY <2>1, <3>3, <3>4 DEF LeftForCause
    <3> QED BY <1>5, <1>6, <1>7, <2>1, <3>5
  <2> QED BY <1>14, <2>2, <2>3 DEF BridgeDies
<1>15. ASSUME NEW r \in settling, Settle(r) \/ SettleFails(r) PROVE Keeping'
  <2>1. next' = next /\ AckedForCause
    <3>1. Again(r) \/ settling' = settling \ {r}
      BY <1>15 DEF Settle, SettleFails
    <3>2. next' = next
      BY <1>15 DEF Settle, SettleFails, spool
    <3> QED BY <3>1, <3>2, AgainAcks
  <2>2. CASE UNCHANGED <<accepted, done>>
    BY <1>5, <1>7, <1>10, <2>1, <2>2
  <2>3. CASE Settled(r) /\ r.act = "ack"
    <3> DEFINE known == (ToSet(accepted) \cap r.claims) \ ToSet(done)
    <3>1. known \in SUBSET Messages
      BY <1>4, SeqSet
    <3>2. IsFiniteSet(known)
      BY <3>1, Bounds, FS_Subset
    <3>3. /\ done' = PrunedDone(done \o SetToSeq(known))
          /\ accepted' = Without(accepted, known)
      BY <2>3 DEF Settled
    <3>4. known \subseteq r.claims
      OBVIOUS
    <3> HIDE DEF known
    <3>5. SetToSeq(known) \in Seq(known) /\ ToSet(SetToSeq(known)) = known
      BY <3>2, SetAsSeq
    <3>6. SetToSeq(known) \in Seq(Messages)
      BY <3>1, <3>5
    <3>7. done \o SetToSeq(known) \in Seq(Messages)
      BY <1>4, <3>6, ConcatSet
    <3>8. ToSet(done \o SetToSeq(known)) = ToSet(done) \cup known
      BY <1>4, <3>5, <3>6, ConcatSet
    <3>9. ToSet(done') \subseteq ToSet(done) \cup known
      BY <3>3, <3>7, <3>8, PrunedSet
    <3>10. ToSet(accepted') = ToSet(accepted) \ known
      BY <1>4, <3>3, WithoutKeeps
    <3>11. \A m \in known : Cause(m)'
      BY <1>2, <2>3, <3>4 DEF Keeping, SettledForCause
    <3>12. LeftForCause
      BY <3>9, <3>10, <3>11 DEF LeftForCause
    <3> QED BY <1>5, <1>7, <2>1, <3>12
  <2>4. CASE Settled(r) /\ r.act # "ack"
    BY <2>2, <2>4 DEF Settled
  <2> QED BY <1>15, <2>2, <2>3, <2>4 DEF Settle, SettleFails, spool
<1> QED BY <1>8, <1>9, <1>11, <1>13, <1>14, <1>15
\* The steps that leave the spool alone.
LEMMA KeepingAside ==
  ASSUME Types, Keeping, Types', UNCHANGED <<kind, next, accepted, done>>,
         CausesKept, RecordedForCause, AckedForCause, ReadyAnswered'
  PROVE  Keeping'
<1>1. LeftForCause /\ ArrivedInSpool
  BY DEF LeftForCause, ArrivedInSpool
<1> QED BY <1>1, KeepingStep

\* Those that write no book either, but may move the turn on.
LEMMA KeepingStill ==
  ASSUME Types, Keeping, Types', UNCHANGED Grounds, UNCHANGED <<next, accepted, done>>,
         ledger' = ledger, cached' \subseteq cached,
         \A r \in settling' : r.act = "ack" => r \in settling,
         turn' = turn \/ turn.at' # "fenced"
  PROVE  Keeping'
<1>1. CausesKept /\ (turn' = turn => ReadyAnswered')
  BY GroundsKept DEF Keeping
<1>2. turn.at' # "fenced" => ReadyAnswered'
  BY DEF Keeping, ReadyAnswered, Grounds
<1>3. RecordedForCause
  BY DEF RecordedForCause, Known
<1>4. AckedForCause
  BY DEF AckedForCause
<1>5. kind' = kind
  BY DEF Grounds
<1> QED BY <1>1, <1>2, <1>3, <1>4, <1>5, KeepingAside

\* The first event of a response.
LEMMA AcceptKeeping ==
  ASSUME Types, Keeping, Types', Accept
  PROVE  Keeping'
<1>1. inbox \in Seq(Messages) /\ inbox # <<>>
  BY DEF Accept, Types, IntakeTypes
<1>2. PICK m \in Messages : m = Head(inbox)
  BY <1>1, HeadAndTail
<1>3. UNCHANGED <<kind, next, accepted, done>>
  BY DEF Accept, spool
<1>4. batch \in Seq(Messages) /\ queued \in Seq(Messages)
  BY DEF Types, WorkTypes
<1>5. CASE Hold(m) \/ Duplicate(m) \/ LedgerFails(m)
  BY <1>3, <1>5, KeepingStill DEF Hold, Duplicate, LedgerFails, store, work, ghosts, Grounds
<1>6. CASE Collect(m)
  <2>1. turn' = turn \/ turn.at' # "fenced"
    <3>1. turn' = turn \/ turn' = NewTurn(batch)
      BY <1>6 DEF Collect, QueueTurn
    <3> QED BY <3>1 DEF NewTurn
  <2> QED BY <1>3, <1>6, <2>1, KeepingStill DEF Collect, store, ghosts, Grounds
<1>7. CASE Void(m)
  <2>1. UNCHANGED Grounds /\ UNCHANGED <<ledger, turn>>
    BY <1>3, <1>7 DEF Void, store, ghosts, Grounds
  <2>2. CausesKept /\ (\A n : Cause(n) <=> Cause(n)') /\ ReadyAnswered'
    BY <2>1, GroundsKept DEF Keeping
  <2>3. Cause(m)'
    <3>1. CASE Completed(m)
      BY <2>2, <3>1 DEF Completed, Keeping, SettledForCause, Known
    <3>2. CASE Ignored(m)
      BY <2>2, <3>2 DEF Ignored, Cause
    <3> QED BY <1>7, <3>1, <3>2 DEF Void
  <2>4. cached' = cached \cup {m} /\ settling' = settling \cup {Settling("ack", {m}, Later)}
    BY <1>7 DEF Void, AckLater
  <2>5. RecordedForCause
    BY <2>1, <2>3, <2>4 DEF RecordedForCause, Known
  <2>6. AckedForCause
    BY <2>3, <2>4 DEF AckedForCause, Settling
  <2> QED BY <1>3, <2>2, <2>5, <2>6, KeepingAside
<1>8. CASE Command(m)
  <2>1. UNCHANGED <<turn, checkpoint, outcome, answers>>
    BY <1>8 DEF Command
  <2>2. CASE UNCHANGED <<ledger, cached, lapsed, settling, waived, batch, queued>>
    BY <1>3, <2>1, <2>2, KeepingStill DEF Grounds
  <2>3. CASE kind[m] \in Control /\ batch \o queued # <<>>
    <3>1. /\ Mark(Superseded)
          /\ settling' = settling \cup {Settling("ack", ToSet(Superseded), Later)}
          /\ waived' = waived \cup (ToSet(batch \o queued) \ checkpoint.claims)
      BY <1>8, <2>3 DEF Command
    <3>2. \A n \in Messages : Cause(n) => Cause(n)'
      BY <1>3, <2>1, <3>1, CauseStays
    <3>3. Superseded \in Seq(Messages)
      BY <1>4, ConcatSet DEF Superseded
    <3>4. \A n \in ToSet(Superseded) : Cause(n)'
      BY <2>1, <3>1 DEF Superseded, Cause
    <3>5. cached' = cached \cup ToSet(Superseded) /\ Known' \subseteq Known \cup ToSet(Superseded)
      BY <3>1, <3>3, MarkEffect DEF Types, StoreTypes, IntakeTypes, GhostTypes
    <3>6. RecordedForCause
      BY <3>4, <3>5 DEF RecordedForCause
    <3>7. AckedForCause
      BY <3>1, <3>4 DEF AckedForCause, Settling
    <3>8. CausesKept
      BY <3>2 DEF CausesKept
    <3>9. ReadyAnswered'
      <4>1. Claims' = Claims /\ Claims \subseteq Messages
        BY <2>1, ClaimsType DEF Claims, Types
      <4> QED BY <2>1, <3>2, <4>1 DEF Keeping, ReadyAnswered
    <3> QED BY <1>3, <3>6, <3>7, <3>8, <3>9, KeepingAside
  <2> QED BY <1>8, <2>2, <2>3 DEF Command
<1> QED BY <1>2, <1>5, <1>6, <1>7, <1>8 DEF Accept

\* The turn of the queue.
LEMMA TurnKeeping ==
  ASSUME Types, Answering, Keeping, Types',
         \/ Flush \/ Begin \/ Refuse \/ Raise \/ Answer \/ Stopped \/ Fence
         \/ Finalize \/ Return \/ Unrecorded \/ NextTurn
  PROVE  Keeping'
<1>1. UNCHANGED <<kind, next, accepted, done>>
  BY DEF Flush, Begin, Refuse, Raise, HandlerFails, Answer, Stopped, Fence, Finalize,
         Return, Unrecorded, NextTurn, spool
<1>2. Claims \in SUBSET Messages /\ turn.claims \in Seq(Messages)
  BY ClaimsType DEF Types
<1>3. ASSUME NEW ph \in {"model", "ready", "answered", "fenced", "settling"}, At(ph)
      PROVE  Claims' = Claims /\ turn.at' = ph
  BY <1>3, TurnViews DEF Types, TurnPhases
<1>4. ASSUME Flush PROVE Keeping'
  <2>1. turn' = turn \/ turn.at' # "fenced"
    BY <1>4 DEF Flush, QueueTurn, NewTurn
  <2> QED BY <1>1, <1>4, <2>1, KeepingStill DEF Flush, intake, store, ghosts, Grounds
<1>5. ASSUME Unrecorded \/ NextTurn PROVE Keeping'
  <2>1. turn.at' # "fenced"
    BY <1>5 DEF Unrecorded, NextTurn, NewTurn, NoTurn
  <2> QED BY <1>1, <1>5, <2>1, KeepingStill DEF Unrecorded, NextTurn, intake, store, ghosts, Grounds
<1>6. ASSUME HandlerFails PROVE Keeping'
  <2>1. turn.at' # "fenced"
    BY <1>3, <1>6 DEF HandlerFails
  <2>2. \A r \in settling' : r.act = "ack" => r \in settling
    BY <1>6 DEF HandlerFails, HandedBack, Settling
  <2> QED BY <1>1, <1>6, <2>1, <2>2, KeepingStill DEF HandlerFails, store, ghosts, Grounds
<1>7. UNCHANGED settling => AckedForCause
  BY DEF AckedForCause
<1>8. UNCHANGED <<ledger, cached>> => RecordedForCause
  BY DEF RecordedForCause, Known
<1>9. ASSUME Mark(turn.claims), \A m \in Claims : Cause(m)' PROVE RecordedForCause
  <2>1. cached' = cached \cup Claims /\ Known' \subseteq Known \cup Claims
    BY <1>2, <1>9, MarkEffect DEF Types, StoreTypes, IntakeTypes, GhostTypes, Claims
  <2> QED BY <1>9, <2>1 DEF RecordedForCause
<1>10. ASSUME Begin PROVE Keeping'
  <2>1. CausesKept
    <3> SUFFICES ASSUME NEW m \in Messages, Cause(m) PROVE Cause(m)'
      BY DEF CausesKept
    <3>1. checkpoint.claims = {}
      BY <1>10 DEF Begin, NoCheckpoint
    <3> QED BY <1>1, <1>10, <3>1, CauseStays DEF Begin, ghosts
  <2>2. ReadyAnswered'
    BY <1>3, <1>10 DEF Begin, ReadyAnswered
  <2> QED BY <1>1, <1>7, <1>8, <1>10, <2>1, <2>2, KeepingAside DEF Begin, intake
<1>11. ASSUME Answer PROVE Keeping'
  <2>1. checkpoint'.claims = checkpoint.claims /\ checkpoint.claims = Claims
    BY <1>11 DEF Answer, Types, StoreTypes, Answering, TurnCheckpointed
  <2>2. ASSUME NEW m \in Messages
        PROVE  /\ answers'[m] = answers[m] \/ answers'[m] > 0
               /\ m \in Claims => answers'[m] > 0
    BY <1>11, CountedEffect DEF Answer, Types
  <2>3. CausesKept
    BY <1>1, <1>11, <2>1, <2>2, CauseStays DEF CausesKept, Answer
  <2>4. ReadyAnswered'
    BY <1>2, <1>3, <1>11, <2>1, <2>2 DEF Answer, ReadyAnswered
  <2> QED BY <1>1, <1>7, <1>8, <1>11, <2>3, <2>4, KeepingAside DEF Answer, intake
<1>12. ASSUME Stopped PROVE Keeping'
  <2>1. checkpoint.claims = Claims /\ waived' = waived \cup Claims
    BY <1>12 DEF Stopped, Answering, TurnCheckpointed
  <2>2. CausesKept
    BY <1>1, <1>12, <2>1, CauseStays DEF CausesKept, Stopped
  <2>3. \A m \in Claims : Cause(m)'
    BY <2>1 DEF Cause
  <2>4. ReadyAnswered'
    BY <1>3, <1>12, <2>3 DEF Stopped, ReadyAnswered, NoCheckpoint
  <2> QED BY <1>1, <1>7, <1>9, <1>12, <2>2, <2>3, <2>4, KeepingAside DEF Stopped
<1>13. ASSUME Fence PROVE Keeping'
  <2>1. \A m \in Claims : answers[m] > 0
    BY <1>13 DEF Fence, Answering, TurnCheckpointed, Keeping, ReadyAnswered
  <2>2. UNCHANGED Grounds
    BY <1>1, <1>13 DEF Fence, Grounds
  <2>3. \A m \in Claims : Cause(m)'
    BY <2>1, <2>2 DEF Cause, Grounds
  <2>4. CausesKept
    BY <2>2, GroundsKept
  <2>5. ReadyAnswered'
    BY <1>3, <1>13, <2>2 DEF Fence, Grounds, Keeping, ReadyAnswered
  <2> QED BY <1>1, <1>7, <1>9, <1>13, <2>3, <2>4, <2>5, KeepingAside DEF Fence
<1>14. ASSUME Finalize PROVE Keeping'
  <2>1. checkpoint.claims = Claims /\ \A m \in Claims : answers[m] > 0
    BY <1>14 DEF Finalize, Answering, TurnCheckpointed, Keeping, ReadyAnswered
  <2>2. CausesKept
    BY <1>1, <1>14, <2>1, CauseStays DEF CausesKept, Finalize, ghosts
  <2>3. \A m \in Claims : Cause(m)'
    BY <1>14, <2>1 DEF Cause, Finalize, ghosts
  <2>4. ReadyAnswered'
    BY <1>3, <1>14, <2>3 DEF Finalize, ReadyAnswered, NoCheckpoint
  <2> QED BY <1>1, <1>7, <1>8, <1>14, <2>2, <2>4, KeepingAside DEF Finalize, intake
<1>15. ASSUME Return PROVE Keeping'
  <2>1. UNCHANGED Grounds
    BY <1>1, <1>15 DEF Return, Grounds
  <2>2. CausesKept /\ \A m : Cause(m) <=> Cause(m)'
    BY <2>1, GroundsKept
  <2>3. \A m \in Claims : Cause(m)'
    BY <1>15, <2>2 DEF Return, Keeping, ReadyAnswered
  <2>4. AckedForCause
    BY <1>15, <2>3 DEF Return, AckedForCause, Settling
  <2>5. ReadyAnswered'
    BY <1>3, <1>15, <2>1 DEF Return, Grounds, Keeping, ReadyAnswered
  <2> QED BY <1>1, <1>9, <1>15, <2>2, <2>3, <2>4, <2>5, KeepingAside DEF Return
<1> QED BY <1>4, <1>5, <1>6, <1>10, <1>11, <1>12, <1>13, <1>14, <1>15 DEF Refuse, Raise
\* The commands.
LEMMA CommandKeeping ==
  ASSUME Types, Executing, Keeping, Types', NEW c \in Messages,
         CommandStep(c) \/ CommandFails(c)
  PROVE  Keeping'
<1>1. UNCHANGED <<kind, next, accepted, done>>
  BY DEF CommandStep, Reserve, Execute, Complete, Reply, CommandEnds, CommandFails, spool
<1>2. ASSUME Reserve(c) \/ Execute(c) \/ Complete(c) PROVE Keeping'
  <2>1. UNCHANGED <<ledger, cached, settling, turn, answers, checkpoint, waived>>
    BY <1>2 DEF Reserve, Execute, Complete, intake, store, ghosts
  <2>2. \A m \in Messages : outcome[m] = "completed" => outcome'[m] = "completed"
    BY <1>2 DEF Reserve, Execute, Complete, store, MayExecute, Types, StoreTypes
  <2>3. CausesKept
    BY <1>1, <2>1, <2>2, CauseStays DEF CausesKept
  <2>4. RecordedForCause /\ AckedForCause
    BY <2>1 DEF RecordedForCause, AckedForCause, Known
  <2>5. ReadyAnswered'
    <3>1. Claims' = Claims /\ Claims \subseteq Messages
      BY <2>1, ClaimsType DEF Claims, Types
    <3> QED BY <2>1, <2>3, <3>1 DEF Keeping, ReadyAnswered, CausesKept
  <2> QED BY <1>1, <2>3, <2>4, <2>5, KeepingAside
<1>3. ASSUME Reply(c) PROVE Keeping'
  <2>1. UNCHANGED Grounds /\ turn' = turn
    BY <1>1, <1>3 DEF Reply, Grounds
  <2>2. CausesKept /\ ReadyAnswered'
    BY <2>1, GroundsKept DEF Keeping
  <2>3. Cause(c)'
    BY <1>3, <2>1 DEF Reply, Grounds, Cause, Executing, RunReserved
  <2>4. <<c>> \in Seq(Messages) /\ ToSet(<<c>>) = {c}
    BY ShortSets
  <2>5. cached' = cached \cup {c} /\ Known' \subseteq Known \cup {c}
    BY <1>3, <2>4, MarkEffect DEF Reply, Types, StoreTypes, IntakeTypes, GhostTypes
  <2>6. RecordedForCause
    BY <2>3, <2>5 DEF RecordedForCause
  <2>7. AckedForCause
    BY <1>3, <2>3 DEF Reply, AckedForCause, Settling
  <2> QED BY <1>1, <2>2, <2>6, <2>7, KeepingAside
<1>4. ASSUME CommandEnds(c) PROVE Keeping'
  <2>1. turn' = turn \/ turn.at' # "fenced"
    BY <1>4 DEF CommandEnds, NewTurn, NoTurn
  <2> QED BY <1>1, <1>4, <2>1, KeepingStill DEF CommandEnds, intake, store, ghosts, Grounds
<1>5. ASSUME CommandFails(c) PROVE Keeping'
  <2>1. \A r \in settling' : r.act = "ack" => r \in settling
    BY <1>5 DEF CommandFails, HandedBack, Settling
  <2> QED BY <1>1, <1>5, <2>1, KeepingStill DEF CommandFails, store, ghosts, Grounds
<1> QED BY <1>2, <1>3, <1>4, <1>5 DEF CommandStep

\* The process.
LEMMA ProcessKeeping ==
  ASSUME Types, Answering, Keeping, Types',
         \/ Resume \/ Record \/ Retire \/ Release \/ StopIntake \/ Cancel
         \/ Exit \/ Crash \/ (\E m \in Messages : Expire(m))
  PROVE  Keeping'
<1>1. UNCHANGED <<kind, next, accepted, done>>
  BY DEF Resume, Record, Retire, Release, StopIntake, Cancel, Exit, Crash, Gone, Expire, spool
<1>2. ASSUME Release \/ StopIntake \/ (\E m \in Messages : Expire(m)) PROVE Keeping'
  <2>1. UNCHANGED Grounds /\ ledger' = ledger /\ cached' \subseteq cached
        /\ UNCHANGED <<settling, turn>>
    BY <1>2 DEF Release, StopIntake, Expire, store, work, ghosts, Grounds
  <2> QED BY <1>1, <2>1, KeepingStill
<1>3. ASSUME Cancel \/ Exit \/ Crash PROVE Keeping'
  <2>1. UNCHANGED Grounds /\ ledger' = ledger /\ cached' \subseteq cached /\ turn' = NoTurn
    BY <1>3 DEF Cancel, Exit, Crash, Gone, NoWork, store, ghosts, Grounds
  <2>2. \A r \in settling' : r.act = "ack" => r \in settling
    BY <1>3 DEF Cancel, Exit, Crash, Gone, HandedBack, Settling
  <2>3. turn.at' # "fenced"
    BY <2>1 DEF NoTurn
  <2> QED BY <1>1, <2>1, <2>2, <2>3, KeepingStill
<1>4. ASSUME Resume \/ Record \/ Retire
      PROVE  turn.at' # "fenced" /\ settling' = settling
  <2>1. mode \in {"holding", "recorded"} /\ turn' = turn /\ settling' = settling
    BY <1>4 DEF Resume, Record, Retire, work
  <2>2. turn = NoTurn
    BY <2>1 DEF Answering, HeldIsIdle
  <2> QED BY <2>1, <2>2 DEF NoTurn
<1>5. UNCHANGED settling => AckedForCause
  BY DEF AckedForCause
<1>6. UNCHANGED <<ledger, cached>> => RecordedForCause
  BY DEF RecordedForCause, Known
<1>7. checkpoint.claims \in SUBSET Messages
  BY DEF Types, StoreTypes
<1>8. ASSUME Resume PROVE Keeping'
  <2>1. checkpoint'.claims = checkpoint.claims
    BY <1>8 DEF Resume, Types, StoreTypes
  <2>2. ASSUME NEW m \in Messages
        PROVE  /\ answers'[m] = answers[m] \/ answers'[m] > 0
               /\ m \in checkpoint.claims => answers'[m] > 0
    BY <1>8, CountedEffect DEF Resume, Types
  <2>3. CausesKept
    BY <1>1, <1>8, <2>1, <2>2, CauseStays DEF CausesKept, Resume
  <2>4. ReadyAnswered'
    BY <1>4, <1>7, <1>8, <2>1, <2>2 DEF ReadyAnswered
  <2> QED BY <1>1, <1>4, <1>5, <1>6, <1>8, <2>3, <2>4, KeepingAside DEF Resume, intake
<1>9. ASSUME Record PROVE Keeping'
  <2>1. UNCHANGED Grounds /\ checkpoint.ready
    BY <1>1, <1>9 DEF Record, Grounds
  <2>2. CausesKept
    BY <2>1, GroundsKept
  <2>3. \A m \in checkpoint.claims : Cause(m)'
    BY <2>1 DEF Keeping, ReadyAnswered, Cause, Grounds
  <2>4. IsFiniteSet(checkpoint.claims)
    BY <1>7, Bounds, FS_Subset
  <2>5. SetToSeq(checkpoint.claims) \in Seq(checkpoint.claims)
    BY <2>4, SetAsSeq
  <2>6. SetToSeq(checkpoint.claims) \in Seq(Messages)
    BY <1>7, <2>5
  <2>7. ToSet(SetToSeq(checkpoint.claims)) = checkpoint.claims
    BY <2>4, SetAsSeq
  <2>8. /\ cached' = cached \cup checkpoint.claims
        /\ Known' \subseteq Known \cup checkpoint.claims
    BY <1>9, <2>6, <2>7, MarkEffect DEF Record, Types, StoreTypes, IntakeTypes, GhostTypes
  <2>9. RecordedForCause
    BY <2>3, <2>8 DEF RecordedForCause
  <2>10. ReadyAnswered'
    BY <1>4, <1>9, <2>1 DEF Keeping, ReadyAnswered, Grounds
  <2> QED BY <1>1, <1>4, <1>5, <1>9, <2>2, <2>9, <2>10, KeepingAside
<1>10. ASSUME Retire PROVE Keeping'
  <2>1. \A m \in checkpoint.claims : answers[m] > 0
    BY <1>10 DEF Retire, Answering, TurnCheckpointed, Keeping, ReadyAnswered
  <2>2. CausesKept
    BY <1>1, <1>10, <2>1, CauseStays DEF CausesKept, Retire, ghosts
  <2>3. ReadyAnswered'
    BY <1>4, <1>10 DEF ReadyAnswered, Retire, NoCheckpoint
  <2> QED BY <1>1, <1>4, <1>5, <1>6, <1>10, <2>2, <2>3, KeepingAside DEF Retire, intake
<1> QED BY <1>2, <1>3, <1>8, <1>9, <1>10

\* All of them.
LEMMA StepKeeping ==
  ASSUME Types, Answering, Executing, Keeping, Types', Next
  PROVE  Keeping'
<1>1. CASE \/ (\E m \in Messages : Enqueue(m)) \/ Claim \/ Receive \/ Lose
           \/ (\E r \in settling : Settle(r) \/ SettleFails(r))
           \/ BridgeDies \/ BridgeBack \/ GiveUp \/ RecoveryFails \/ Start
  BY <1>1, SpoolKeeping
<1>2. CASE Accept
  BY <1>2, AcceptKeeping
<1>3. CASE \/ Flush \/ Begin \/ Refuse \/ Raise \/ Answer \/ Stopped \/ Fence
           \/ Finalize \/ Return \/ Unrecorded \/ NextTurn
  BY <1>3, TurnKeeping
<1>4. CASE \E m \in Messages : CommandStep(m) \/ CommandFails(m)
  BY <1>4, CommandKeeping
<1>5. CASE \/ Resume \/ Record \/ Retire \/ Release \/ StopIntake \/ Cancel
           \/ Exit \/ Crash \/ (\E m \in Messages : Expire(m))
  BY <1>5, ProcessKeeping
<1> QED BY Zenon, <1>1, <1>2, <1>3, <1>4, <1>5 DEF Next, Progress, Trouble

-----------------------------------------------------------------------------
(* The theorems.                                                           *)

\* The invariant at the start.
LEMMA InitHolds ==
  ASSUME Init
  PROVE  IInv
<1> USE DEF Init
<1>1. NoTurn.claims = <<>> /\ NoTurn.at = "none" /\ NoCheckpoint.claims = {}
      /\ NoCheckpoint.ready = FALSE
  BY DEF NoTurn, NoCheckpoint
<1>2. /\ Claims = {} /\ InBatch = {} /\ InQueue = {} /\ InHand = {} /\ Known = {}
      /\ Waiting = {}
  BY <1>1, ShortSets DEF Claims, InBatch, InQueue, InHand, Known, Unbegun, Waiting
<1>3. Types
  <2>1. SpoolTypes /\ IntakeTypes
    BY ShortSets DEF SpoolTypes, IntakeTypes
  <2>2. StoreTypes
    BY ShortSets DEF StoreTypes, NoCheckpoint
  <2>3. WorkTypes
    BY ShortSets DEF WorkTypes, NoTurn, TurnPhases, CmdPhases
  <2>4. SettlingTypes /\ GhostTypes
    BY DEF SettlingTypes, GhostTypes
  <2>5. FlagTypes
    <3>1. Budget[kind] \in Nat
      BY Bounds
    <3>2. kind \in Scripts /\ mode \in Modes
      BY DEF Modes
    <3>3. spent \in 0 .. Budget[kind]
      BY <3>1
    <3>4. bridge \in BOOLEAN
      OBVIOUS
    <3>5. failed \in BOOLEAN
      OBVIOUS
    <3> QED BY <3>2, <3>3, <3>4, <3>5 DEF FlagTypes
  <2> QED BY <2>1, <2>2, <2>3, <2>4, <2>5 DEF Types
<1>4. Answering
  <2>1. KindsKept /\ CacheBacked /\ WorkKnown /\ WorkApart /\ HeldIsIdle
    BY <1>2 DEF KindsKept, CacheBacked, WorkKnown, WorkApart, HeldIsIdle
  <2>2. TurnCheckpointed /\ AnswerRemembered /\ WaitingUnanswered
    BY <1>1, <1>2 DEF TurnCheckpointed, AnswerRemembered, WaitingUnanswered
  <2>3. UnreadyUnanswered /\ VoidIsOut /\ AnsweredOnce
    BY <1>1 DEF UnreadyUnanswered, VoidIsOut, AnsweredOnce
  <2> QED BY <2>1, <2>2, <2>3 DEF Answering
<1>5. Executing
  BY DEF Executing, RunReserved, ExecutedOnce
<1>6. Keeping
  BY <1>1, <1>2 DEF Keeping, ReadyAnswered, SettledForCause, NothingLost
<1> QED BY <1>3, <1>4, <1>5, <1>6 DEF IInv

\* A step that changes nothing.
LEMMA StutterHolds ==
  ASSUME IInv, UNCHANGED vars
  PROVE  IInv'
<1> USE DEF vars, spool, intake, store, work, ghosts
<1>1. Types'
  BY DEF IInv, Types, SpoolTypes, IntakeTypes, StoreTypes, WorkTypes, SettlingTypes,
         GhostTypes, FlagTypes
<1>2. Answering'
  BY BooksUntouched DEF IInv, Books
<1>3. Executing'
  BY DEF IInv, Executing, RunReserved, ExecutedOnce
<1>4. Keeping'
  BY <1>1, KeepingStill DEF IInv, Grounds
<1> QED BY <1>1, <1>2, <1>3, <1>4 DEF IInv

\* No step leads out of the invariant.
THEOREM InvariantHolds == Spec => []IInv
<1>1. Init => IInv
  BY InitHolds
<1>2. IInv /\ [Next]_vars => IInv'
  <2> SUFFICES ASSUME IInv, [Next]_vars PROVE IInv'
    OBVIOUS
  <2>1. CASE Next
    <3>1. Types'
      BY <2>1, StepTypes DEF IInv
    <3> QED BY <2>1, <3>1, StepAnswering, StepExecuting, StepKeeping DEF IInv
  <2>2. CASE UNCHANGED vars
    BY <2>2, StutterHolds
  <2> QED BY <2>1, <2>2
<1> QED BY <1>1, <1>2, PTL DEF Spec

\* No message is answered twice and no command executed twice, however the
\* bridge, the process and its calls fail: but for an answer to a message whose
\* identity lapsed.
THEOREM AcceptedOnce == Spec => []OnceOnly
<1>1. IInv => OnceOnly
  <2> SUFFICES ASSUME IInv PROVE OnceOnly
    OBVIOUS
  <2>1. TypeOK
    <3> USE DEF IInv, Types
    <3>1. ToSet(accepted) \cup claimed \cup ToSet(done) \subseteq Messages
          /\ ToSet(response) \cup ToSet(held) \cup ToSet(inbox) \subseteq Messages
      BY SeqSet DEF SpoolTypes, IntakeTypes
    <3>2. seen \cup cached \cup ToSet(ledger) \subseteq Messages
      BY SeqSet DEF IntakeTypes, StoreTypes
    <3>3. ToSet(batch) \cup ToSet(queued) \cup Claims \subseteq Messages
      BY SeqSet, ClaimsType DEF WorkTypes
    <3>4. \A r \in settling : r.claims \subseteq Messages /\ r.tries \in 1 .. Attempts
      BY DEF SettlingTypes, SettleRecord
    <3>5. checkpoint.claims \subseteq Messages /\ checkpoint.ready \in BOOLEAN
      BY DEF StoreTypes
    <3>6. turn.at \in TurnPhases
      BY DEF WorkTypes
    <3>7. /\ cmd \in [Messages -> CmdPhases] /\ after \in [Messages -> SUBSET Messages]
          /\ outcome \in [Messages -> {"none", "started", "completed"}]
      BY DEF WorkTypes, StoreTypes
    <3>8. /\ answers \in [Messages -> 0 .. 2] /\ runs \in [Messages -> Nat]
          /\ waived \cup lapsed \subseteq Messages
      BY DEF GhostTypes
    <3>9. /\ kind \in Scripts /\ spent \in 0 .. Budget[kind] /\ next \subseteq Messages
          /\ bridge \in BOOLEAN /\ failed \in BOOLEAN /\ mode \in Modes
      BY DEF FlagTypes, SpoolTypes
    <3> QED BY Zenon, <3>1, <3>2, <3>3, <3>4, <3>5, <3>6, <3>7, <3>8, <3>9
        DEF TypeOK, TurnPhases, CmdPhases, Modes
  <2>2. AnsweredOnce /\ ExecutedOnce
    BY DEF IInv, Answering, Executing
  <2> QED BY <2>1, <2>2 DEF OnceOnly
<1> QED BY <1>1, InvariantHolds, PTL

\* A message leaves the bridge's spool only when it was answered, is owed an
\* answer by a checkpoint, was carried out, made void, or is not for the agent.
THEOREM AcceptedIsKept == Spec => []NothingLost
<1>1. IInv => NothingLost
  BY DEF IInv, Keeping
<1> QED BY <1>1, InvariantHolds, PTL

\* What a /stop or /new made void is not answered, whatever comes again.
THEOREM VoidIsFinal == Spec => VoidStaysVoid
<1>1. IInv /\ [Next]_vars =>
        [\A m \in waived : answers'[m] # answers[m] => m \in lapsed]_vars
  <2> SUFFICES ASSUME IInv, Next, NEW m \in waived, answers'[m] # answers[m], m \notin lapsed
               PROVE  FALSE
    OBVIOUS
  <2>1. m \in Messages
    BY DEF IInv, Types, GhostTypes
  <2>2. CASE Answer
    <3>1. m \in Claims /\ turn.at = "model"
      BY <2>1, <2>2, CountedEffect DEF Answer, IInv, Types
    <3> QED BY <3>1 DEF IInv, Answering, VoidIsOut
  <2>3. CASE Resume
    <3>1. m \in checkpoint.claims /\ ~checkpoint.ready
      BY <2>1, <2>3, CountedEffect DEF Resume, IInv, Types
    <3> QED BY <3>1 DEF IInv, Answering, VoidIsOut
  <2>4. CASE UNCHANGED answers
    BY <2>4
  <2>5. CASE Accept
    BY <2>4, <2>5 DEF Accept, Hold, Void, Duplicate, Collect, Command, LedgerFails, ghosts
  <2>6. CASE \/ (\E c \in Messages : Enqueue(c)) \/ Claim \/ Receive \/ Lose
             \/ (\E r \in settling : Settle(r) \/ SettleFails(r))
             \/ BridgeDies \/ BridgeBack \/ GiveUp \/ RecoveryFails
    BY <2>4, <2>6 DEF Enqueue, Claim, Receive, Lose, Settle, SettleFails, BridgeDies,
                      BridgeBack, GiveUp, RecoveryFails, ghosts
  <2>7. CASE \/ Flush \/ Begin \/ Refuse \/ Raise \/ Stopped \/ Fence
             \/ Finalize \/ Return \/ Unrecorded \/ NextTurn
    BY <2>4, <2>7 DEF Flush, Begin, Refuse, Raise, HandlerFails, Stopped, Fence, Finalize,
                      Return, Unrecorded, NextTurn, ghosts
  <2>8. CASE \E c \in Messages : CommandStep(c) \/ CommandFails(c)
    BY <2>4, <2>8 DEF CommandStep, Reserve, Execute, Complete, Reply, CommandEnds,
                      CommandFails, ghosts
  <2>9. CASE \/ Start \/ Record \/ Retire \/ Release \/ StopIntake \/ Cancel
             \/ Exit \/ Crash \/ (\E c \in Messages : Expire(c))
    BY <2>4, <2>9 DEF Start, Record, Retire, Release, StopIntake, Cancel, Exit, Crash,
                      Gone, Expire, ghosts
  <2> QED BY Zenon, <2>2, <2>3, <2>5, <2>6, <2>7, <2>8, <2>9 DEF Next, Progress, Trouble
<1> QED BY <1>1, InvariantHolds, PTL DEF Spec, VoidStaysVoid
=============================================================================
