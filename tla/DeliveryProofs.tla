--------------------------- MODULE DeliveryProofs ---------------------------
(***************************************************************************)
(* Proofs about the delivery ledger for every number of obligations,       *)
(* units, handlers, retries, restarts and failing calls.                   *)
(***************************************************************************)
EXTENDS DeliveryRefinement, FiniteSetTheorems, TLAPS

USE ConstantsAssumption DEF ConstantsAssumption, Sweeps, Units, Row, RowStates, UnitStates, Open, Unresolved, Terminal

\* The rows the ledger writes stay inside the table's type.
LEMMA RowTypes ==
  /\ Absent \in Row /\ NewRow \in Row
  /\ \A r \in Row, st \in RowStates, b, d \in BOOLEAN : Stamped(r, st, b, d) \in Row
BY DEF Absent, NewRow, Stamped

\* So do the updates of a single column.
LEMMA ColumnTypes ==
  ASSUME NEW r \in Row
  PROVE  /\ \A b \in BOOLEAN : [r EXCEPT !.deferred = b] \in Row
         /\ [r EXCEPT !.mine = FALSE] \in Row
         /\ [r EXCEPT !.stale = TRUE] \in Row
         /\ \A a \in {"idle", "expired"} : [r EXCEPT !.age = a] \in Row
<1>1. ASSUME NEW b \in BOOLEAN PROVE [r EXCEPT !.deferred = b] \in Row
  OBVIOUS
<1>2. [r EXCEPT !.mine = FALSE] \in Row
  OBVIOUS
<1>3. [r EXCEPT !.stale = TRUE] \in Row
  OBVIOUS
<1>4. ASSUME NEW a \in {"idle", "expired"} PROVE [r EXCEPT !.age = a] \in Row
  OBVIOUS
<1> HIDE DEF Row
<1> QED BY <1>1, <1>2, <1>3, <1>4

\* _prune keeps the type of both tables.
LEMMA PruneTypes ==
  ASSUME TypeOK, NEW rows \in [Obligations -> Row], Prune(rows)
  PROVE  /\ row' \in [Obligations -> Row]
         /\ unit' \in [Obligations -> [Units -> UnitStates]]
         /\ forgotten' \in [Obligations -> BOOLEAN]
<1>1. PICK gone \in SUBSET Obligations, overdue \in SUBSET Obligations :
        /\ row' = [o \in Obligations |->
                     IF o \in gone THEN Absent
                     ELSE IF o \in overdue THEN Written(rows[o], "abandoned", FALSE)
                     ELSE rows[o]]
        /\ unit' = [o \in Obligations |-> IF o \in gone THEN NoPlan ELSE unit[o]]
        /\ forgotten' = [o \in Obligations |-> forgotten[o] \/ o \in gone]
  BY Zenon DEF Prune
<1>2. NoPlan \in [Units -> UnitStates]
  BY DEF NoPlan
<1>3. row' \in [Obligations -> Row]
  <2>1. \A o \in Obligations : Written(rows[o], "abandoned", FALSE) \in Row
    BY RowTypes DEF Written
  <2>2. Absent \in Row
    BY RowTypes
  <2> HIDE DEF Row
  <2> QED BY <1>1, <2>1, <2>2, Zenon
<1>4. unit' \in [Obligations -> [Units -> UnitStates]]
  BY <1>1, <1>2 DEF TypeOK, StoreTypes
<1>5. forgotten' \in [Obligations -> BOOLEAN]
  BY <1>1, Zenon DEF TypeOK
<1> QED BY <1>3, <1>4, <1>5

\* The counts of what the chat has received.
LEMMA CountTypes ==
  ASSUME TypeOK, NEW o \in Obligations, NEW u \in Units
  PROVE  accepted[o][u] \in 0..2
<1> HIDE DEF Units
<1>1. accepted \in [Obligations -> [Units -> 0..2]]
  BY DEF TypeOK
<1>2. accepted[o] \in [Units -> 0..2]
  BY <1>1
<1> QED BY <1>2

\* What the sender-local moves keep.
LEMMA MoveTypes ==
  ASSUME SenderTypes, NEW s \in Senders
  PROVE  /\ \A label \in Labels : Goto(s, label) \/ Clear(s, label) => SenderTypes'
         /\ Leave(s) => SenderTypes'
         /\ Advance(s) => SenderTypes'
<1>1. ASSUME NEW label \in Labels, Goto(s, label) PROVE SenderTypes'
  BY <1>1 DEF SenderTypes, Goto
<1>2. ASSUME NEW label \in Labels, Clear(s, label) PROVE SenderTypes'
  BY <1>2 DEF SenderTypes, Clear
<1>3. ASSUME Leave(s) PROVE SenderTypes'
  BY <1>2, <1>3 DEF Leave, After, Labels
<1>4. ASSUME Advance(s) PROVE SenderTypes'
  BY <1>4 DEF SenderTypes, Advance, Labels
<1> QED BY <1>1, <1>2, <1>3, <1>4

\* The type invariant holds initially and every step keeps it.
LEMMA InitTypes == Init => TypeOK
<1> SUFFICES ASSUME Init PROVE TypeOK
  OBVIOUS
<1>1. StoreTypes
  BY RowTypes DEF Init, StoreTypes, NoPlan
<1>2. SenderTypes
  BY DEF Init, SenderTypes, Senders, Labels
<1>3. upgraded \in BOOLEAN /\ forgotten \in [Obligations -> BOOLEAN] /\ closed \in [Obligations -> BOOLEAN]
  BY DEF Init
<1> QED BY <1>1, <1>2, <1>3 DEF Init, TypeOK

\* The steps of a sender inside one obligation.
LEMMA WorkTypes ==
  ASSUME TypeOK, NEW s \in Senders, Work(s)
  PROVE  TypeOK'
<1> USE DEF TypeOK, StoreTypes, Labels, storeVars, ghostVars, OwnOpen, Written
<1> HIDE DEF Row
<1>1. CASE Plan(s)
  <2>1. unit' \in [Obligations -> [Units -> UnitStates]]
    <3>1. CASE OwnOpen(job[s]) /\ ~Planned(job[s])
      <4>1. unit' = [unit EXCEPT ![job[s]] = [u \in Units |-> "pending"]]
        BY <1>1, <3>1, Zenon DEF Plan
      <4>2. [u \in Units |-> "pending"] \in [Units -> UnitStates]
        OBVIOUS
      <4> HIDE DEF Units, UnitStates
      <4> QED BY <4>1, <4>2
    <3>2. CASE ~(OwnOpen(job[s]) /\ ~Planned(job[s]))
      BY <1>1, <3>2 DEF Plan
    <3> QED BY <3>1, <3>2
  <2>2. SenderTypes'
    BY <1>1, MoveTypes DEF Plan
  <2> QED BY <1>1, <2>1, <2>2 DEF Plan
<1>2. CASE Quarantine(s)
  BY <1>2, MoveTypes, RowTypes DEF Quarantine, SenderTypes
<1>3. CASE Retire(s)
  BY <1>3, MoveTypes, RowTypes DEF Retire, SenderTypes
<1>4. CASE Look(s)
  BY <1>4, MoveTypes DEF Look
<1>5. CASE Activate(s)
  <2>1. SenderTypes'
    <3>1. CASE Leave(s)
      BY <3>1, MoveTypes
    <3>2. CASE /\ pc' = [pc EXCEPT ![s] = "claim"]
               /\ activated' = [activated EXCEPT ![s] = TRUE]
               /\ UNCHANGED <<job, pos, round, outcome, batch>>
      BY <3>2 DEF SenderTypes
    <3> QED BY <1>5, <3>1, <3>2, Zenon DEF Activate
  <2>2. row' \in [Obligations -> Row]
    BY <1>5, RowTypes DEF Activate, SenderTypes
  <2> QED BY <1>5, <2>1, <2>2 DEF Activate
<1>6. CASE ClaimUnit(s)
  BY <1>6, MoveTypes DEF ClaimUnit
<1>7. CASE Send(s)
  <2>1. SenderTypes'
    BY <1>7 DEF Send, SenderTypes
  <2>2. accepted' \in [Obligations -> [Units -> 0..2]]
    <3>1. CASE accepted' = accepted
      BY <3>1
    <3>2. CASE /\ accepted[job[s]][pos[s]] < 2
               /\ accepted' = [accepted EXCEPT ![job[s]][pos[s]] = @ + 1]
      <4>1. job[s] \in Obligations /\ pos[s] \in Units
        BY DEF SenderTypes
      <4>2. accepted[job[s]][pos[s]] + 1 \in 0..2
        <5>1. accepted[job[s]][pos[s]] \in 0..2
          <6> HIDE DEF Units, TypeOK
          <6> QED BY <4>1, CountTypes, Zenon
        <5>2. \A n \in 0..2 : n < 2 => n + 1 \in 0..2
          OBVIOUS
        <5> HIDE DEF Units, TypeOK
        <5> QED BY <3>2, <5>1, <5>2
      <4> HIDE DEF Units
      <4> QED BY <3>2, <4>1, <4>2
    <3> QED BY <1>7, <3>1, <3>2, Zenon DEF Send
  <2> QED BY <1>7, <2>1, <2>2 DEF Send
<1>8. CASE SettleDelivered(s)
  BY <1>8, MoveTypes DEF SettleDelivered
<1>9. CASE SettleFailed(s)
  <2>1. SenderTypes'
    <3>1. PICK again \in BOOLEAN :
             /\ again => round[s] < MaxRetries
             /\ pc' = [pc EXCEPT ![s] = IF again THEN "plan" ELSE "fail"]
             /\ pos' = [pos EXCEPT ![s] = 1]
             /\ round' = IF again THEN [round EXCEPT ![s] = @ + 1] ELSE round
             /\ outcome' = [outcome EXCEPT ![s] = "none"]
      <4>1. PICK again \in Again(s) :
               /\ pc' = [pc EXCEPT ![s] = IF again THEN "plan" ELSE "fail"]
               /\ pos' = [pos EXCEPT ![s] = 1]
               /\ round' = IF again THEN [round EXCEPT ![s] = @ + 1] ELSE round
               /\ outcome' = [outcome EXCEPT ![s] = "none"]
        BY <1>9, Zenon DEF SettleFailed
      <4>2. again \in BOOLEAN /\ (again => round[s] < MaxRetries)
        BY Zenon DEF Again
      <4> QED BY <4>1, <4>2, Zenon
    <3>2. round' \in [Senders -> 0..MaxRetries]
      BY <3>1 DEF SenderTypes
    <3>3. UNCHANGED <<job, activated, batch>>
      BY <1>9, Zenon DEF SettleFailed
    <3> QED BY <3>1, <3>2, <3>3 DEF SenderTypes
  <2>2. unit' \in [Obligations -> [Units -> UnitStates]]
    BY <1>9 DEF SettleFailed, SenderTypes
  <2>3. row' \in [Obligations -> Row]
    BY <1>9, ColumnTypes DEF SettleFailed, SenderTypes
  <2> QED BY <1>9, <2>1, <2>2, <2>3 DEF SettleFailed
<1>10. CASE SettleRefused(s)
  BY <1>10, MoveTypes DEF SettleRefused
<1>11. CASE Finish(s)
  BY <1>11, MoveTypes, RowTypes DEF Finish, SenderTypes
<1>12. CASE Fail(s)
  <2>1. \A o \in Obligations, b \in BOOLEAN :
          Stamped(row[o], "failed", b, row[o].deferred) \in Row
    BY RowTypes DEF Row
  <2>2. row' \in [Obligations -> Row]
    BY <1>12, <2>1 DEF Fail, SenderTypes
  <2> QED BY <1>12, <2>2, MoveTypes DEF Fail
<1> QED BY <1>1, <1>2, <1>3, <1>4, <1>5, <1>6, <1>7, <1>8, <1>9, <1>10, <1>11, <1>12 DEF Work, ChannelSend, RunUnit

\* The steps a handler takes before and after the work on its obligation.
LEMMA HandlerTypes ==
  ASSUME TypeOK, NEW f \in Finals, NEW o \in Obligations,
         Submit(f, o) \/ RecordRow(f) \/ RecordRefused(f) \/ Discard(f) \/ Check(f)
  PROVE  TypeOK'
<1> f \in Senders
  BY DEF Senders
<1> USE DEF TypeOK, StoreTypes, Labels, storeVars, ghostVars
<1> HIDE DEF Row
<1>1. CASE Submit(f, o)
  BY <1>1 DEF Submit, SenderTypes
<1>2. CASE RecordRow(f)
  <2> DEFINE rows == IF row[job[f]].state = "none" THEN [row EXCEPT ![job[f]] = NewRow]
                     ELSE row
  <2>1. rows \in [Obligations -> Row]
    BY RowTypes DEF SenderTypes
  <2>2. Prune(rows)
    BY <1>2, Zenon DEF RecordRow
  <2> HIDE DEF rows
  <2>3. StoreTypes' /\ forgotten' \in [Obligations -> BOOLEAN]
    BY <2>1, <2>2, PruneTypes
  <2>4. PICK label \in {"retire", "plan", "check"} : Goto(f, label)
    BY <1>2, Zenon DEF RecordRow
  <2>5. SenderTypes'
    BY <2>4, MoveTypes
  <2> QED BY <1>2, <2>3, <2>5 DEF RecordRow
<1>3. CASE RecordRefused(f)
  BY <1>3, MoveTypes DEF RecordRefused
<1>4. CASE Discard(f)
  BY <1>4, MoveTypes, RowTypes DEF Discard, SenderTypes
<1>5. CASE Check(f)
  BY <1>5, MoveTypes DEF Check, SenderTypes
<1> QED BY <1>1, <1>2, <1>3, <1>4, <1>5

-----------------------------------------------------------------------------
(* How the two tables fit together.  TypeOK alone is not inductive: a claim *)
(* counts an attempt when a unit of the plan has failed, so the bound on    *)
(* attempts rests on the fact that a pending row has no failed unit.        *)

\* What the state of a row says of the units of its plan.
Consistent(r, plan) ==
  /\ r.state = "none" => \A u \in Units : plan[u] = "none"
  /\ r.state = "pending" => \A u \in Units : plan[u] \in {"none", "pending"}
  /\ r.state = "attempting" => \E u \in Units : plan[u] # "none"
  /\ r.state = "failed" /\ r.safe => \E u \in Units : plan[u] # "none"
  /\ r.state = "delivered" => \A u \in Units : plan[u] = "delivered"

Backed == \A o \in Obligations : Consistent(row[o], unit[o])

\* A claim transaction keeps the types.
LEMMA ClaimTypes ==
  ASSUME TypeOK, Backed, NEW s \in Sweeps, NEW cand \in SUBSET Obligations,
         NEW claims \in SUBSET Obligations, ClaimRows(s, cand, claims)
  PROVE  /\ StoreTypes'
         /\ forgotten' \in [Obligations -> BOOLEAN]
         /\ batch' \in [Senders -> SUBSET Obligations]
         /\ active' \subseteq Obligations
<1>1. PICK drop \in SUBSET (cand \ {o \in cand : ~Exhausted(o)}) :
        Prune([o \in Obligations |->
                 IF o \in claims THEN ClaimedRow(o)
                 ELSE IF o \in drop
                      THEN Stamped(row[o], "abandoned", row[o].safe, row[o].deferred)
                      ELSE row[o]])
  BY Zenon DEF ClaimRows
<1>2. \A o \in claims : o \in Obligations /\ ~Exhausted(o)
  BY Zenon DEF ClaimRows
<1>3. ASSUME NEW o \in claims PROVE ClaimedRow(o) \in Row
  <2>1. Counted(o) => row[o].attempts < MaxAttempts
    <3>1. ~Counted(o) \/ row[o].state # "pending"
      BY <1>2 DEF Counted, Backed, Consistent, TypeOK, StoreTypes
    <3>2. row[o].attempts \in 0..MaxAttempts
      BY <1>2 DEF TypeOK, StoreTypes
    <3> QED BY <1>2, <3>1, <3>2 DEF Exhausted
  <2>2. row[o] \in Row
    BY <1>2 DEF TypeOK, StoreTypes
  <2>3. ClaimedState(o) \in RowStates
    BY DEF ClaimedState
  <2> QED BY <2>1, <2>2, <2>3 DEF ClaimedRow
<1>4. \A o \in Obligations :
        /\ row[o] \in Row
        /\ Stamped(row[o], "abandoned", row[o].safe, row[o].deferred) \in Row
  BY DEF TypeOK, StoreTypes, Stamped
<1> HIDE DEF Row
<1>5. StoreTypes' /\ forgotten' \in [Obligations -> BOOLEAN]
  BY <1>1, <1>3, <1>4, PruneTypes DEF StoreTypes
<1>6. batch' \in [Senders -> SUBSET Obligations]
  BY DEF ClaimRows, TypeOK, SenderTypes, Senders
<1>7. active' \subseteq Obligations
  BY DEF ClaimRows, TypeOK
<1> QED BY <1>5, <1>6, <1>7

\* The steps of the sweeps.
LEMMA SweepTypes ==
  ASSUME TypeOK, Backed, NEW s \in Sweeps,
         Wake \/ ClaimOwn \/ ClaimOthers(s) \/ NextRow(s) \/ NoMoreRows(s) \/ Release(s)
  PROVE  TypeOK'
<1> s \in Senders /\ Live \in Senders /\ Live \in Sweeps
  BY DEF Senders
<1> USE DEF TypeOK, Labels, storeVars, ghostVars
<1> HIDE DEF Row, Sweeps
<1>1. CASE Wake
  BY <1>1, MoveTypes DEF Wake, StoreTypes
<1>2. CASE ClaimOwn
  <2>1. PICK claims \in SUBSET Obligations :
          ClaimRows(Live, {o \in Obligations : OwnIdle(o)}, claims)
    BY <1>2, Zenon DEF ClaimOwn
  <2>2. /\ StoreTypes'
        /\ forgotten' \in [Obligations -> BOOLEAN]
        /\ batch' \in [Senders -> SUBSET Obligations]
        /\ active' \subseteq Obligations
    BY <2>1, ClaimTypes
  <2> QED BY <1>2, <2>2 DEF ClaimOwn, SenderTypes
<1>3. CASE ClaimOthers(s)
  <2>1. PICK claims \in SUBSET Obligations :
          ClaimRows(s, {o \in Obligations : Foreign(o)}, claims)
    BY <1>3, Zenon DEF ClaimOthers
  <2>2. /\ StoreTypes'
        /\ forgotten' \in [Obligations -> BOOLEAN]
        /\ batch' \in [Senders -> SUBSET Obligations]
        /\ active' \subseteq Obligations
    BY <2>1, ClaimTypes
  <2> QED BY <1>3, <2>2 DEF ClaimOthers, SenderTypes
<1>4. CASE NextRow(s)
  BY <1>4 DEF NextRow, SenderTypes, StoreTypes
<1>5. CASE NoMoreRows(s)
  BY <1>5, MoveTypes DEF NoMoreRows, StoreTypes
<1>6. CASE Release(s)
  BY <1>6, MoveTypes DEF Release, StoreTypes
<1> QED BY <1>1, <1>2, <1>3, <1>4, <1>5, <1>6

\* Failing calls, shutdowns and restarts.
LEMMA FaultTypes ==
  ASSUME TypeOK, Fault
  PROVE  TypeOK'
<1> Live \in Senders
  BY DEF Senders
<1> USE DEF TypeOK, Labels, storeVars, ghostVars
<1> HIDE DEF Row
<1>1. CASE Shutdown
  BY <1>1 DEF Shutdown, StopSenders, SenderTypes, StoreTypes, Senders
<1>2. CASE Restart
  <2>1. row' \in [Obligations -> Row]
    <3>1. \A o \in Obligations : [row[o] EXCEPT !.mine = FALSE] \in Row
      BY ColumnTypes DEF StoreTypes
    <3> QED BY <1>2, <3>1 DEF Restart
  <2>2. SenderTypes'
    BY <1>2 DEF Restart, StopSenders, SenderTypes, Senders
  <2>3. upgraded' \in BOOLEAN
    BY <1>2, Zenon DEF Restart
  <2> QED BY <1>2, <2>1, <2>2, <2>3 DEF Restart, StoreTypes
<1>3. CASE ClaimOwnFails
  BY <1>3, MoveTypes DEF ClaimOwnFails, StoreTypes
<1>4. CASE ClaimOthersFails
  BY <1>4 DEF ClaimOthersFails, StoreTypes, SenderTypes
<1>5. ASSUME NEW s \in Senders, StoreFault(s) PROVE TypeOK'
  <2>1. PICK label \in {"discard", "idle", "check", "release"} : Clear(s, label)
    BY <1>5, Zenon DEF StoreFault, After
  <2>2. SenderTypes'
    BY <2>1, MoveTypes
  <2> QED BY <1>5, <2>2 DEF StoreFault, StoreTypes
<1>6. ASSUME NEW s \in Senders, PlanSkipped(s) PROVE TypeOK'
  BY <1>6, MoveTypes DEF PlanSkipped, StoreTypes
<1> QED BY <1>1, <1>2, <1>3, <1>4, <1>5, <1>6 DEF Fault

\* The passing of time.
LEMMA TimeTypes ==
  ASSUME TypeOK, NEW o \in Obligations, Age(o) \/ Expire(o) \/ Due(o)
  PROVE  TypeOK'
<1> USE DEF TypeOK, StoreTypes, SenderTypes, senderVars, ghostVars
<1>1. row[o] \in Row
  OBVIOUS
<1> HIDE DEF Row
<1>2. row' \in [Obligations -> Row]
  <2>1. CASE Age(o)
    <3>1. PICK a \in {"idle", "expired"} : row' = [row EXCEPT ![o].age = a]
      BY <2>1, Zenon DEF Age
    <3>2. [row[o] EXCEPT !.age = a] \in Row
      BY <1>1, ColumnTypes
    <3> QED BY <3>1, <3>2
  <2>2. CASE Expire(o)
    BY <1>1, <2>2, ColumnTypes DEF Expire
  <2>3. CASE Due(o)
    BY <1>1, <2>3, ColumnTypes DEF Due
  <2> QED BY <2>1, <2>2, <2>3
<1> QED BY <1>2 DEF Age, Expire, Due

-----------------------------------------------------------------------------
\* _prune keeps the tables consistent, forgets what it deletes and leaves the
\* plans of the rows it keeps alone.
LEMMA PruneKeeps ==
  ASSUME NEW rows, Prune(rows)
  PROVE  \A o \in Obligations :
           \/ /\ forgotten'[o] /\ row'[o] = Absent /\ unit'[o] = NoPlan
           \/ /\ unit'[o] = unit[o] /\ (forgotten'[o] <=> forgotten[o])
              /\ \/ row'[o] = rows[o]
                 \/ row'[o] = Written(rows[o], "abandoned", FALSE)
<1>1. PICK gone \in SUBSET Obligations, overdue \in SUBSET Obligations :
        /\ row' = [o \in Obligations |->
                     IF o \in gone THEN Absent
                     ELSE IF o \in overdue THEN Written(rows[o], "abandoned", FALSE)
                     ELSE rows[o]]
        /\ unit' = [o \in Obligations |-> IF o \in gone THEN NoPlan ELSE unit[o]]
        /\ forgotten' = [o \in Obligations |-> forgotten[o] \/ o \in gone]
  BY Zenon DEF Prune
<1>2. ASSUME NEW o \in Obligations, o \in gone
      PROVE  forgotten'[o] /\ row'[o] = Absent /\ unit'[o] = NoPlan
  BY <1>1, <1>2, Zenon
<1>3. ASSUME NEW o \in Obligations, o \notin gone
      PROVE  /\ unit'[o] = unit[o] /\ (forgotten'[o] <=> forgotten[o])
             /\ row'[o] = rows[o] \/ row'[o] = Written(rows[o], "abandoned", FALSE)
  BY <1>1, <1>3, Zenon
<1> QED BY <1>2, <1>3, Zenon

\* Pruning deletes a row together with its plan.
LEMMA PruneBacked ==
  ASSUME NEW rows, Prune(rows), \A o \in Obligations : Consistent(rows[o], unit[o])
  PROVE  Backed'
<1> SUFFICES ASSUME NEW o \in Obligations PROVE Consistent(row'[o], unit'[o])
  BY DEF Backed
<1>1. CASE row'[o] = Absent /\ unit'[o] = NoPlan
  BY <1>1 DEF Consistent, Absent, NoPlan
<1>2. CASE unit'[o] = unit[o] /\ row'[o] = rows[o]
  BY <1>2
<1>3. CASE row'[o] = Written(rows[o], "abandoned", FALSE)
  BY <1>3 DEF Written, Stamped, Consistent
<1> QED BY <1>1, <1>2, <1>3, PruneKeeps

\* Work inside an obligation keeps its row and its plan consistent.
LEMMA WorkBacked ==
  ASSUME TypeOK, Backed, NEW s \in Senders, Work(s)
  PROVE  Backed'
<1> DEFINE o == job[s]
<1>1. o \in Obligations /\ pos[s] \in Units
  BY DEF TypeOK, SenderTypes
<1>2. \A p \in Obligations : /\ row[p] \in Row /\ unit[p] \in [Units -> UnitStates]
                           /\ Consistent(row[p], unit[p])
  BY DEF TypeOK, StoreTypes, Backed
<1>3. SUFFICES ASSUME NEW p \in Obligations PROVE Consistent(row'[p], unit'[p])
  BY DEF Backed
<1> USE <1>1, <1>2 DEF storeVars, OwnOpen, Planned, Written, Stamped, Consistent,
          TypeOK, StoreTypes
<1>4. CASE Plan(s)
  <2>1. row' = row
    BY <1>4 DEF Plan
  <2>2. CASE unit' = unit
    BY <2>1, <2>2
  <2>3. CASE OwnOpen(o) /\ ~Planned(o) /\ unit' = [unit EXCEPT ![o] = [u \in Units |-> "pending"]]
    <3>1. CASE p = o
      <4>1. \A u \in Units : unit'[p][u] = "pending"
        BY <2>3, <3>1
      <4>2. 1 \in Units
        OBVIOUS
      <4>3. row'[p].state \in Open
        BY <2>1, <2>3, <3>1
      <4> QED BY <4>1, <4>2, <4>3
    <3>2. CASE p # o
      BY <2>1, <2>3, <3>2
    <3> QED BY <3>1, <3>2
  <2> QED BY <1>4, <2>2, <2>3 DEF Plan
<1>5. CASE Quarantine(s)
  <2>1. CASE p = o
    BY <1>5, <2>1 DEF Quarantine
  <2>2. CASE p # o
    BY <1>5, <2>2 DEF Quarantine
  <2> QED BY <2>1, <2>2
<1>6. CASE Retire(s)
  BY <1>6 DEF Retire, AllSent
<1>7. CASE Look(s)
  BY <1>7 DEF Look
<1>8. CASE Activate(s)
  BY <1>8 DEF Activate
<1>9. CASE ClaimUnit(s)
  BY <1>9 DEF ClaimUnit
<1>10. CASE Send(s)
  BY <1>10 DEF Send
<1>11. CASE SettleDelivered(s)
  <2>1. CASE p = o
    <3>1. row'[p] = row[p] /\ row[p].state = "attempting"
      BY <1>11, <2>1 DEF SettleDelivered, Settleable
    <3>2. unit'[p][pos[s]] = "delivered"
      BY <1>11, <2>1 DEF SettleDelivered
    <3> QED BY <3>1, <3>2
  <2>2. CASE p # o
    BY <1>11, <2>2 DEF SettleDelivered
  <2> QED BY <2>1, <2>2
<1>12. CASE SettleFailed(s)
  <2>1. CASE p = o
    <3>1. row'[p].state = "attempting"
      BY <1>12, <2>1 DEF SettleFailed, Settleable
    <3>2. unit'[p][pos[s]] \in {"safe", "unsafe"}
      BY <1>12, <2>1 DEF SettleFailed
    <3> QED BY <3>1, <3>2
  <2>2. CASE p # o
    BY <1>12, <2>2 DEF SettleFailed
  <2> QED BY <2>1, <2>2
<1>13. CASE SettleRefused(s)
  BY <1>13 DEF SettleRefused
<1>14. CASE Finish(s)
  <2>1. CASE p = o
    BY <1>14, <2>1 DEF Finish
  <2>2. CASE p # o
    BY <1>14, <2>2 DEF Finish
  <2> QED BY <2>1, <2>2
<1>15. CASE Fail(s)
  BY <1>15 DEF Fail
<1> QED BY <1>4, <1>5, <1>6, <1>7, <1>8, <1>9, <1>10, <1>11, <1>12, <1>13, <1>14, <1>15 DEF Work, ChannelSend, RunUnit

\* The handler's own store calls keep rows and plans in agreement,
LEMMA HandlerBacked ==
  ASSUME TypeOK, Backed, NEW f \in Finals, NEW o \in Obligations,
         Submit(f, o) \/ RecordRow(f) \/ RecordRefused(f) \/ Discard(f) \/ Check(f)
  PROVE  Backed'
<1>1. job[f] \in Obligations
  BY DEF TypeOK, SenderTypes, Senders
<1>2. row \in [Obligations -> Row] /\ unit \in [Obligations -> [Units -> UnitStates]]
  BY DEF TypeOK, StoreTypes
<1>3. CASE RecordRow(f)
  <2> DEFINE rows == IF row[job[f]].state = "none" THEN [row EXCEPT ![job[f]] = NewRow]
                     ELSE row
  <2>1. Prune(rows)
    BY <1>3, Zenon DEF RecordRow
  <2>2. ASSUME NEW p \in Obligations PROVE Consistent(rows[p], unit[p])
    <3>1. Consistent(row[p], unit[p])
      BY DEF Backed
    <3>2. rows[p] = row[p] \/ (row[p].state = "none" /\ rows[p] = NewRow)
      BY <1>1, <1>2
    <3> QED BY <3>1, <3>2 DEF Consistent, NewRow
  <2> QED BY <2>1, <2>2, PruneBacked
<1>4. CASE Discard(f)
  <2> SUFFICES ASSUME NEW p \in Obligations PROVE Consistent(row'[p], unit'[p])
    BY DEF Backed
  <2>1. unit'[p] = unit[p] /\ Consistent(row[p], unit[p])
    BY <1>4 DEF Discard, Backed
  <2>2. row'[p] = row[p] \/ (row'[p] = Absent /\ ~Planned(p))
    BY <1>1, <1>2, <1>4 DEF Discard, Discardable
  <2> QED BY <2>1, <2>2 DEF Planned, Absent, Consistent
<1>5. CASE row' = row /\ unit' = unit
  BY <1>5 DEF Backed
<1> QED BY <1>3, <1>4, <1>5 DEF Submit, RecordRefused, Check, storeVars

\* a claim transaction does,
LEMMA ClaimBacked ==
  ASSUME TypeOK, Backed, NEW s \in Sweeps, NEW cand \in SUBSET Obligations,
         NEW claims \in SUBSET Obligations, ClaimRows(s, cand, claims)
  PROVE  Backed'
<1>1. PICK drop \in SUBSET (cand \ {o \in cand : ~Exhausted(o)}) :
        Prune([o \in Obligations |->
                 IF o \in claims THEN ClaimedRow(o)
                 ELSE IF o \in drop
                      THEN Stamped(row[o], "abandoned", row[o].safe, row[o].deferred)
                      ELSE row[o]])
  BY Zenon DEF ClaimRows
<1> DEFINE rows == [o \in Obligations |->
                 IF o \in claims THEN ClaimedRow(o)
                 ELSE IF o \in drop
                      THEN Stamped(row[o], "abandoned", row[o].safe, row[o].deferred)
                      ELSE row[o]]
<1>2. ASSUME NEW o \in Obligations PROVE Consistent(rows[o], unit[o])
  <2>1. Consistent(row[o], unit[o])
    BY DEF Backed
  <2>2. Consistent(ClaimedRow(o), unit[o])
    BY <2>1 DEF Consistent, ClaimedRow, ClaimedState, Planned
  <2>3. Consistent(Stamped(row[o], "abandoned", row[o].safe, row[o].deferred), unit[o])
    BY DEF Consistent, Stamped
  <2> QED BY <2>1, <2>2, <2>3, Zenon
<1> QED BY <1>1, <1>2, PruneBacked

\* so do the steps of a sweep,
LEMMA SweepBacked ==
  ASSUME TypeOK, Backed, NEW s \in Sweeps,
         Wake \/ ClaimOwn \/ ClaimOthers(s) \/ NextRow(s) \/ NoMoreRows(s) \/ Release(s)
  PROVE  Backed'
<1>1. CASE ClaimOwn
  BY <1>1, ClaimBacked, Zenon DEF ClaimOwn, Sweeps
<1>2. CASE ClaimOthers(s)
  BY <1>2, ClaimBacked, Zenon DEF ClaimOthers
<1>3. CASE row' = row /\ unit' = unit
  BY <1>3 DEF Backed
<1> QED BY <1>1, <1>2, <1>3 DEF Wake, NextRow, NoMoreRows, Release, storeVars

\* and faults, shutdown, restart and time.
LEMMA EnvironmentBacked ==
  ASSUME TypeOK, Backed,
         Fault \/ \E o \in Obligations : Age(o) \/ Expire(o) \/ Due(o)
  PROVE  Backed'
<1>1. unit' = unit
  BY DEF Fault, Shutdown, Restart, ClaimOwnFails, ClaimOthersFails, StoreFault,
         PlanSkipped, Age, Expire, Due, storeVars
<1>2. ASSUME NEW p \in Obligations
      PROVE  row'[p].state = row[p].state /\ row'[p].safe = row[p].safe
  <2>1. row \in [Obligations -> Row]
    BY DEF TypeOK, StoreTypes
  <2>2. CASE row' = row
    BY <2>2
  <2>3. CASE Restart
    BY <2>1, <2>3 DEF Restart
  <2>4. ASSUME NEW o \in Obligations, Age(o) \/ Expire(o) \/ Due(o)
        PROVE  row'[p].state = row[p].state /\ row'[p].safe = row[p].safe
    BY <2>1, <2>4 DEF Age, Expire, Due
  <2> QED BY <2>2, <2>3, <2>4
        DEF Fault, Shutdown, ClaimOwnFails, ClaimOthersFails, StoreFault, PlanSkipped, storeVars
<1> QED BY <1>1, <1>2 DEF Backed, Consistent

\* The two tables always fit together: a row without plan was never
\* attempted, a delivered row has every unit delivered.
THEOREM TablesConsistent == Spec => [](TypeOK /\ Backed)
<1>1. Init => TypeOK /\ Backed
  BY InitTypes DEF Init, Backed, Consistent, Absent, NoPlan
<1>2. TypeOK /\ Backed /\ [Next]_vars => (TypeOK /\ Backed)'
  <2> SUFFICES ASSUME TypeOK, Backed, [Next]_vars PROVE TypeOK' /\ Backed'
    OBVIOUS
  <2>1. ASSUME NEW f \in Finals, HandlerStep(f) \/ \E o \in Obligations : Submit(f, o)
        PROVE  TypeOK' /\ Backed'
    <3>1. f \in Senders /\ \E o \in Obligations : TRUE
      BY DEF Senders
    <3> QED BY <2>1, <3>1, HandlerTypes, HandlerBacked, WorkTypes, WorkBacked
         DEF HandlerStep
  <2>2. ASSUME NEW s \in Sweeps, SweepStep(s)
        PROVE  TypeOK' /\ Backed'
    BY <2>2, SweepTypes, SweepBacked, WorkTypes, WorkBacked DEF SweepStep, Senders
  <2>3. CASE Wake \/ ClaimOwn
    BY <2>3, SweepTypes, SweepBacked
  <2>4. CASE Fault
    BY <2>4, FaultTypes, EnvironmentBacked
  <2>5. CASE \E o \in Obligations : Age(o) \/ Expire(o) \/ Due(o)
    BY <2>5, TimeTypes, EnvironmentBacked
  <2>6. CASE UNCHANGED vars
    BY <2>6 DEF vars, TypeOK, StoreTypes, SenderTypes, Backed, Consistent
  <2> QED BY <2>1, <2>2, <2>3, <2>4, <2>5, <2>6 DEF Next
<1> QED BY <1>1, <1>2, PTL DEF Spec

\* Every variable keeps its type, and no obligation is ever attempted more
\* than MAX_ATTEMPTS times, over all handlers, sweeps and restarts.
THEOREM TypeCorrect == Spec => []TypeOK
BY TablesConsistent, PTL

-----------------------------------------------------------------------------
(* Couriers.  NoDuplicate is not inductive: it rests on what the ledger     *)
(* says of a unit while somebody is in its platform call.  As long as the   *)
(* row of an obligation has not been erased, a unit that may be claimed has *)
(* not reached the chat, and a unit under way is attempting and has one     *)
(* courier, whose outcome tells how often the chat received it.             *)

\* A unit is unaccepted before its platform call; behind it the outcome tells the count.
Honest(s, n) ==
  /\ pc[s] = "send" => n = 0
  /\ pc[s] = "settle" => \/ outcome[s] = "ok" /\ n = 1
                         \/ outcome[s] = "lost"
                         \/ outcome[s] \in {"unsent", "throttled"} /\ n = 0

\* How the state of a unit, its acceptances and the call under way agree.
CourierAt(o, u) ==
  /\ unit[o][u] \in {"none", "pending", "safe"} => accepted[o][u] = 0
  /\ unit[o][u] = "delivered" => accepted[o][u] = 1
  /\ accepted[o][u] \in {0, 1}
  /\ \A s \in Senders : InFlight(s, o, u) =>
       /\ unit[o][u] = "attempting"
       /\ Honest(s, accepted[o][u])
       /\ \A t \in Senders \ {s} : ~InFlight(t, o, u)

Courier == \A o \in Obligations : forgotten[o] \/ \A u \in Units : CourierAt(o, u)

\* a step that puts sender s in no platform call and leaves the others alone
Calm(s) ==
  /\ pc'[s] \notin {"send", "settle"}
  /\ \A t \in Senders \ {s} : /\ pc'[t] = pc[t] /\ job'[t] = job[t]
                               /\ pos'[t] = pos[t] /\ outcome'[t] = outcome[t]

\* Moves to any other label are calm.
LEMMA MovesCalm ==
  ASSUME SenderTypes, NEW s \in Senders
  PROVE  /\ \A label \in Labels \ {"send", "settle"} :
              Goto(s, label) \/ Clear(s, label) => Calm(s)
         /\ Leave(s) => Calm(s)
         /\ Advance(s) => Calm(s)
<1> USE DEF Calm, SenderTypes
<1>1. ASSUME NEW label \in Labels \ {"send", "settle"}, Goto(s, label) PROVE Calm(s)
  BY <1>1 DEF Goto
<1>2. ASSUME NEW label \in Labels \ {"send", "settle"}, Clear(s, label) PROVE Calm(s)
  BY <1>2 DEF Clear
<1>3. ASSUME Leave(s) PROVE Calm(s)
  BY <1>2, <1>3 DEF Leave, After, Labels
<1>4. ASSUME Advance(s) PROVE Calm(s)
  BY <1>4 DEF Advance
<1> QED BY <1>1, <1>2, <1>3, <1>4

\* A calm step, or the end of all senders, keeps the couriers of every
\* obligation whose units and receipts it does not touch.
LEMMA CourierFrame ==
  ASSUME Courier, NEW o \in Obligations,
         \A s \in Senders :
           \/ pc'[s] \notin {"send", "settle"}
           \/ /\ pc'[s] = pc[s] /\ job'[s] = job[s]
              /\ pos'[s] = pos[s] /\ outcome'[s] = outcome[s],
         ~forgotten[o], unit'[o] = unit[o], accepted'[o] = accepted[o],
         NEW u \in Units
  PROVE  CourierAt(o, u)'
BY DEF Courier, CourierAt, InFlight, Honest

\* The same for one unit, when only sender s moves and not into its platform call.
LEMMA UnitFrame ==
  ASSUME Courier, NEW s \in Senders,
         \A t \in Senders \ {s} : /\ pc'[t] = pc[t] /\ job'[t] = job[t]
                                  /\ pos'[t] = pos[t] /\ outcome'[t] = outcome[t],
         NEW p \in Obligations, ~forgotten[p], NEW u \in Units,
         unit'[p][u] = unit[p][u], accepted'[p][u] = accepted[p][u],
         ~InFlight(s, p, u)'
  PROVE  CourierAt(p, u)'
<1>1. CourierAt(p, u)
  BY DEF Courier
<1>2. \A t \in Senders : InFlight(t, p, u)' => t # s /\ InFlight(t, p, u)
  BY DEF InFlight
<1> QED BY <1>1, <1>2 DEF CourierAt, Honest

\* Work inside an obligation keeps the couriers.
LEMMA WorkCourier ==
  ASSUME TypeOK, Courier, NEW s \in Senders, Work(s)
  PROVE  Courier'
<1> DEFINE o == job[s]
           v == pos[s]
<1>1. /\ SenderTypes /\ o \in Obligations /\ v \in Units
      /\ unit \in [Obligations -> [Units -> UnitStates]]
      /\ accepted \in [Obligations -> [Units -> 0..2]]
      /\ forgotten' = forgotten
  BY DEF TypeOK, StoreTypes, SenderTypes, Work, ChannelSend, RunUnit, Plan, Quarantine, Retire, Look, Activate,
         ClaimUnit, Send, SettleDelivered, SettleFailed, SettleRefused, Finish, Fail,
         ghostVars
<1>2. ASSUME Calm(s), UNCHANGED <<unit, accepted, forgotten>> PROVE Courier'
  BY <1>2, CourierFrame DEF Courier, Calm
<1>3. CASE Plan(s)
  <2>1. Calm(s) /\ accepted' = accepted
    BY <1>1, <1>3, MovesCalm DEF Plan, Labels, ghostVars
  <2>2. CASE unit' = unit
    BY <1>1, <1>2, <2>1, <2>2
  <2>3. CASE ~Planned(o) /\ unit' = [unit EXCEPT ![o] = [u \in Units |-> "pending"]]
    <3> SUFFICES ASSUME NEW p \in Obligations, ~forgotten[p], NEW u \in Units
                 PROVE  CourierAt(p, u)'
      BY <1>1 DEF Courier
    <3>1. CASE p # o
      <4>1. unit'[p] = unit[p]
        BY <1>1, <2>3, <3>1
      <4> QED BY <2>1, <4>1, CourierFrame DEF Calm
    <3>2. CASE p = o
      <4>1. unit[p][u] = "none" /\ unit'[p][u] = "pending"
        BY <1>1, <2>3, <3>2 DEF Planned
      <4>2. CourierAt(p, u)
        BY DEF Courier
      <4>3. \A t \in Senders : ~InFlight(t, p, u)'
        BY <2>1, <4>1, <4>2 DEF CourierAt, InFlight, Calm
      <4> QED BY <2>1, <4>1, <4>2, <4>3 DEF CourierAt
    <3> QED BY <3>1, <3>2
  <2> QED BY <1>3, <2>2, <2>3, Zenon DEF Plan
<1>4. CASE Quarantine(s)
  <2>1. Calm(s) /\ UNCHANGED <<unit, accepted, forgotten>>
    BY <1>1, <1>4, MovesCalm DEF Quarantine, Labels, storeVars, ghostVars
  <2> QED BY <2>1, <1>2
<1>5. CASE Retire(s)
  <2>1. Calm(s) /\ UNCHANGED <<unit, accepted, forgotten>>
    BY <1>1, <1>5, MovesCalm DEF Retire, Labels, storeVars, ghostVars
  <2> QED BY <2>1, <1>2
<1>6. CASE Look(s)
  <2>1. Calm(s) /\ UNCHANGED <<unit, accepted, forgotten>>
    BY <1>1, <1>6, MovesCalm DEF Look, Labels, storeVars, ghostVars
  <2> QED BY <2>1, <1>2
<1>7. CASE SettleRefused(s)
  <2>1. Calm(s) /\ UNCHANGED <<unit, accepted, forgotten>>
    BY <1>1, <1>7, MovesCalm DEF SettleRefused, Labels, storeVars, ghostVars
  <2> QED BY <2>1, <1>2
<1>8. CASE Finish(s)
  <2>1. Calm(s) /\ UNCHANGED <<unit, accepted, forgotten>>
    BY <1>1, <1>8, MovesCalm DEF Finish, Labels, storeVars, ghostVars
  <2> QED BY <2>1, <1>2
<1>9. CASE Fail(s)
  <2>1. Calm(s) /\ UNCHANGED <<unit, accepted, forgotten>>
    BY <1>1, <1>9, MovesCalm DEF Fail, Labels, storeVars, ghostVars
  <2> QED BY <2>1, <1>2
<1>10. CASE Activate(s)
  <2>1. Calm(s) /\ UNCHANGED <<unit, accepted, forgotten>>
    BY <1>1, <1>10, MovesCalm DEF Activate, ghostVars, Calm, SenderTypes
  <2> QED BY <2>1, <1>2
\* the end of a platform call: its sender is the only courier of the unit
<1>15. ASSUME Calm(s), accepted' = accepted, pc[s] = "settle",
              \A p \in Obligations, u \in Units :
                unit'[p][u] # unit[p][u] => p = o /\ u = v,
              \/ /\ unit'[o][v] = "delivered"
                 /\ ~forgotten[o] => accepted[o][v] = 1
              \/ /\ unit'[o][v] \in {"safe", "unsafe"}
                 /\ ~forgotten[o] /\ unit'[o][v] = "safe" => accepted[o][v] = 0
       PROVE  Courier'
  <2> SUFFICES ASSUME NEW p \in Obligations, ~forgotten[p], NEW u \in Units
               PROVE  CourierAt(p, u)'
    BY <1>1 DEF Courier
  <2>1. ~InFlight(s, p, u)'
    BY <1>15 DEF Calm, InFlight
  <2>2. CASE p # o \/ u # v
    BY <1>15, <2>1, <2>2, UnitFrame DEF Calm
  <2>3. CASE p = o /\ u = v
    <3>1. InFlight(s, p, u) /\ CourierAt(p, u)
      BY <1>15, <2>3 DEF InFlight, Courier
    <3>2. \A t \in Senders : ~InFlight(t, p, u)'
      BY <1>15, <2>1, <3>1 DEF CourierAt, InFlight, Calm
    <3> QED BY <1>15, <2>3, <3>1, <3>2 DEF CourierAt
  <2> QED BY <2>2, <2>3
<1> DEFINE Others == \A t \in Senders \ {s} : /\ pc'[t] = pc[t] /\ job'[t] = job[t]
                                              /\ pos'[t] = pos[t] /\ outcome'[t] = outcome[t]
<1>11. CASE ClaimUnit(s)
  <2>1. CASE UNCHANGED unit /\ Leave(s)
    BY <1>1, <1>2, <1>11, <2>1, MovesCalm DEF ClaimUnit, ghostVars
  <2>2. CASE /\ unit[o][v] \in {"pending", "safe"}
             /\ unit' = [unit EXCEPT ![o][v] = "attempting"]
             /\ Goto(s, "send")
    <3>1. Others /\ pc'[s] = "send" /\ job'[s] = o /\ pos'[s] = v /\ accepted' = accepted
      BY <1>1, <1>11, <2>2 DEF ClaimUnit, Goto, SenderTypes, ghostVars
    <3> SUFFICES ASSUME NEW p \in Obligations, ~forgotten[p], NEW u \in Units
                 PROVE  CourierAt(p, u)'
      BY <1>1 DEF Courier
    <3>2. CASE p # o \/ u # v
      <4>1. unit'[p][u] = unit[p][u] /\ ~InFlight(s, p, u)'
        BY <1>1, <2>2, <3>1, <3>2 DEF InFlight
      <4> QED BY <3>1, <4>1, UnitFrame
    <3>3. CASE p = o /\ u = v
      <4>1. accepted[p][u] = 0 /\ \A t \in Senders : ~InFlight(t, p, u)
        BY <2>2, <3>3 DEF Courier, CourierAt
      <4>2. unit'[p][u] = "attempting"
        BY <1>1, <2>2, <3>3
      <4>3. \A t \in Senders \ {s} : ~InFlight(t, p, u)'
        BY <3>1, <4>1 DEF InFlight
      <4>4. Honest(s, accepted[p][u])'
        BY <3>1, <4>1 DEF Honest
      <4> QED BY <3>1, <4>1, <4>2, <4>3, <4>4 DEF CourierAt
    <3> QED BY <3>2, <3>3
  <2> QED BY <1>11, <2>1, <2>2, Zenon DEF ClaimUnit, Sendable
<1>12. CASE Send(s)
  <2>1. PICK out \in {"ok", "lost", "unsent", "throttled"} :
          /\ outcome' = [outcome EXCEPT ![s] = out]
          /\ \E arrives \in Arrives(out) :
               accepted' = IF arrives /\ accepted[o][v] < 2
                           THEN [accepted EXCEPT ![o][v] = @ + 1] ELSE accepted
    BY <1>12, Zenon DEF Send
  <2>2. PICK arrives \in BOOLEAN :
          /\ out = "ok" => arrives
          /\ out \in {"unsent", "throttled"} => ~arrives
          /\ accepted' = IF arrives /\ accepted[o][v] < 2
                         THEN [accepted EXCEPT ![o][v] = @ + 1] ELSE accepted
    BY <2>1 DEF Arrives
  <2>3. /\ Others /\ pc[s] = "send" /\ pc'[s] = "settle" /\ job'[s] = o /\ pos'[s] = v
        /\ outcome'[s] = out /\ unit' = unit
    BY <1>1, <1>12, <2>1 DEF Send, SenderTypes, storeVars
  <2> SUFFICES ASSUME NEW p \in Obligations, ~forgotten[p], NEW u \in Units
               PROVE  CourierAt(p, u)'
    BY <1>1 DEF Courier
  <2>4. CASE p # o \/ u # v
    <3>1. accepted'[p][u] = accepted[p][u] /\ ~InFlight(s, p, u)'
      BY <1>1, <2>2, <2>3, <2>4 DEF InFlight
    <3> QED BY <2>3, <3>1, UnitFrame
  <2>5. CASE p = o /\ u = v
    <3>1. InFlight(s, p, u) /\ CourierAt(p, u)
      BY <2>3, <2>5 DEF InFlight, Courier
    <3>2. /\ unit[p][u] = "attempting" /\ accepted[p][u] = 0
          /\ \A t \in Senders \ {s} : ~InFlight(t, p, u)
      BY <2>3, <3>1 DEF CourierAt, Honest
    <3>3. accepted'[p][u] = IF arrives THEN 1 ELSE 0
      BY <1>1, <2>2, <2>5, <3>2
    <3>4. \A t \in Senders \ {s} : ~InFlight(t, p, u)'
      BY <2>3, <3>2 DEF InFlight
    <3>5. Honest(s, accepted[p][u])'
      BY <2>2, <2>3, <3>3 DEF Honest
    <3> QED BY <2>3, <3>2, <3>3, <3>4, <3>5 DEF CourierAt
  <2> QED BY <2>4, <2>5
<1>13. CASE SettleDelivered(s)
  <2>1. Calm(s) /\ accepted' = accepted
    BY <1>1, <1>13, MovesCalm DEF SettleDelivered, ghostVars
  <2>2. /\ pc[s] = "settle" /\ outcome[s] = "ok"
        /\ unit' = [unit EXCEPT ![o][v] = "delivered"]
    BY <1>13 DEF SettleDelivered
  <2>3. unit'[o][v] = "delivered"
    BY <1>1, <2>2
  <2>4. ~forgotten[o] => accepted[o][v] = 1
    <3>1. InFlight(s, o, v)
      BY <2>2 DEF InFlight
    <3>2. ~forgotten[o] => Honest(s, accepted[o][v])
      BY <1>1, <3>1 DEF Courier, CourierAt
    <3> QED BY <2>2, <3>2 DEF Honest
  <2>5. \A p \in Obligations, u \in Units :
          unit'[p][u] # unit[p][u] => p = o /\ u = v
    BY <1>1, <2>2
  <2> QED BY <1>1, <1>15, <2>1, <2>2, <2>3, <2>4, <2>5
<1>14. CASE SettleFailed(s)
  <2>1. Calm(s) /\ accepted' = accepted
    <3>1. \/ pc' = [pc EXCEPT ![s] = "plan"] \/ pc' = [pc EXCEPT ![s] = "fail"]
      BY <1>14 DEF SettleFailed
    <3>2. /\ accepted' = accepted /\ job' = job
          /\ pos' = [pos EXCEPT ![s] = 1] /\ outcome' = [outcome EXCEPT ![s] = "none"]
      BY <1>14 DEF SettleFailed, ghostVars
    <3> QED BY <1>1, <3>1, <3>2 DEF Calm, SenderTypes
  <2>2. /\ pc[s] = "settle" /\ outcome[s] # "ok"
        /\ unit' = [unit EXCEPT ![o][v] = IF ProvenUnsent(outcome[s]) THEN "safe" ELSE "unsafe"]
    BY <1>14 DEF SettleFailed
  <2>3. unit'[o][v] = IF ProvenUnsent(outcome[s]) THEN "safe" ELSE "unsafe"
    BY <1>1, <2>2
  <2>4. ~forgotten[o] /\ ProvenUnsent(outcome[s]) => accepted[o][v] = 0
    BY <1>1, <2>2 DEF Courier, CourierAt, InFlight, Honest, ProvenUnsent
  <2>5. \A p \in Obligations, u \in Units :
          unit'[p][u] # unit[p][u] => p = o /\ u = v
    BY <1>1, <2>2
  <2> QED BY <1>1, <1>15, <2>1, <2>2, <2>3, <2>4, <2>5
<1> QED BY <1>3, <1>4, <1>5, <1>6, <1>7, <1>8, <1>9, <1>10, <1>11, <1>12, <1>13, <1>14 DEF Work, ChannelSend, RunUnit

\* Everything outside the work on an obligation: no sender enters a platform
\* call, the chat receives nothing, and units change only with their deletion.
Aside ==
  /\ \A s \in Senders :
       \/ pc'[s] \notin {"send", "settle"}
       \/ /\ pc'[s] = pc[s] /\ job'[s] = job[s]
          /\ pos'[s] = pos[s] /\ outcome'[s] = outcome[s]
  /\ accepted' = accepted
  /\ \A o \in Obligations : forgotten'[o] \/ (~forgotten[o] /\ unit'[o] = unit[o])

\* A step that starts, ends and settles no call keeps that agreement:
LEMMA AsideCourier ==
  ASSUME Courier, Aside
  PROVE  Courier'
<1> SUFFICES ASSUME NEW o \in Obligations, ~forgotten'[o], NEW u \in Units
             PROVE  CourierAt(o, u)'
  BY DEF Courier
<1>1. ~forgotten[o] /\ unit'[o] = unit[o] /\ accepted'[o] = accepted[o]
  BY DEF Aside
<1> QED BY <1>1, CourierFrame DEF Aside

\* the handler outside its unit loop,
LEMMA HandlerAside ==
  ASSUME TypeOK, NEW f \in Finals,
         \/ RecordRow(f) \/ RecordRefused(f) \/ Discard(f) \/ Check(f)
         \/ \E o \in Obligations : Submit(f, o)
  PROVE  Aside
<1>1. SenderTypes /\ f \in Senders
  BY DEF TypeOK, Senders
<1>2. ASSUME NEW t \in Senders, Calm(f)
      PROVE  \/ pc'[t] \notin {"send", "settle"}
             \/ /\ pc'[t] = pc[t] /\ job'[t] = job[t]
                /\ pos'[t] = pos[t] /\ outcome'[t] = outcome[t]
  BY <1>2 DEF Calm
<1>3. CASE RecordRow(f)
  <2>1. PICK rows : Prune(rows)
    BY <1>3, Zenon DEF RecordRow
  <2>2. \A o \in Obligations : forgotten'[o] \/ (~forgotten[o] /\ unit'[o] = unit[o])
    BY <2>1, PruneKeeps DEF Aside
  <2>3. \E label \in {"retire", "plan", "check"} : Goto(f, label)
    BY <1>3, Zenon DEF RecordRow
  <2>4. Calm(f)
    BY <1>1, <2>3, MovesCalm DEF Labels
  <2> QED BY <1>2, <1>3, <2>2, <2>4 DEF RecordRow, Aside
<1>4. CASE RecordRefused(f) \/ Discard(f) \/ Check(f)
  <2>1. Calm(f)
    BY <1>1, <1>4, MovesCalm DEF RecordRefused, Discard, Check, Labels
  <2>2. unit' = unit /\ accepted' = accepted /\ forgotten' = forgotten
    BY <1>4 DEF RecordRefused, Discard, Check, storeVars, ghostVars
  <2> QED BY <1>2, <2>1, <2>2 DEF Aside
<1>5. CASE \E o \in Obligations : Submit(f, o)
  BY <1>1, <1>5 DEF Submit, SenderTypes, Aside, storeVars, ghostVars
<1> QED BY <1>3, <1>4, <1>5

\* a sweep outside its unit loop,
LEMMA SweepAside ==
  ASSUME TypeOK, NEW s \in Sweeps,
         Wake \/ ClaimOwn \/ ClaimOthers(s) \/ NextRow(s) \/ NoMoreRows(s) \/ Release(s)
  PROVE  Aside
<1>1. SenderTypes /\ s \in Senders /\ Live \in Senders
  BY DEF TypeOK, Senders, Sweeps
<1>2. ASSUME NEW rows, Prune(rows), NEW label \in {"claimOthers", "next"},
             NEW t \in Senders, pc' = [pc EXCEPT ![t] = label],
             UNCHANGED <<job, pos, outcome, accepted>>
      PROVE  Aside
  <2>1. \A o \in Obligations : forgotten'[o] \/ (~forgotten[o] /\ unit'[o] = unit[o])
    BY <1>2, PruneKeeps
  <2>2. \A r \in Senders : pc'[r] \notin {"send", "settle"} \/ pc'[r] = pc[r]
    BY <1>1, <1>2 DEF SenderTypes
  <2> QED BY <1>2, <2>1, <2>2 DEF Aside
<1>3. CASE ClaimOwn
  <2>1. \E rows : Prune(rows)
    BY <1>3, Zenon DEF ClaimOwn, ClaimRows
  <2> QED BY <1>1, <1>2, <1>3, <2>1 DEF ClaimOwn
<1>4. CASE ClaimOthers(s)
  <2>1. \E rows : Prune(rows)
    BY <1>4, Zenon DEF ClaimOthers, ClaimRows
  <2> QED BY <1>1, <1>2, <1>4, <2>1 DEF ClaimOthers
<1>5. CASE Wake \/ NextRow(s) \/ NoMoreRows(s) \/ Release(s)
  BY <1>1, <1>5 DEF Wake, NextRow, NoMoreRows, Release, Goto, SenderTypes, Aside,
                    storeVars, ghostVars
<1> QED BY <1>3, <1>4, <1>5

\* faults, shutdown, restart and time.
LEMMA EnvironmentAside ==
  ASSUME TypeOK, Fault \/ \E o \in Obligations : Age(o) \/ Expire(o) \/ Due(o)
  PROVE  Aside
<1>1. SenderTypes /\ Live \in Senders
  BY DEF TypeOK, Senders, Sweeps
<1>2. unit' = unit /\ accepted' = accepted /\ forgotten' = forgotten
  BY DEF Fault, Shutdown, Restart, ClaimOwnFails, ClaimOthersFails, StoreFault,
         PlanSkipped, Age, Expire, Due, storeVars, ghostVars
<1>3. CASE Shutdown \/ Restart
  BY <1>1, <1>2, <1>3 DEF Shutdown, Restart, StopSenders, SenderTypes, Sweeps, Aside
<1>4. CASE ClaimOwnFails \/ ClaimOthersFails
  BY <1>1, <1>2, <1>4 DEF ClaimOwnFails, ClaimOthersFails, Goto, SenderTypes, Aside
<1>5. ASSUME NEW s \in Senders, StoreFault(s) \/ PlanSkipped(s)
      PROVE  Aside
  <2>1. Calm(s)
    <3>1. CASE StoreFault(s)
      <4>1. \E label \in {"discard", "idle", After(s)} : Clear(s, label)
        BY <3>1, Zenon DEF StoreFault
      <4>2. {"discard", "idle", After(s)} \subseteq Labels \ {"send", "settle"}
        BY DEF After, Labels
      <4> QED BY <1>1, <4>1, <4>2, MovesCalm
    <3>2. CASE PlanSkipped(s)
      BY <1>1, <3>2, MovesCalm DEF PlanSkipped, Labels
    <3> QED BY <1>5, <3>1, <3>2
  <2> QED BY <1>2, <2>1 DEF Calm, Aside
<1>6. CASE \E o \in Obligations : Age(o) \/ Expire(o) \/ Due(o)
  BY <1>1, <1>2, <1>6 DEF Age, Expire, Due, senderVars, Aside
<1> QED BY <1>3, <1>4, <1>5, <1>6 DEF Fault

\* The couriers are an invariant, so the chat receives no unit twice.
THEOREM CouriersHold == Spec => []Courier
<1>1. Init => Courier
  BY DEF Init, Courier, CourierAt, NoPlan, InFlight
<1>2. TypeOK /\ Courier /\ [Next]_vars => Courier'
  <2> SUFFICES ASSUME TypeOK, Courier, [Next]_vars PROVE Courier'
    OBVIOUS
  <2>1. ASSUME NEW f \in Finals, HandlerStep(f) \/ \E o \in Obligations : Submit(f, o)
        PROVE  Courier'
    <3>1. CASE Work(f)
      BY <3>1, WorkCourier DEF Senders
    <3>2. CASE ~Work(f)
      BY <2>1, <3>2, HandlerAside, AsideCourier DEF HandlerStep
    <3> QED BY <3>1, <3>2
  <2>2. ASSUME NEW s \in Sweeps, SweepStep(s)
        PROVE  Courier'
    <3>1. CASE Work(s)
      BY <3>1, WorkCourier DEF Senders
    <3>2. CASE ~Work(s)
      BY <2>2, <3>2, SweepAside, AsideCourier DEF SweepStep
    <3> QED BY <3>1, <3>2
  <2>3. CASE Wake \/ ClaimOwn
    BY <2>3, SweepAside, AsideCourier DEF Sweeps
  <2>4. CASE Fault \/ \E o \in Obligations : Age(o) \/ Expire(o) \/ Due(o)
    BY <2>4, EnvironmentAside, AsideCourier
  <2>5. CASE UNCHANGED vars
    BY <2>5 DEF vars, Courier, CourierAt, InFlight, Honest
  <2> QED BY <2>1, <2>2, <2>3, <2>4, <2>5 DEF Next
<1> QED BY <1>1, <1>2, TypeCorrect, PTL DEF Spec

\* No unit of a reply reaches the chat twice, for any number of handlers,
\* obligations and units, over lost answers, retries, sweeps and restarts.
THEOREM NeverTwice == Spec => []NoDuplicate
<1>1. Courier => NoDuplicate
  BY DEF Courier, CourierAt, NoDuplicate
<1> QED BY <1>1, CouriersHold, PTL

\* One courier per unit, and a unit under way is fenced by its row.
THEOREM OneAtATime == Spec => []OneCourier
<1>1. TypeOK /\ Courier => OneCourier
  BY DEF TypeOK, SenderTypes, Courier, CourierAt, OneCourier, InFlight
<1> QED BY <1>1, CouriersHold, TypeCorrect, PTL

\* A row that says delivered is true: the chat has every unit of the reply.
THEOREM DeliveredIsTrue == Spec => []DeliveredInFull
<1>1. TypeOK /\ Backed /\ Courier => DeliveredInFull
  BY DEF Backed, Consistent, Courier, CourierAt, DeliveredInFull
<1> QED BY <1>1, CouriersHold, TablesConsistent, PTL

\* An obligation without a row has sent nothing and is sending nothing.
THEOREM DiscardLosesNothing == Spec => []DiscardIsUnsent
<1>1. TypeOK /\ Backed /\ Courier => DiscardIsUnsent
  BY DEF Backed, Consistent, Courier, CourierAt, DiscardIsUnsent
<1> QED BY <1>1, CouriersHold, TablesConsistent, PTL

-----------------------------------------------------------------------------
(* Order.  A sender has passed only units that are delivered, so that a     *)
(* unit somebody has touched has only delivered ones before it.            *)

\* The places of the loop over the units.
Walking == {"look", "activate", "claim", "send", "settle", "finish"}
\* The states of a unit that some sender has come to.
Touched == {"attempting", "delivered", "safe", "unsafe"}

\* Outside the loop a sender stands at the first unit;
Begun(s) == pc[s] \in Walking \/ pos[s] = 1

\* within it, every unit it has passed is delivered.
Passed(s) ==
  forgotten[job[s]] \/ \A u \in Units : u < pos[s] => unit[job[s]][u] = "delivered"

\* Whoever has come to a unit has found those before it delivered.
InPlan(o) ==
  forgotten[o] \/ \A u, v \in Units :
    u < v /\ unit[o][v] \in Touched => unit[o][u] = "delivered"

Ordered ==
  /\ \A s \in Senders : Begun(s) /\ Passed(s)
  /\ \A o \in Obligations : InPlan(o)

\* A step of one sender that moves over a delivered unit at most, and touches
\* no unit but the one it has reached.
LEMMA OrderStep ==
  ASSUME SenderTypes, Ordered, NEW s \in Senders, UNCHANGED <<job, forgotten>>,
         \A t \in Senders \ {s} : pc'[t] = pc[t] /\ pos'[t] = pos[t],
         \A p \in Obligations, u \in Units :
           unit[p][u] = "delivered" => unit'[p][u] = "delivered",
         Begun(s)',
         \/ pos'[s] = 1 \/ pos'[s] = pos[s]
         \/ pos'[s] = pos[s] + 1 /\ unit'[job[s]][pos[s]] = "delivered",
         \A p \in Obligations, u \in Units :
           unit'[p][u] \in Touched => unit[p][u] \in Touched \/ (p = job[s] /\ u = pos[s])
  PROVE  Ordered'
<1>1. ASSUME NEW t \in Senders PROVE job[t] \in Obligations /\ pos[t] \in Units
  BY DEF SenderTypes
<1>2. ASSUME NEW t \in Senders PROVE Begun(t)'
  BY DEF Ordered, Begun
<1>3. ASSUME NEW t \in Senders PROVE Passed(t)'
  <2>1. CASE t # s
    BY <1>1, <2>1 DEF Ordered, Passed
  <2>2. CASE t = s
    <3> SUFFICES ASSUME ~forgotten[job[s]], NEW u \in Units, u < pos'[s]
                 PROVE  unit'[job[s]][u] = "delivered"
      BY <2>2 DEF Passed
    <3>1. u < pos[s] => unit[job[s]][u] = "delivered"
      BY DEF Ordered, Passed
    <3>2. u < pos[s] \/ (u = pos[s] /\ pos'[s] = pos[s] + 1)
      BY <1>1
    <3> QED BY <1>1, <3>1, <3>2
  <2> QED BY <2>1, <2>2
<1>4. ASSUME NEW p \in Obligations PROVE InPlan(p)'
  <2> SUFFICES ASSUME ~forgotten[p], NEW u \in Units, NEW v \in Units, u < v,
                      unit'[p][v] \in Touched
               PROVE  unit'[p][u] = "delivered"
    BY DEF InPlan
  <2>1. CASE unit[p][v] \in Touched
    BY <2>1 DEF Ordered, InPlan
  <2>2. CASE p = job[s] /\ v = pos[s]
    BY <2>2 DEF Ordered, Passed
  <2> QED BY <2>1, <2>2
<1> QED BY <1>2, <1>3, <1>4 DEF Ordered

\* A step that changes the units of an obligation only by forgetting it.
LEMMA OrderAside ==
  ASSUME SenderTypes, Ordered,
         \A o \in Obligations : forgotten'[o] \/ (~forgotten[o] /\ unit'[o] = unit[o]),
         SenderTypes',
         \A s \in Senders :
           Begun(s)' /\ (pos'[s] = 1 \/ (pos'[s] = pos[s] /\ job'[s] = job[s]))
  PROVE  Ordered'
<1>1. ASSUME NEW s \in Senders PROVE Passed(s)'
  <2>1. CASE pos'[s] = 1
    BY <2>1 DEF Passed
  <2>2. CASE pos'[s] = pos[s] /\ job'[s] = job[s]
    <3>1. job[s] \in Obligations /\ Passed(s)
      BY DEF SenderTypes, Ordered
    <3> QED BY <2>2, <3>1 DEF Passed
  <2> QED BY <2>1, <2>2
<1>2. ASSUME NEW o \in Obligations PROVE InPlan(o)'
  BY DEF Ordered, InPlan
<1> QED BY <1>1, <1>2 DEF Ordered

\* What the moves of a sender do to its place in the plan.
LEMMA MovesOrder ==
  ASSUME SenderTypes, Ordered, NEW s \in Senders
  PROVE  /\ \A label \in Labels : Clear(s, label) =>
              /\ job' = job /\ pos'[s] = 1 /\ Begun(s)'
              /\ \A t \in Senders \ {s} : pc'[t] = pc[t] /\ pos'[t] = pos[t]
         /\ Leave(s) =>
              /\ job' = job /\ pos'[s] = 1 /\ Begun(s)'
              /\ \A t \in Senders \ {s} : pc'[t] = pc[t] /\ pos'[t] = pos[t]
         /\ \A label \in Labels : Goto(s, label) =>
              /\ job' = job /\ pos'[s] = pos[s]
              /\ label \in Walking \/ pc[s] \notin Walking => Begun(s)'
              /\ \A t \in Senders \ {s} : pc'[t] = pc[t] /\ pos'[t] = pos[t]
<1> USE DEF SenderTypes, Begun
<1>1. ASSUME NEW label \in Labels, Clear(s, label)
      PROVE  /\ job' = job /\ pos'[s] = 1 /\ Begun(s)'
             /\ \A t \in Senders \ {s} : pc'[t] = pc[t] /\ pos'[t] = pos[t]
  BY <1>1 DEF Clear
<1>2. ASSUME NEW label \in Labels, Goto(s, label)
      PROVE  /\ job' = job /\ pos'[s] = pos[s]
             /\ label \in Walking \/ pc[s] \notin Walking => Begun(s)'
             /\ \A t \in Senders \ {s} : pc'[t] = pc[t] /\ pos'[t] = pos[t]
  BY <1>2 DEF Goto, Ordered
<1>3. After(s) \in Labels /\ (Leave(s) <=> Clear(s, After(s)))
  BY DEF After, Labels, Leave
<1> HIDE DEF SenderTypes, Begun
<1> QED BY <1>1, <1>2, <1>3

\* Work inside an obligation keeps the order of its plan.
LEMMA WorkOrder ==
  ASSUME TypeOK, Ordered, NEW s \in Senders, Work(s)
  PROVE  Ordered'
<1> DEFINE o == job[s]
           v == pos[s]
           Others == \A t \in Senders \ {s} : pc'[t] = pc[t] /\ pos'[t] = pos[t]
<1>1. /\ SenderTypes /\ o \in Obligations /\ v \in Units
      /\ unit \in [Obligations -> [Units -> UnitStates]]
      /\ forgotten' = forgotten
  BY DEF TypeOK, StoreTypes, SenderTypes, Work, ChannelSend, RunUnit, Plan, Quarantine, Retire, Look, Activate,
         ClaimUnit, Send, SettleDelivered, SettleFailed, SettleRefused, Finish, Fail,
         ghostVars
\* the sender leaves, or goes on within the plan, and the units stay
<1>2. ASSUME unit' = unit,
             \/ Leave(s) \/ \E label \in Labels : Clear(s, label)
             \/ \E label \in Walking : Goto(s, label)
             \/ \E label \in Labels : pc[s] \notin Walking /\ Goto(s, label)
      PROVE  Ordered'
  <2>1. /\ job' = job /\ Others /\ Begun(s)'
        /\ pos'[s] = 1 \/ pos'[s] = pos[s]
    BY <1>1, <1>2, MovesOrder DEF Walking, Labels
  <2> QED BY <1>1, <1>2, <2>1, OrderStep
\* one unit changes, the one the sender has reached
<1>3. ASSUME NEW st \in Touched, unit' = [unit EXCEPT ![o][v] = st],
             unit[o][v] # "delivered" \/ st = "delivered", job' = job, Others, Begun(s)',
             \/ pos'[s] = 1 \/ pos'[s] = pos[s]
             \/ pos'[s] = pos[s] + 1 /\ st = "delivered"
      PROVE  Ordered'
  <2>1. \A p \in Obligations, u \in Units :
          unit'[p][u] = IF p = o /\ u = v THEN st ELSE unit[p][u]
    BY <1>1, <1>3
  <2> QED BY <1>1, <1>3, <2>1, OrderStep
<1>4. CASE Plan(s)
  <2>1. CASE unit' = unit
    <3>1. Goto(s, "look") \/ \E label \in Labels : Clear(s, label)
      BY <1>4 DEF Plan, Labels
    <3> QED BY <1>2, <2>1, <3>1 DEF Walking
  <2>2. CASE ~Planned(o) /\ unit' = [unit EXCEPT ![o] = [u \in Units |-> "pending"]]
             /\ Goto(s, "look")
    <3>1. /\ job' = job /\ Others /\ Begun(s)' /\ pos'[s] = pos[s]
      BY <1>1, <2>2, MovesOrder DEF Walking, Labels
    <3>2. \A p \in Obligations, u \in Units :
            \/ unit'[p][u] = unit[p][u]
            \/ unit[p][u] = "none" /\ unit'[p][u] = "pending"
      BY <1>1, <2>2 DEF Planned
    <3>3. "delivered" # "none" /\ "pending" \notin Touched
      BY DEF Touched
    <3> QED BY <1>1, <3>1, <3>2, <3>3, OrderStep
  <2> QED BY <1>4, <2>1, <2>2, Zenon DEF Plan
<1>5. CASE Quarantine(s) \/ Retire(s) \/ Finish(s) \/ Fail(s) \/ SettleRefused(s)
  <2>1. Leave(s) /\ unit' = unit
    BY <1>5 DEF Quarantine, Retire, Finish, Fail, SettleRefused, storeVars
  <2> QED BY <1>2, <2>1
<1>6. CASE Look(s)
  <2>1. unit' = unit
    BY <1>6 DEF Look, storeVars
  <2>2. CASE Done(o, v) /\ Advance(s)
    <3>1. /\ job' = job /\ Others
          /\ pc'[s] \in {"look", "finish"}
          /\ pos'[s] = pos[s] \/ pos'[s] = pos[s] + 1
      BY <1>1, <2>2 DEF Advance, SenderTypes
    <3>2. Begun(s)'
      BY <3>1 DEF Begun, Walking
    <3> QED BY <1>1, <2>1, <2>2, <3>1, <3>2, OrderStep DEF Done
  <2>3. CASE Leave(s) \/ Goto(s, "claim") \/ Goto(s, "activate")
    BY <1>2, <2>1, <2>3 DEF Walking
  <2> QED BY <1>6, <2>2, <2>3 DEF Look
<1>7. CASE Activate(s)
  <2>1. unit' = unit
    BY <1>7 DEF Activate
  <2>2. CASE Leave(s)
    BY <1>2, <2>1, <2>2
  <2>3. CASE pc' = [pc EXCEPT ![s] = "claim"] /\ job' = job /\ pos' = pos
    <3>1. Others /\ pc'[s] = "claim" /\ pos'[s] = pos[s]
      BY <1>1, <2>3 DEF SenderTypes
    <3>2. Begun(s)'
      BY <3>1 DEF Begun, Walking
    <3> QED BY <1>1, <2>1, <2>3, <3>1, <3>2, OrderStep
  <2> QED BY <1>7, <2>2, <2>3 DEF Activate
<1>8. CASE ClaimUnit(s)
  <2>1. CASE unit' = unit /\ Leave(s)
    BY <1>2, <2>1
  <2>2. CASE Sendable(o, v) /\ unit' = [unit EXCEPT ![o][v] = "attempting"] /\ Goto(s, "send")
    <3>1. /\ job' = job /\ Others /\ Begun(s)' /\ pos'[s] = pos[s]
      BY <1>1, <2>2, MovesOrder DEF Walking, Labels
    <3> QED BY <1>3, <2>2, <3>1 DEF Touched, Sendable
  <2> QED BY <1>8, <2>1, <2>2, Zenon DEF ClaimUnit
<1>9. CASE Send(s)
  <2>1. /\ unit' = unit /\ job' = job /\ pos' = pos /\ pc'[s] = "settle" /\ Others
    BY <1>1, <1>9 DEF Send, storeVars, SenderTypes
  <2>2. Begun(s)'
    BY <2>1 DEF Begun, Walking
  <2> QED BY <1>1, <2>1, <2>2, OrderStep
<1>10. CASE SettleDelivered(s)
  <2>1. Advance(s) /\ unit' = [unit EXCEPT ![o][v] = "delivered"]
    BY <1>10 DEF SettleDelivered
  <2>2. /\ job' = job /\ Others
        /\ pc'[s] \in {"look", "finish"}
        /\ pos'[s] = pos[s] \/ pos'[s] = pos[s] + 1
    BY <1>1, <2>1 DEF Advance, SenderTypes
  <2>3. Begun(s)'
    BY <2>2 DEF Begun, Walking
  <2> QED BY <1>3, <2>1, <2>2, <2>3 DEF Touched
<1>11. CASE SettleFailed(s)
  <2>1. PICK st \in {"safe", "unsafe"} : unit' = [unit EXCEPT ![o][v] = st]
    BY <1>11 DEF SettleFailed
  <2>2. unit[o][v] # "delivered"
    BY <1>11 DEF SettleFailed, Settleable
  <2>3. /\ job' = job /\ pos' = [pos EXCEPT ![s] = 1]
        /\ pc' = [pc EXCEPT ![s] = "plan"] \/ pc' = [pc EXCEPT ![s] = "fail"]
    BY <1>11 DEF SettleFailed
  <2>4. Others /\ pos'[s] = 1 /\ Begun(s)'
    BY <1>1, <2>3 DEF SenderTypes, Begun
  <2> QED BY <1>3, <2>1, <2>2, <2>3, <2>4 DEF Touched
<1> QED BY <1>4, <1>5, <1>6, <1>7, <1>8, <1>9, <1>10, <1>11 DEF Work, ChannelSend, RunUnit

\* Outside the work on an obligation a sender keeps its place, or starts over.
Beside ==
  \A s \in Senders :
    Begun(s)' /\ (pos'[s] = 1 \/ (pos'[s] = pos[s] /\ job'[s] = job[s]))

\* One sender moves to another label, not in the middle of a plan.
LEMMA OneBeside ==
  ASSUME SenderTypes, Ordered, NEW s \in Senders,
         \/ Leave(s) \/ \E label \in Labels : Clear(s, label)
         \/ \E label \in Labels : pc[s] \notin Walking /\ Goto(s, label)
         \/ \E label \in Labels, o \in Obligations :
              /\ pc[s] \notin Walking
              /\ pc' = [pc EXCEPT ![s] = label] /\ pos' = pos
              /\ job' = job \/ job' = [job EXCEPT ![s] = o]
  PROVE  Beside
<1>1. CASE Leave(s) \/ (\E label \in Labels : Clear(s, label))
           \/ \E label \in Labels : pc[s] \notin Walking /\ Goto(s, label)
  <2>1. /\ job' = job /\ Begun(s)' /\ (pos'[s] = 1 \/ pos'[s] = pos[s])
        /\ \A t \in Senders \ {s} : pc'[t] = pc[t] /\ pos'[t] = pos[t]
    BY <1>1, MovesOrder
  <2>2. ASSUME NEW t \in Senders
        PROVE  Begun(t)' /\ (pos'[t] = 1 \/ (pos'[t] = pos[t] /\ job'[t] = job[t]))
    <3>1. CASE t = s
      BY <2>1, <3>1
    <3>2. CASE t # s
      BY <2>1, <3>2 DEF Ordered, Begun
    <3> QED BY <3>1, <3>2
  <2> QED BY <2>2 DEF Beside
<1>2. ASSUME NEW label \in Labels, NEW o \in Obligations, pc[s] \notin Walking,
             pc' = [pc EXCEPT ![s] = label], pos' = pos,
             job' = job \/ job' = [job EXCEPT ![s] = o]
      PROVE  Beside
  <2>1. pos[s] = 1
    BY <1>2 DEF Ordered, Begun
  <2>2. ASSUME NEW t \in Senders
        PROVE  Begun(t)' /\ (pos'[t] = 1 \/ (pos'[t] = pos[t] /\ job'[t] = job[t]))
    <3>1. CASE t = s
      BY <1>2, <2>1, <3>1 DEF Begun
    <3>2. CASE t # s
      BY <1>2, <3>2 DEF SenderTypes, Ordered, Begun
    <3> QED BY <3>1, <3>2
  <2> QED BY <2>2 DEF Beside
<1> QED BY <1>1, <1>2

\* The handler outside the loop is such a step,
LEMMA HandlerBeside ==
  ASSUME SenderTypes, Ordered, NEW f \in Finals,
         \/ RecordRow(f) \/ RecordRefused(f) \/ Discard(f) \/ Check(f)
         \/ \E o \in Obligations : Submit(f, o)
  PROVE  Beside
<1> f \in Senders
  BY DEF Senders
<1> USE OneBeside DEF Walking, Labels
<1>1. CASE RecordRow(f)
  <2>1. pc[f] = "record" /\ \E label \in {"retire", "plan", "check"} : Goto(f, label)
    BY <1>1, Zenon DEF RecordRow
  <2> QED BY <2>1
<1>2. CASE RecordRefused(f)
  BY <1>2 DEF RecordRefused
<1>3. CASE Discard(f)
  BY <1>3 DEF Discard
<1>4. CASE Check(f)
  BY <1>4 DEF Check
<1>5. ASSUME NEW o \in Obligations, Submit(f, o) PROVE Beside
  <2>1. /\ pc[f] = "idle" /\ pos' = pos /\ pc' = [pc EXCEPT ![f] = "record"]
        /\ job' = [job EXCEPT ![f] = o]
    BY <1>5 DEF Submit
  <2> QED BY <2>1
<1> QED BY <1>1, <1>2, <1>3, <1>4, <1>5

\* a sweep outside the loop is,
LEMMA SweepBeside ==
  ASSUME SenderTypes, Ordered, NEW s \in Sweeps,
         Wake \/ ClaimOwn \/ ClaimOthers(s) \/ NextRow(s) \/ NoMoreRows(s) \/ Release(s)
  PROVE  Beside
<1> s \in Senders /\ Live \in Senders /\ \E o \in Obligations : TRUE
  BY DEF Senders
<1> USE OneBeside DEF Walking, Labels
<1>1. CASE Wake
  BY <1>1 DEF Wake
<1>2. CASE ClaimOwn
  BY <1>2 DEF ClaimOwn
<1>3. CASE ClaimOthers(s)
  BY <1>3 DEF ClaimOthers
<1>4. CASE NextRow(s)
  <2>1. PICK o \in batch[s] :
          /\ job' = [job EXCEPT ![s] = o]
          /\ pc' = [pc EXCEPT ![s] = IF Recognised(o) THEN "retire" ELSE "plan"]
    BY <1>4, Zenon DEF NextRow
  <2>2. o \in Obligations
    BY DEF SenderTypes
  <2>3. pc[s] = "next" /\ pos' = pos
    BY <1>4 DEF NextRow
  <2> QED BY <2>1, <2>2, <2>3
<1>5. CASE NoMoreRows(s)
  BY <1>5 DEF NoMoreRows
<1>6. CASE Release(s)
  BY <1>6 DEF Release
<1> QED BY <1>1, <1>2, <1>3, <1>4, <1>5, <1>6

\* and so are faults, shutdown, restart and time.
LEMMA EnvironmentBeside ==
  ASSUME SenderTypes, Ordered, Fault \/ \E o \in Obligations : Age(o) \/ Expire(o) \/ Due(o)
  PROVE  Beside
<1> Live \in Senders /\ \E o \in Obligations : TRUE
  BY DEF Senders
<1>1. CASE Shutdown \/ Restart
  BY <1>1 DEF Shutdown, Restart, StopSenders, SenderTypes, Senders, Ordered, Beside, Begun
<1>2. CASE ClaimOwnFails
  BY <1>2, OneBeside DEF ClaimOwnFails, Walking, Labels
<1>3. CASE ClaimOthersFails
  BY <1>3, OneBeside DEF ClaimOthersFails, Walking, Labels
<1>4. ASSUME NEW s \in Senders, StoreFault(s) PROVE Beside
  <2>1. \E label \in {"discard", "idle", After(s)} : Clear(s, label)
    BY <1>4, Zenon DEF StoreFault
  <2> QED BY <2>1, OneBeside DEF After, Labels
<1>5. ASSUME NEW s \in Senders, PlanSkipped(s) PROVE Beside
  BY <1>5, OneBeside DEF PlanSkipped, Walking, Labels
<1>6. CASE \E o \in Obligations : Age(o) \/ Expire(o) \/ Due(o)
  BY <1>6 DEF Age, Expire, Due, senderVars, Ordered, Beside, Begun
<1> QED BY <1>1, <1>2, <1>3, <1>4, <1>5, <1>6 DEF Fault

\* Every sender has passed delivered units only, and no plan has a gap.
THEOREM OrderHolds == Spec => []Ordered
<1>1. Init => Ordered
  BY DEF Init, Ordered, Begun, Passed, InPlan, NoPlan, Touched
<1>2. TypeOK /\ TypeOK' /\ Ordered /\ [Next]_vars => Ordered'
  <2> SUFFICES ASSUME TypeOK, TypeOK', Ordered, [Next]_vars PROVE Ordered'
    OBVIOUS
  <2>1. SenderTypes /\ SenderTypes'
    BY DEF TypeOK
  <2>2. ASSUME Aside, Beside PROVE Ordered'
    BY <2>1, <2>2, OrderAside DEF Aside, Beside
  <2>3. ASSUME NEW f \in Finals, HandlerStep(f) \/ \E o \in Obligations : Submit(f, o)
        PROVE  Ordered'
    <3>1. CASE Work(f)
      BY <3>1, WorkOrder DEF Senders
    <3>2. CASE ~Work(f)
      BY <2>1, <2>2, <2>3, <3>2, HandlerAside, HandlerBeside DEF HandlerStep
    <3> QED BY <3>1, <3>2
  <2>4. ASSUME NEW s \in Sweeps, SweepStep(s)
        PROVE  Ordered'
    <3>1. CASE Work(s)
      BY <3>1, WorkOrder DEF Senders
    <3>2. CASE ~Work(s)
      BY <2>1, <2>2, <2>4, <3>2, SweepAside, SweepBeside DEF SweepStep
    <3> QED BY <3>1, <3>2
  <2>5. CASE Wake \/ ClaimOwn
    BY <2>1, <2>2, <2>5, SweepAside, SweepBeside DEF Sweeps
  <2>6. CASE Fault \/ \E o \in Obligations : Age(o) \/ Expire(o) \/ Due(o)
    BY <2>1, <2>2, <2>6, EnvironmentAside, EnvironmentBeside
  <2>7. CASE UNCHANGED vars
    BY <2>7 DEF vars, Ordered, Begun, Passed, InPlan
  <2> QED BY <2>3, <2>4, <2>5, <2>6, <2>7 DEF Next
<1> QED BY <1>1, <1>2, TypeCorrect, PTL DEF Spec

\* The chat receives the units of a reply in the order of its plan, whichever
\* senders work on it: a handler, its inline retries, the sweeps, a process
\* after a restart.
THEOREM PlanIsInOrder == Spec => []InOrder
<1>1. ASSUME TypeOK, Courier, Ordered PROVE InOrder
  <2> SUFFICES ASSUME NEW o \in Obligations, NEW u \in Units, NEW v \in Units, u < v,
                      accepted[o][v] >= 1, ~forgotten[o]
               PROVE  accepted[o][u] >= 1
    BY DEF InOrder
  <2>1. CourierAt(o, u) /\ CourierAt(o, v)
    BY <1>1 DEF Courier
  <2>2. unit[o][v] \in UnitStates
    BY <1>1 DEF TypeOK, StoreTypes
  <2>3. unit[o][v] \in Touched
    BY <2>1, <2>2 DEF CourierAt, Touched
  <2>4. unit[o][u] = "delivered"
    BY <1>1, <2>3 DEF Ordered, InPlan
  <2> QED BY <2>1, <2>4 DEF CourierAt
<1> QED BY <1>1, OrderHolds, CouriersHold, TypeCorrect, PTL

-----------------------------------------------------------------------------
(* No lost reply.  A handler settles its inbound claim once, on one reading *)
(* of the ledger, so that every later step of every other sender must leave *)
(* the obligation as exact as that reading found it.                        *)

\* What a step owes to a settled claim.
Remembered ==
  \A o \in Obligations :
    /\ forgotten[o] => forgotten'[o]
    /\ closed'[o] => closed[o] \/ ExactObligation(o)
    /\ ExactObligation(o) => forgotten'[o] \/ ExactObligation(o)'

\* A step that keeps the plans, and makes no row pending or absent.
LEMMA RememberedRows ==
  ASSUME \A o \in Obligations :
           /\ forgotten[o] => forgotten'[o]
           /\ closed'[o] = closed[o]
           /\ \/ forgotten'[o]
              \/ /\ Planned(o) => Planned(o)'
                 /\ ExactObligation(o) =>
                      \/ row'[o].state = row[o].state
                      \/ row'[o].state \notin {"none", "pending"}
  PROVE  Remembered
BY DEF Remembered, ExactObligation

\* The unit loop leaves every exact obligation exact.
LEMMA WorkRemembers ==
  ASSUME TypeOK, NEW s \in Senders, Work(s)
  PROVE  Remembered
<1> DEFINE o == job[s]
           v == pos[s]
<1>1. /\ o \in Obligations /\ v \in Units
      /\ unit \in [Obligations -> [Units -> UnitStates]]
      /\ row \in [Obligations -> Row]
  BY DEF TypeOK, StoreTypes, SenderTypes
<1>2. forgotten' = forgotten /\ closed' = closed
  BY DEF Work, ChannelSend, RunUnit, Plan, Quarantine, Retire, Look, Activate,
         ClaimUnit, Send, SettleDelivered, SettleFailed, SettleRefused, Finish, Fail,
         ghostVars
<1>3. \A p \in Obligations, u \in Units : unit[p][u] # "none" => unit'[p][u] # "none"
  <2>1. CASE unit' = unit
    BY <2>1
  <2>2. ASSUME NEW st \in UnitStates \ {"none"}, unit' = [unit EXCEPT ![o][v] = st]
        PROVE  \A p \in Obligations, u \in Units : unit[p][u] # "none" => unit'[p][u] # "none"
    BY <1>1, <2>2
  <2>3. CASE unit' = [unit EXCEPT ![o] = [u \in Units |-> "pending"]]
    BY <1>1, <2>3
  <2> QED BY <2>1, <2>2, <2>3
        DEF Work, ChannelSend, RunUnit, Plan, Quarantine, Retire, Look, Activate, ClaimUnit,
            Send, SettleDelivered, SettleFailed, SettleRefused, Finish, Fail, storeVars
<1>4. \A p \in Obligations :
        row'[p].state = row[p].state \/ row'[p].state \notin {"none", "pending"}
  <2>1. CASE row' = row
    BY <2>1
  <2>2. ASSUME NEW st \in {"attempting", "failed", "delivered", "abandoned"}, NEW b \in BOOLEAN,
               NEW d \in BOOLEAN, row' = [row EXCEPT ![o] = Stamped(@, st, b, d)]
        PROVE  \A p \in Obligations :
                 row'[p].state = row[p].state \/ row'[p].state \notin {"none", "pending"}
    BY <1>1, <2>2 DEF Stamped
  <2>3. CASE SettleFailed(s)
    BY <1>1, <2>3 DEF SettleFailed
  <2>4. CASE Fail(s)
    BY <1>1, <2>4 DEF Fail, Stamped
  <2> QED BY <2>1, <2>2, <2>3, <2>4
        DEF Work, ChannelSend, RunUnit, Plan, Quarantine, Retire, Look, Activate, ClaimUnit,
            Send, SettleDelivered, SettleRefused, Finish, Written, storeVars
<1> QED BY <1>2, <1>3, <1>4, RememberedRows DEF Planned

\* The handler settles a claim only where it has found the exact obligation.
LEMMA HandlerRemembers ==
  ASSUME TypeOK, NEW f \in Finals,
         \/ RecordRow(f) \/ RecordRefused(f) \/ Discard(f) \/ Check(f)
         \/ \E o \in Obligations : Submit(f, o)
  PROVE  Remembered
<1>1. job[f] \in Obligations /\ row \in [Obligations -> Row]
      /\ closed \in [Obligations -> BOOLEAN]
  BY DEF TypeOK, StoreTypes, SenderTypes, Senders
<1>2. CASE RecordRow(f)
  <2> DEFINE rows == IF row[job[f]].state = "none" THEN [row EXCEPT ![job[f]] = NewRow]
                     ELSE row
  <2>1. Prune(rows)
    BY <1>2, Zenon DEF RecordRow
  <2>2. \A p \in Obligations : row[p].state # "none" => rows[p] = row[p]
    BY <1>1
  <2>3. ASSUME NEW p \in Obligations
        PROVE  /\ forgotten[p] => forgotten'[p]
               /\ \/ forgotten'[p]
                  \/ /\ unit'[p] = unit[p]
                     /\ row[p].state # "none" =>
                          row'[p] = row[p] \/ row'[p].state = "abandoned"
    <3>1. \/ /\ forgotten'[p] /\ row'[p] = Absent /\ unit'[p] = NoPlan
          \/ /\ unit'[p] = unit[p] /\ (forgotten'[p] <=> forgotten[p])
             /\ row'[p] = rows[p] \/ row'[p] = Written(rows[p], "abandoned", FALSE)
      BY <2>1, PruneKeeps
    <3> QED BY <2>2, <3>1 DEF Written, Stamped
  <2>4. closed' = closed
    BY <1>2 DEF RecordRow
  <2> QED BY <2>3, <2>4, RememberedRows DEF Planned, ExactObligation
<1>3. CASE Discard(f)
  <2>1. ASSUME NEW p \in Obligations, ExactObligation(p) PROVE row'[p] = row[p]
    BY <1>1, <1>3, <2>1 DEF Discard, Discardable, ExactObligation
  <2> QED BY <1>3, <2>1, RememberedRows DEF Discard, ghostVars, Planned
<1>4. CASE Check(f)
  BY <1>1, <1>4 DEF Check, Remembered, ExactObligation, Planned, storeVars, ghostVars
<1>5. CASE RecordRefused(f) \/ \E o \in Obligations : Submit(f, o)
  BY <1>5, RememberedRows DEF RecordRefused, Submit, storeVars, ghostVars, Planned
<1> QED BY <1>2, <1>3, <1>4, <1>5

\* A claim makes a row pending again only if nothing of it was ever planned.
LEMMA ClaimRemembers ==
  ASSUME TypeOK, Backed, NEW s \in Sweeps, NEW cand \in SUBSET Obligations,
         NEW claims \in SUBSET Obligations, ClaimRows(s, cand, claims),
         \A o \in cand : Claimable(o), closed' = closed
  PROVE  Remembered
<1>1. PICK drop \in SUBSET (cand \ {o \in cand : ~Exhausted(o)}) :
        Prune([o \in Obligations |->
                 IF o \in claims THEN ClaimedRow(o)
                 ELSE IF o \in drop
                      THEN Stamped(row[o], "abandoned", row[o].safe, row[o].deferred)
                      ELSE row[o]])
  BY Zenon DEF ClaimRows
<1> DEFINE rows == [o \in Obligations |->
                 IF o \in claims THEN ClaimedRow(o)
                 ELSE IF o \in drop
                      THEN Stamped(row[o], "abandoned", row[o].safe, row[o].deferred)
                      ELSE row[o]]
<1>2. ASSUME NEW p \in Obligations, ExactObligation(p)
      PROVE  rows[p].state = row[p].state \/ rows[p].state \notin {"none", "pending"}
  <2>1. CASE p \in claims
    <3>1. Claimable(p)
      BY <2>1 DEF ClaimRows
    <3>2. row[p].state = "pending" \/ Planned(p)
      BY <3>1 DEF Claimable, Backed, Consistent, Planned
    <3>3. rows[p].state = ClaimedState(p)
      BY <2>1 DEF ClaimedRow
    <3> QED BY <3>2, <3>3 DEF ClaimedState
  <2>2. CASE p \notin claims
    <3>1. rows[p] = Stamped(row[p], "abandoned", row[p].safe, row[p].deferred) \/ rows[p] = row[p]
      BY <2>2
    <3> QED BY <3>1 DEF Stamped
  <2> QED BY <2>1, <2>2
<1> HIDE DEF rows
<1>3. ASSUME NEW p \in Obligations
      PROVE  /\ forgotten[p] => forgotten'[p]
             /\ \/ forgotten'[p]
                \/ /\ unit'[p] = unit[p]
                   /\ row'[p] = rows[p] \/ row'[p].state = "abandoned"
  <2>1. \/ /\ forgotten'[p] /\ row'[p] = Absent /\ unit'[p] = NoPlan
        \/ /\ unit'[p] = unit[p] /\ (forgotten'[p] <=> forgotten[p])
           /\ row'[p] = rows[p] \/ row'[p] = Written(rows[p], "abandoned", FALSE)
    BY <1>1, PruneKeeps DEF rows
  <2> QED BY <2>1 DEF Written, Stamped
<1> QED BY <1>2, <1>3, RememberedRows DEF Planned

\* A sweep leaves every exact obligation exact.
LEMMA SweepRemembers ==
  ASSUME TypeOK, Backed, NEW s \in Sweeps,
         Wake \/ ClaimOwn \/ ClaimOthers(s) \/ NextRow(s) \/ NoMoreRows(s) \/ Release(s)
  PROVE  Remembered
<1>1. CASE ClaimOwn
  <2>1. PICK claims \in SUBSET Obligations :
          ClaimRows(Live, {o \in Obligations : OwnIdle(o)}, claims)
    BY <1>1, Zenon DEF ClaimOwn
  <2>2. closed' = closed /\ \A o \in {p \in Obligations : OwnIdle(p)} : Claimable(o)
    BY <1>1 DEF ClaimOwn, OwnIdle
  <2> QED BY <2>1, <2>2, ClaimRemembers
<1>2. CASE ClaimOthers(s)
  <2>1. PICK claims \in SUBSET Obligations :
          ClaimRows(s, {o \in Obligations : Foreign(o)}, claims)
    BY <1>2, Zenon DEF ClaimOthers
  <2>2. closed' = closed /\ \A o \in {p \in Obligations : Foreign(p)} : Claimable(o)
    BY <1>2 DEF ClaimOthers, Foreign
  <2> QED BY <2>1, <2>2, ClaimRemembers
<1>3. CASE Wake \/ NextRow(s) \/ NoMoreRows(s) \/ Release(s)
  BY <1>3, RememberedRows DEF Wake, NextRow, NoMoreRows, Release, storeVars, ghostVars, Planned
<1> QED BY <1>1, <1>2, <1>3

\* Neither faults nor time touch the state of a row or its plan.
LEMMA EnvironmentKeeps ==
  ASSUME TypeOK, Fault \/ \E o \in Obligations : Age(o) \/ Expire(o) \/ Due(o)
  PROVE  /\ unit' = unit /\ forgotten' = forgotten /\ closed' = closed
         /\ accepted' = accepted
         /\ \A p \in Obligations : row'[p].state = row[p].state /\ row'[p].safe = row[p].safe
<1>1. /\ unit' = unit /\ forgotten' = forgotten /\ closed' = closed
      /\ accepted' = accepted
  BY DEF Fault, Shutdown, Restart, ClaimOwnFails, ClaimOthersFails, StoreFault,
         PlanSkipped, Age, Expire, Due, storeVars, ghostVars
<1>2. ASSUME NEW p \in Obligations
      PROVE  row'[p].state = row[p].state /\ row'[p].safe = row[p].safe
  <2>1. row \in [Obligations -> Row]
    BY DEF TypeOK, StoreTypes
  <2>2. CASE row' = row
    BY <2>2
  <2>3. CASE Restart
    BY <2>1, <2>3 DEF Restart
  <2>4. ASSUME NEW o \in Obligations, Age(o) \/ Expire(o) \/ Due(o)
        PROVE  row'[p].state = row[p].state /\ row'[p].safe = row[p].safe
    BY <2>1, <2>4 DEF Age, Expire, Due
  <2> QED BY <2>2, <2>3, <2>4
        DEF Fault, Shutdown, ClaimOwnFails, ClaimOthersFails, StoreFault, PlanSkipped, storeVars
<1> QED BY <1>1, <1>2

\* A settled inbound claim never loses its reply: whatever the other senders,
\* the sweeps, _prune, faults and restarts do, the obligation stays in the
\* ledger with a plan, or past it, until retention deletes it.
THEOREM RepliesAreKept == Spec => []NoLostReply
<1>1. Init => NoLostReply
  BY DEF Init, NoLostReply
<1>2. ASSUME NoLostReply, Remembered PROVE NoLostReply'
  BY <1>2 DEF NoLostReply, Remembered, ExactObligation
<1>3. TypeOK /\ Backed /\ NoLostReply /\ [Next]_vars => NoLostReply'
  <2> SUFFICES ASSUME TypeOK, Backed, NoLostReply, [Next]_vars PROVE NoLostReply'
    OBVIOUS
  <2>1. ASSUME NEW f \in Finals, HandlerStep(f) \/ \E o \in Obligations : Submit(f, o)
        PROVE  NoLostReply'
    BY <1>2, <2>1, WorkRemembers, HandlerRemembers DEF HandlerStep, Senders
  <2>2. ASSUME NEW s \in Sweeps, SweepStep(s) PROVE NoLostReply'
    BY <1>2, <2>2, WorkRemembers, SweepRemembers DEF SweepStep, Senders
  <2>3. CASE Wake \/ ClaimOwn
    BY <1>2, <2>3, SweepRemembers DEF Sweeps
  <2>4. CASE Fault \/ \E o \in Obligations : Age(o) \/ Expire(o) \/ Due(o)
    BY <1>2, <2>4, EnvironmentKeeps DEF Remembered, ExactObligation, Planned
  <2>5. CASE UNCHANGED vars
    BY <2>5 DEF vars, NoLostReply, Planned
  <2> QED BY <2>1, <2>2, <2>3, <2>4, <2>5 DEF Next
<1> QED BY <1>1, <1>3, TablesConsistent, PTL DEF Spec

-----------------------------------------------------------------------------
(* Records.  What _prune may delete and abandon, and why nothing else       *)
(* touches a settled row.                                                   *)

\* Only delivered rows, and settled ones past their retention, are deleted;
\* only stale sends are abandoned.
LEMMA PruneSpares ==
  ASSUME NEW rows, Prune(rows)
  PROVE  \A o \in Obligations :
           \/ /\ row'[o] = Absent
              /\ \/ rows[o].state = "delivered"
                 \/ rows[o].state \in Terminal /\ rows[o].age = "expired"
           \/ /\ forgotten'[o] <=> forgotten[o]
              /\ \/ row'[o] = rows[o]
                 \/ /\ row'[o] = Written(rows[o], "abandoned", FALSE)
                    /\ rows[o].state \in {"attempting", "failed"} /\ rows[o].stale
<1> DEFINE overdue == {o \in Obligations : rows[o].state \in {"attempting", "failed"}
                                           /\ rows[o].stale}
           lapsed  == {o \in Obligations : rows[o].state \in Terminal
                                           /\ rows[o].age = "expired"}
           kept    == {o \in Obligations \ lapsed : rows[o].state # "none"}
           proved  == {o \in kept : Evictable(rows[o])}
<1>1. PICK extra \in SUBSET proved :
        /\ row' = [o \in Obligations |->
                     IF o \in lapsed \union extra THEN Absent
                     ELSE IF o \in overdue THEN Written(rows[o], "abandoned", FALSE)
                     ELSE rows[o]]
        /\ forgotten' = [o \in Obligations |-> forgotten[o] \/ o \in lapsed \union extra]
  BY Zenon DEF Prune
<1> SUFFICES ASSUME NEW o \in Obligations
             PROVE  \/ /\ row'[o] = Absent
                       /\ \/ rows[o].state = "delivered"
                          \/ rows[o].state \in Terminal /\ rows[o].age = "expired"
                    \/ /\ forgotten'[o] <=> forgotten[o]
                       /\ \/ row'[o] = rows[o]
                          \/ /\ row'[o] = Written(rows[o], "abandoned", FALSE)
                             /\ rows[o].state \in {"attempting", "failed"} /\ rows[o].stale
  OBVIOUS
<1>2. CASE o \in lapsed \union extra
  <2>1. row'[o] = Absent
    BY <1>1, <1>2, Zenon
  <2>2. o \in lapsed \/ Evictable(rows[o])
    BY <1>2, Zenon
  <2> QED BY <2>1, <2>2 DEF Evictable
<1>3. CASE o \notin lapsed \union extra
  <2>1. forgotten'[o] <=> forgotten[o]
    BY <1>1, <1>3, Zenon
  <2>2. row'[o] = IF o \in overdue THEN Written(rows[o], "abandoned", FALSE) ELSE rows[o]
    BY <1>1, <1>3, Zenon
  <2> QED BY <2>1, <2>2
<1> QED BY <1>2, <1>3

\* What a step owes to the record of an obligation.
Respected(o) ==
  /\ row[o].state \in Terminal => row'[o].state \in {row[o].state, "none"}
  /\ row[o].state = "failed" /\ ~row[o].safe =>
       row'[o].state \in {"failed", "abandoned"} /\ ~row'[o].safe
  /\ forgotten'[o] /\ ~forgotten[o] =>
       \/ row[o].state = "delivered"
       \/ row[o].state = "abandoned" /\ row[o].age = "expired"

\* A transaction that leaves settled rows to _prune respects them.
LEMMA PruneRespects ==
  ASSUME NEW rows, Prune(rows), NEW o \in Obligations,
         \/ rows[o] = row[o]
         \/ /\ row[o].state \notin Terminal
            /\ row[o].state = "failed" => row[o].safe
            /\ rows[o].state # "delivered" /\ rows[o].age = "fresh"
         \/ /\ rows[o].state = "abandoned" /\ rows[o].safe = row[o].safe
            /\ row[o].state \notin Terminal /\ rows[o].age = "fresh"
  PROVE  Respected(o)
<1>1. \/ /\ row'[o] = Absent
         /\ \/ rows[o].state = "delivered"
            \/ rows[o].state \in Terminal /\ rows[o].age = "expired"
      \/ /\ forgotten'[o] <=> forgotten[o]
         /\ \/ row'[o] = rows[o]
            \/ /\ row'[o] = Written(rows[o], "abandoned", FALSE)
               /\ rows[o].state \in {"attempting", "failed"}
  BY PruneSpares
<1> QED BY <1>1 DEF Respected, Absent, Written, Stamped

\* The unit loop leaves settled rows as they are.
LEMMA WorkRespects ==
  ASSUME TypeOK, NEW s \in Senders, Work(s), NEW p \in Obligations
  PROVE  Respected(p)
<1> DEFINE o == job[s]
<1>1. o \in Obligations /\ row \in [Obligations -> Row]
  BY DEF TypeOK, StoreTypes, SenderTypes
<1>2. forgotten' = forgotten
  BY DEF Work, ChannelSend, RunUnit, Plan, Quarantine, Retire, Look, Activate,
         ClaimUnit, Send, SettleDelivered, SettleFailed, SettleRefused, Finish, Fail,
         ghostVars
<1>3. CASE row' = row
  BY <1>2, <1>3 DEF Respected
<1>4. ASSUME NEW r, row' = [row EXCEPT ![o] = r], row[o].state \in Open
      PROVE  Respected(p)
  BY <1>1, <1>2, <1>4 DEF Respected
<1>5. CASE SettleFailed(s)
  <2>1. row' = row \/ row' = [row EXCEPT ![o] = [@ EXCEPT !.deferred = TRUE]]
    BY <1>5 DEF SettleFailed
  <2>2. row[o].state \in Open
    BY <1>5 DEF SettleFailed, Settleable
  <2> QED BY <1>3, <1>4, <2>1, <2>2
<1>6. CASE Fail(s)
  <2>1. row' = row \/ (row[o].state \in Open /\ \E r : row' = [row EXCEPT ![o] = r])
    BY <1>6 DEF Fail
  <2> QED BY <1>3, <1>4, <2>1
<1>7. CASE Quarantine(s) \/ Retire(s) \/ Activate(s) \/ Finish(s)
  <2>1. row' = row \/ (row[o].state \in Open /\ \E r : row' = [row EXCEPT ![o] = r])
    BY <1>7 DEF Quarantine, Retire, Activate, Finish, OwnOpen
  <2> QED BY <1>3, <1>4, <2>1
<1> QED BY <1>3, <1>5, <1>6, <1>7
     DEF Work, ChannelSend, RunUnit, Plan, Look, ClaimUnit, Send, SettleDelivered,
         SettleRefused, storeVars

\* So does the handler, whose new row may have others pruned.
LEMMA HandlerRespects ==
  ASSUME TypeOK, NEW f \in Finals, NEW p \in Obligations,
         \/ RecordRow(f) \/ RecordRefused(f) \/ Discard(f) \/ Check(f)
         \/ \E o \in Obligations : Submit(f, o)
  PROVE  Respected(p)
<1>1. job[f] \in Obligations /\ row \in [Obligations -> Row]
  BY DEF TypeOK, StoreTypes, SenderTypes, Senders
<1>2. CASE RecordRow(f)
  <2> DEFINE rows == IF row[job[f]].state = "none" THEN [row EXCEPT ![job[f]] = NewRow]
                     ELSE row
  <2>1. Prune(rows)
    BY <1>2, Zenon DEF RecordRow
  <2>2. rows[p] = row[p] \/ (row[p].state = "none" /\ rows[p] = NewRow)
    BY <1>1
  <2> HIDE DEF rows
  <2> QED BY <2>1, <2>2, PruneRespects DEF NewRow
<1>3. CASE Discard(f)
  BY <1>1, <1>3 DEF Discard, Discardable, Respected, ghostVars
<1>4. CASE RecordRefused(f) \/ Check(f) \/ \E o \in Obligations : Submit(f, o)
  BY <1>4 DEF RecordRefused, Check, Submit, Respected, storeVars, ghostVars
<1> QED BY <1>2, <1>3, <1>4

\* A claim takes no settled row and no failure with unknown acceptance.
LEMMA ClaimRespects ==
  ASSUME TypeOK, NEW s \in Sweeps, NEW cand \in SUBSET Obligations,
         NEW claims \in SUBSET Obligations, ClaimRows(s, cand, claims),
         \A o \in cand : Claimable(o), NEW p \in Obligations
  PROVE  Respected(p)
<1>1. PICK drop \in SUBSET (cand \ {o \in cand : ~Exhausted(o)}) :
        Prune([o \in Obligations |->
                 IF o \in claims THEN ClaimedRow(o)
                 ELSE IF o \in drop
                      THEN Stamped(row[o], "abandoned", row[o].safe, row[o].deferred)
                      ELSE row[o]])
  BY Zenon DEF ClaimRows
<1> DEFINE rows == [o \in Obligations |->
                 IF o \in claims THEN ClaimedRow(o)
                 ELSE IF o \in drop
                      THEN Stamped(row[o], "abandoned", row[o].safe, row[o].deferred)
                      ELSE row[o]]
<1>2. \/ rows[p] = row[p]
      \/ Claimable(p) /\ rows[p] = ClaimedRow(p)
      \/ Claimable(p) /\ rows[p] = Stamped(row[p], "abandoned", row[p].safe, row[p].deferred)
  BY DEF ClaimRows
<1> HIDE DEF rows
<1> QED BY <1>1, <1>2, PruneRespects DEF rows, Claimable, ClaimedRow, ClaimedState, Stamped

\* So does a sweep, which claims open rows only.
LEMMA SweepRespects ==
  ASSUME TypeOK, NEW s \in Sweeps, NEW p \in Obligations,
         Wake \/ ClaimOwn \/ ClaimOthers(s) \/ NextRow(s) \/ NoMoreRows(s) \/ Release(s)
  PROVE  Respected(p)
<1>1. CASE ClaimOwn
  <2>1. PICK claims \in SUBSET Obligations :
          ClaimRows(Live, {o \in Obligations : OwnIdle(o)}, claims)
    BY <1>1, Zenon DEF ClaimOwn
  <2>2. \A o \in {q \in Obligations : OwnIdle(q)} : Claimable(o)
    BY DEF OwnIdle
  <2> QED BY <2>1, <2>2, ClaimRespects
<1>2. CASE ClaimOthers(s)
  <2>1. PICK claims \in SUBSET Obligations :
          ClaimRows(s, {o \in Obligations : Foreign(o)}, claims)
    BY <1>2, Zenon DEF ClaimOthers
  <2>2. \A o \in {q \in Obligations : Foreign(q)} : Claimable(o)
    BY DEF Foreign
  <2> QED BY <2>1, <2>2, ClaimRespects
<1>3. CASE Wake \/ NextRow(s) \/ NoMoreRows(s) \/ Release(s)
  BY <1>3 DEF Wake, NextRow, NoMoreRows, Release, Respected, storeVars, ghostVars
<1> QED BY <1>1, <1>2, <1>3

\* What was settled stays settled, a failure with unknown acceptance is never
\* sent again, and only proof of delivery or the end of the retention deletes
\* a record, for every number of rows and every order of the senders.
THEOREM SettledIsKept == Spec => SettledForGood /\ EvidenceKept
<1>1. ASSUME TypeOK, [Next]_vars, NEW o \in Obligations PROVE Respected(o)
  <2>1. ASSUME NEW f \in Finals, HandlerStep(f) \/ \E p \in Obligations : Submit(f, p)
        PROVE  Respected(o)
    BY <1>1, <2>1, WorkRespects, HandlerRespects DEF HandlerStep, Senders
  <2>2. ASSUME NEW s \in Sweeps, SweepStep(s) PROVE Respected(o)
    BY <1>1, <2>2, WorkRespects, SweepRespects DEF SweepStep, Senders
  <2>3. CASE Wake \/ ClaimOwn
    BY <1>1, <2>3, SweepRespects DEF Sweeps
  <2>4. CASE Fault \/ \E p \in Obligations : Age(p) \/ Expire(p) \/ Due(p)
    BY <1>1, <2>4, EnvironmentKeeps DEF Respected
  <2>5. CASE UNCHANGED vars
    BY <2>5 DEF vars, Respected
  <2> QED BY <1>1, <2>1, <2>2, <2>3, <2>4, <2>5 DEF Next
<1>2. TypeOK /\ [Next]_vars =>
        [\A o \in Obligations :
           /\ row[o].state \in Terminal => row'[o].state \in {row[o].state, "none"}
           /\ row[o].state = "failed" /\ ~row[o].safe =>
                row'[o].state \in {"failed", "abandoned"} /\ ~row'[o].safe]_vars
  BY <1>1 DEF Respected
<1>3. TypeOK /\ [Next]_vars =>
        [\A o \in Obligations : forgotten'[o] /\ ~forgotten[o] =>
           \/ row[o].state = "delivered"
           \/ row[o].state = "abandoned" /\ row[o].age = "expired"]_vars
  BY <1>1 DEF Respected
<1>4. Spec => SettledForGood
  BY <1>2, TypeCorrect, PTL DEF Spec, SettledForGood
<1>5. Spec => EvidenceKept
  BY <1>3, TypeCorrect, PTL DEF Spec, EvidenceKept
<1> QED BY <1>4, <1>5

-----------------------------------------------------------------------------
(* Room.  Nothing bounds the number of obligations, so the bound on open    *)
(* work rests on each transaction counting before it commits.               *)

\* The open rows, and the bound on them.
Outstanding == {o \in Obligations : row[o].state \in Unresolved}

Bounded == IsFiniteSet(Outstanding) /\ Cardinality(Outstanding) <= MaxRows

\* A step that opens no row keeps the bound.
LEMMA FewerOpen ==
  ASSUME Bounded, Outstanding' \subseteq Outstanding
  PROVE  Bounded'
<1>1. IsFiniteSet(Outstanding') /\ Cardinality(Outstanding') <= Cardinality(Outstanding)
  BY FS_Subset DEF Bounded
<1>2. Cardinality(Outstanding) \in Nat /\ Cardinality(Outstanding') \in Nat
  BY <1>1, FS_CardinalityType DEF Bounded
<1> QED BY <1>1, <1>2 DEF Bounded

\* A transaction over finitely many open rows ends within the bound, or not
\* at all.
LEMMA PruneBounds ==
  ASSUME NEW rows, Prune(rows),
         IsFiniteSet({o \in Obligations : rows[o].state \in Unresolved})
  PROVE  Bounded'
<1> DEFINE overdue == {o \in Obligations : rows[o].state \in {"attempting", "failed"}
                                           /\ rows[o].stale}
           lapsed  == {o \in Obligations : rows[o].state \in Terminal
                                           /\ rows[o].age = "expired"}
           kept    == {o \in Obligations \ lapsed : rows[o].state # "none"}
           open    == {o \in kept \ overdue : OpenWork(rows[o])}
           all     == {o \in Obligations : rows[o].state \in Unresolved}
<1>1. Cardinality(open) <= MaxRows
  BY Zenon DEF Prune
<1>2. PICK gone \in SUBSET Obligations :
        row' = [o \in Obligations |->
                  IF o \in gone THEN Absent
                  ELSE IF o \in overdue THEN Written(rows[o], "abandoned", FALSE)
                  ELSE rows[o]]
  BY Zenon DEF Prune
<1>3. Outstanding' \subseteq open
  <2> SUFFICES ASSUME NEW o \in Obligations, row'[o].state \in Unresolved
               PROVE  o \in open
    BY DEF Outstanding
  <2>1. o \notin gone
    BY <1>2 DEF Absent
  <2>2. o \notin overdue
    <3> SUFFICES ASSUME o \in overdue PROVE FALSE
      OBVIOUS
    <3>1. row'[o] = Written(rows[o], "abandoned", FALSE)
      BY <1>2, <2>1, Zenon
    <3> QED BY <3>1 DEF Written, Stamped
  <2>3. row'[o] = rows[o]
    BY <1>2, <2>1, <2>2, Zenon
  <2> QED BY <2>2, <2>3 DEF OpenWork
<1>4. open \subseteq all
  BY DEF OpenWork
<1> HIDE DEF open, all
<1>5. IsFiniteSet(open)
  BY <1>4, FS_Subset DEF all
<1>6. IsFiniteSet(Outstanding') /\ Cardinality(Outstanding') <= Cardinality(open)
  BY <1>3, <1>5, FS_Subset
<1>7. Cardinality(open) \in Nat /\ Cardinality(Outstanding') \in Nat
  BY <1>5, <1>6, FS_CardinalityType
<1> QED BY <1>1, <1>6, <1>7 DEF Bounded

\* The unit loop opens no row.
LEMMA WorkBounded ==
  ASSUME TypeOK, Bounded, NEW s \in Senders, Work(s)
  PROVE  Bounded'
<1> DEFINE o == job[s]
<1>1. o \in Obligations /\ row \in [Obligations -> Row]
  BY DEF TypeOK, StoreTypes, SenderTypes
<1>2. CASE row' = row
  BY <1>2, FewerOpen DEF Outstanding
<1>3. ASSUME NEW r, row' = [row EXCEPT ![o] = r], row[o].state \in Open
      PROVE  Bounded'
  <2>1. Outstanding' \subseteq Outstanding
    BY <1>1, <1>3 DEF Outstanding
  <2> QED BY <2>1, FewerOpen
<1>4. row' = row \/ (row[o].state \in Open /\ \E r : row' = [row EXCEPT ![o] = r])
  BY DEF Work, ChannelSend, RunUnit, Plan, Quarantine, Retire, Look, Activate, ClaimUnit,
         Send, SettleDelivered, SettleFailed, SettleRefused, Finish, Fail, Settleable,
         OwnOpen, storeVars
<1> QED BY <1>2, <1>3, <1>4

\* The handler opens one only where the count leaves it room.
LEMMA HandlerBounded ==
  ASSUME TypeOK, Bounded, NEW f \in Finals,
         \/ RecordRow(f) \/ RecordRefused(f) \/ Discard(f) \/ Check(f)
         \/ \E o \in Obligations : Submit(f, o)
  PROVE  Bounded'
<1>1. job[f] \in Obligations /\ row \in [Obligations -> Row]
  BY DEF TypeOK, StoreTypes, SenderTypes, Senders
<1>2. CASE RecordRow(f)
  <2> DEFINE rows == IF row[job[f]].state = "none" THEN [row EXCEPT ![job[f]] = NewRow]
                     ELSE row
             all  == {o \in Obligations : rows[o].state \in Unresolved}
  <2>1. Prune(rows)
    BY <1>2, Zenon DEF RecordRow
  <2>2. all \subseteq Outstanding \union {job[f]}
    BY <1>1 DEF Outstanding
  <2>3. IsFiniteSet(Outstanding \union {job[f]})
    BY FS_AddElement DEF Bounded
  <2> HIDE DEF rows
  <2>4. IsFiniteSet(all)
    BY <2>2, <2>3, FS_Subset
  <2> QED BY <2>1, <2>4, PruneBounds
<1>3. CASE Discard(f)
  <2>1. Outstanding' \subseteq Outstanding
    BY <1>1, <1>3 DEF Discard, Discardable, Absent, Outstanding
  <2> QED BY <2>1, FewerOpen
<1>4. CASE RecordRefused(f) \/ Check(f) \/ \E o \in Obligations : Submit(f, o)
  BY <1>4, FewerOpen DEF RecordRefused, Check, Submit, Outstanding, storeVars
<1> QED BY <1>2, <1>3, <1>4

\* A sweep opens no row that was settled.
LEMMA SweepBounded ==
  ASSUME TypeOK, Bounded, NEW s \in Sweeps,
         Wake \/ ClaimOwn \/ ClaimOthers(s) \/ NextRow(s) \/ NoMoreRows(s) \/ Release(s)
  PROVE  Bounded'
<1>1. ASSUME NEW t \in Sweeps, NEW cand \in SUBSET Obligations, NEW claims \in SUBSET Obligations,
             ClaimRows(t, cand, claims), \A o \in cand : Claimable(o)
      PROVE  Bounded'
  <2>1. PICK drop \in SUBSET (cand \ {o \in cand : ~Exhausted(o)}) :
          Prune([o \in Obligations |->
                   IF o \in claims THEN ClaimedRow(o)
                   ELSE IF o \in drop
                        THEN Stamped(row[o], "abandoned", row[o].safe, row[o].deferred)
                        ELSE row[o]])
    BY <1>1, Zenon DEF ClaimRows
  <2> DEFINE rows == [o \in Obligations |->
                   IF o \in claims THEN ClaimedRow(o)
                   ELSE IF o \in drop
                        THEN Stamped(row[o], "abandoned", row[o].safe, row[o].deferred)
                        ELSE row[o]]
             all  == {o \in Obligations : rows[o].state \in Unresolved}
  <2>2. ASSUME NEW o \in Obligations, rows[o].state \in Unresolved
        PROVE  row[o].state \in Unresolved
    <3>1. o \in claims => Claimable(o)
      BY <1>1 DEF ClaimRows
    <3>2. CASE o \in claims
      BY <3>1, <3>2 DEF Claimable
    <3>3. CASE o \notin claims
      BY <2>2, <3>3 DEF Stamped
    <3> QED BY <3>2, <3>3
  <2>3. all \subseteq Outstanding
    BY <2>2 DEF Outstanding
  <2> HIDE DEF rows
  <2>4. IsFiniteSet(all)
    BY <2>3, FS_Subset DEF Bounded
  <2> QED BY <2>1, <2>4, PruneBounds DEF rows
<1>2. CASE ClaimOwn
  <2>1. PICK claims \in SUBSET Obligations :
          ClaimRows(Live, {o \in Obligations : OwnIdle(o)}, claims)
    BY <1>2, Zenon DEF ClaimOwn
  <2>2. \A o \in {q \in Obligations : OwnIdle(q)} : Claimable(o)
    BY DEF OwnIdle
  <2> QED BY <1>1, <2>1, <2>2
<1>3. CASE ClaimOthers(s)
  <2>1. PICK claims \in SUBSET Obligations :
          ClaimRows(s, {o \in Obligations : Foreign(o)}, claims)
    BY <1>3, Zenon DEF ClaimOthers
  <2>2. \A o \in {q \in Obligations : Foreign(q)} : Claimable(o)
    BY DEF Foreign
  <2> QED BY <1>1, <2>1, <2>2
<1>4. CASE Wake \/ NextRow(s) \/ NoMoreRows(s) \/ Release(s)
  BY <1>4, FewerOpen DEF Wake, NextRow, NoMoreRows, Release, Outstanding, storeVars
<1> QED BY <1>2, <1>3, <1>4

\* The open work never exceeds MAX_ROWS, however many obligations there are:
\* every transaction that adds or re-opens work counts before it commits.
THEOREM RoomIsKept == Spec => []OpenBounded
<1>1. Init => Bounded
  <2> SUFFICES ASSUME Init PROVE Bounded
    OBVIOUS
  <2>1. Outstanding = {}
    BY DEF Init, Absent, Outstanding
  <2> QED BY <2>1, FS_EmptySet DEF Bounded
<1>2. TypeOK /\ Bounded /\ [Next]_vars => Bounded'
  <2> SUFFICES ASSUME TypeOK, Bounded, [Next]_vars PROVE Bounded'
    OBVIOUS
  <2>1. ASSUME NEW f \in Finals, HandlerStep(f) \/ \E o \in Obligations : Submit(f, o)
        PROVE  Bounded'
    BY <2>1, WorkBounded, HandlerBounded DEF HandlerStep, Senders
  <2>2. ASSUME NEW s \in Sweeps, SweepStep(s) PROVE Bounded'
    BY <2>2, WorkBounded, SweepBounded DEF SweepStep, Senders
  <2>3. CASE Wake \/ ClaimOwn
    BY <2>3, SweepBounded DEF Sweeps
  <2>4. CASE Fault \/ \E o \in Obligations : Age(o) \/ Expire(o) \/ Due(o)
    BY <2>4, EnvironmentKeeps, FewerOpen DEF Outstanding
  <2>5. CASE UNCHANGED vars
    BY <2>5, FewerOpen DEF vars, Outstanding
  <2> QED BY <2>1, <2>2, <2>3, <2>4, <2>5 DEF Next
<1>3. Bounded => OpenBounded
  BY DEF Bounded, OpenBounded, Outstanding
<1> QED BY <1>1, <1>2, <1>3, TypeCorrect, PTL DEF Spec

-----------------------------------------------------------------------------
(* Recovery claims.  A sweep that has claimed a row has it before it until  *)
(* it gives the claim back; only a failing claim transaction breaks this.   *)

\* A sender has an obligation in hand, or in the batch it has claimed.
Holds(s, o) ==
  o \in batch[s] \/ (job[s] = o /\ pc[s] \notin {"idle", "claimOwn", "claimOthers", "next"})

\* Only a handler asks whether its inbound claim may be settled.
NoneChecks == \A s \in Sweeps : pc[s] # "check"

\* No claim loses its sweep by this step.
StaysHeld(o) ==
  phase' = "up" /\ o \in active' /\ (\A s \in Sweeps : ~Holds(s, o)') =>
    o \in active /\ \A s \in Sweeps : ~Holds(s, o)

Keeps == NoneChecks' /\ \A o \in Obligations : StaysHeld(o)

\* A step of one sender that stays with its obligation.
LEMMA StillHeld ==
  ASSUME SenderTypes, NoneChecks, NEW s \in Senders, UNCHANGED <<active, phase, job, batch>>,
         \A t \in Senders \ {s} : pc'[t] = pc[t],
         s \in Sweeps => pc'[s] \notin {"idle", "claimOwn", "claimOthers", "next", "check"}
  PROVE  Keeps
BY DEF Keeps, NoneChecks, StaysHeld, Holds, Senders

\* A sender in the unit loop stays with its row.
LEMMA WorkHolds ==
  ASSUME TypeOK, NoneChecks, NEW s \in Senders, Work(s)
  PROVE  Keeps
<1> USE DEF SenderTypes, Senders
<1>1. SenderTypes /\ UNCHANGED <<active, phase>>
  BY DEF TypeOK, Work, ChannelSend, RunUnit, Plan, Quarantine, Retire, Look, Activate,
         ClaimUnit, Send, SettleDelivered, SettleFailed, SettleRefused, Finish, Fail
<1>2. s \in Sweeps => After(s) = "release"
  BY DEF After
<1>3. \/ Leave(s) \/ Advance(s)
      \/ \E label \in {"look", "claim", "activate", "send"} : Goto(s, label)
      \/ Clear(s, IF s \in Finals THEN "discard" ELSE "release")
      \/ /\ \E label \in {"claim", "settle", "plan", "fail"} : pc' = [pc EXCEPT ![s] = label]
         /\ UNCHANGED <<job, batch>>
  BY DEF Work, ChannelSend, RunUnit, Plan, Quarantine, Retire, Look, Activate, ClaimUnit,
         Send, SettleDelivered, SettleFailed, SettleRefused, Finish, Fail
<1>4. /\ UNCHANGED <<job, batch>>
      /\ \A t \in Senders \ {s} : pc'[t] = pc[t]
      /\ s \in Sweeps => pc'[s] \notin {"idle", "claimOwn", "claimOthers", "next", "check"}
  <2>1. CASE Leave(s)
    BY <1>1, <1>2, <2>1 DEF Leave, Clear
  <2>2. CASE Advance(s)
    BY <1>1, <2>2 DEF Advance
  <2>3. CASE \E label \in {"look", "claim", "activate", "send"} : Goto(s, label)
    BY <1>1, <2>3 DEF Goto
  <2>4. CASE Clear(s, IF s \in Finals THEN "discard" ELSE "release")
    BY <1>1, <2>4 DEF Clear
  <2>5. CASE /\ \E label \in {"claim", "settle", "plan", "fail"} : pc' = [pc EXCEPT ![s] = label]
             /\ UNCHANGED <<job, batch>>
    BY <1>1, <2>5
  <2> QED BY <1>3, <2>1, <2>2, <2>3, <2>4, <2>5
<1> QED BY <1>1, <1>4, StillHeld

\* The handler takes no claim and none from a sweep.
LEMMA HandlerHolds ==
  ASSUME TypeOK, NoneChecks, NEW f \in Finals,
         \/ RecordRow(f) \/ RecordRefused(f) \/ Discard(f) \/ Check(f)
         \/ \E o \in Obligations : Submit(f, o)
  PROVE  Keeps
<1>1. SenderTypes /\ f \in Senders /\ f \notin Sweeps
  BY DEF TypeOK, Senders
<1>2. CASE RecordRow(f)
  BY <1>1, <1>2, StillHeld DEF RecordRow, Goto, SenderTypes
<1>3. CASE RecordRefused(f)
  BY <1>1, <1>3, StillHeld DEF RecordRefused, Goto, SenderTypes
<1>4. CASE Discard(f)
  BY <1>1, <1>4, StillHeld DEF Discard, Goto, SenderTypes
<1>5. CASE Check(f)
  BY <1>1, <1>5, StillHeld DEF Check, Goto, SenderTypes
<1>6. CASE \E o \in Obligations : Submit(f, o)
  BY <1>1, <1>6 DEF Submit, SenderTypes, Keeps, NoneChecks, StaysHeld, Holds, Senders
<1> QED BY <1>2, <1>3, <1>4, <1>5, <1>6

\* A sweep has each row it claims until it releases the claim.
LEMMA SweepHolds ==
  ASSUME TypeOK, NoneChecks, NEW s \in Sweeps,
         Wake \/ ClaimOwn \/ ClaimOthers(s) \/ NextRow(s) \/ NoMoreRows(s) \/ Release(s)
  PROVE  Keeps
<1>1. SenderTypes /\ s \in Senders /\ Live \in Senders /\ Live \in Sweeps
  BY DEF TypeOK, Senders
<1> HIDE DEF Sweeps
\* what a claim adds to active it also puts before the sweep
<1>2. ASSUME NEW t \in Sweeps, NEW cand, NEW claims, ClaimRows(t, cand, claims),
             pc[t] \in {"claimOwn", "claimOthers"}, UNCHANGED <<job, phase>>,
             pc' = [pc EXCEPT ![t] = "claimOthers"] \/ pc' = [pc EXCEPT ![t] = "next"]
      PROVE  Keeps
  <2>1. /\ batch' = [batch EXCEPT ![t] = @ \union claims]
        /\ active' = active \union {o \in claims : ClaimedState(o) = "pending"}
    BY <1>2, Zenon DEF ClaimRows
  <2>2. t \in Senders
    BY DEF Senders
  <2> QED BY <1>1, <1>2, <2>1, <2>2 DEF Keeps, NoneChecks, StaysHeld, Holds, SenderTypes, Senders
<1>3. CASE Wake
  BY <1>1, <1>3 DEF Wake, Goto, Keeps, NoneChecks, StaysHeld, Holds, SenderTypes, Senders
<1>4. CASE ClaimOwn
  <2>1. \E claims : ClaimRows(Live, {o \in Obligations : OwnIdle(o)}, claims)
    BY <1>4, Zenon DEF ClaimOwn
  <2>2. /\ pc[Live] = "claimOwn" /\ pc' = [pc EXCEPT ![Live] = "claimOthers"]
        /\ UNCHANGED <<job, phase>>
    BY <1>4 DEF ClaimOwn
  <2> QED BY <1>1, <1>2, <2>1, <2>2
<1>5. CASE ClaimOthers(s)
  <2>1. \E claims : ClaimRows(s, {o \in Obligations : Foreign(o)}, claims)
    BY <1>5, Zenon DEF ClaimOthers
  <2>2. /\ pc[s] = "claimOthers" /\ pc' = [pc EXCEPT ![s] = "next"]
        /\ UNCHANGED <<job, phase>>
    BY <1>5 DEF ClaimOthers
  <2> QED BY <1>2, <2>1, <2>2
<1>6. CASE NextRow(s)
  <2>1. PICK o \in batch[s] :
          /\ job' = [job EXCEPT ![s] = o]
          /\ batch' = [batch EXCEPT ![s] = @ \ {o}]
          /\ pc' = [pc EXCEPT ![s] = IF Recognised(o) THEN "retire" ELSE "plan"]
    BY <1>6, Zenon DEF NextRow
  <2>2. pc[s] = "next" /\ UNCHANGED <<active, phase>>
    BY <1>6 DEF NextRow
  <2>3. pc'[s] \in {"retire", "plan"} /\ job'[s] = o /\ batch'[s] = batch[s] \ {o}
    BY <1>1, <2>1 DEF SenderTypes
  <2>4. \A t \in Sweeps \ {s} : pc'[t] = pc[t] /\ job'[t] = job[t] /\ batch'[t] = batch[t]
    BY <1>1, <2>1 DEF SenderTypes, Senders
  <2> QED BY <2>2, <2>3, <2>4 DEF Keeps, NoneChecks, StaysHeld, Holds
<1>7. CASE NoMoreRows(s)
  BY <1>1, <1>7 DEF NoMoreRows, Goto, Keeps, NoneChecks, StaysHeld, Holds, SenderTypes, Senders
<1>8. CASE Release(s)
  BY <1>1, <1>8 DEF Release, Goto, Keeps, NoneChecks, StaysHeld, Holds, SenderTypes, Senders
<1> QED BY <1>3, <1>4, <1>5, <1>6, <1>7, <1>8

\* Where no claim transaction fails behind its commit, no fault takes one away.
LEMMA EnvironmentHolds ==
  ASSUME TypeOK, NoneChecks, ~ClaimOwnFails, ~ClaimOthersFails,
         Fault \/ \E o \in Obligations : Age(o) \/ Expire(o) \/ Due(o)
  PROVE  Keeps
<1>1. SenderTypes
  BY DEF TypeOK
<1>2. CASE Shutdown
  BY <1>1, <1>2 DEF Shutdown, Keeps, NoneChecks, StaysHeld, SenderTypes, Senders
<1>3. CASE Restart
  BY <1>1, <1>3 DEF Restart, Keeps, NoneChecks, StaysHeld, SenderTypes, Senders
<1>4. ASSUME NEW s \in Senders, StoreFault(s) PROVE Keeps
  <2>1. PICK label \in {"discard", "idle", After(s)} :
          /\ Clear(s, label)
          /\ label = "idle" => pc[s] = "check" \/ After(s) = "idle"
    BY <1>4, Zenon DEF StoreFault
  <2>2. s \in Sweeps => label \in {"discard", "release"}
    BY <2>1 DEF NoneChecks, After
  <2>3. UNCHANGED <<active, phase, job, batch>> /\ pc' = [pc EXCEPT ![s] = label]
    BY <1>4, <2>1 DEF StoreFault, Clear
  <2> QED BY <1>1, <2>2, <2>3, StillHeld DEF SenderTypes
<1>5. ASSUME NEW s \in Senders, PlanSkipped(s) PROVE Keeps
  <2>1. PICK label \in {"quarantine", After(s)} : Goto(s, label) \/ Clear(s, label)
    BY <1>5, Zenon DEF PlanSkipped, Leave
  <2>2. s \in Sweeps => label \in {"quarantine", "release"}
    BY <2>1 DEF After
  <2>3. UNCHANGED <<active, phase, job, batch>> /\ pc' = [pc EXCEPT ![s] = label]
    BY <1>5, <2>1 DEF PlanSkipped, Goto, Clear
  <2> QED BY <1>1, <2>2, <2>3, StillHeld DEF SenderTypes
<1>6. CASE \E o \in Obligations : Age(o) \/ Expire(o) \/ Due(o)
  BY <1>6 DEF Age, Expire, Due, senderVars, Keeps, NoneChecks, StaysHeld, Holds
<1> QED BY <1>2, <1>3, <1>4, <1>5, <1>6 DEF Fault

\* Every step but a failing claim transaction keeps the held claims.
LEMMA StepHolds ==
  ASSUME TypeOK, NoneChecks, [Next]_vars, ~ClaimOwnFails, ~ClaimOthersFails
  PROVE  Keeps
<1>1. ASSUME NEW f \in Finals, HandlerStep(f) \/ \E o \in Obligations : Submit(f, o)
      PROVE  Keeps
  BY <1>1, WorkHolds, HandlerHolds DEF HandlerStep, Senders
<1>2. ASSUME NEW s \in Sweeps, SweepStep(s) PROVE Keeps
  BY <1>2, WorkHolds, SweepHolds DEF SweepStep, Senders
<1>3. CASE Wake \/ ClaimOwn
  BY <1>3, SweepHolds DEF Sweeps
<1>4. CASE Fault \/ \E o \in Obligations : Age(o) \/ Expire(o) \/ Due(o)
  BY <1>4, EnvironmentHolds
<1>5. CASE UNCHANGED vars
  BY <1>5 DEF vars, Keeps, NoneChecks, StaysHeld, Holds
<1> QED BY <1>1, <1>2, <1>3, <1>4, <1>5 DEF Next

\* A claim transaction that fails leaves the sweep in its loop.
LEMMA FailureChecksNothing ==
  ASSUME TypeOK, NoneChecks, ClaimOwnFails \/ ClaimOthersFails
  PROVE  NoneChecks'
BY DEF TypeOK, SenderTypes, NoneChecks, ClaimOwnFails, ClaimOthersFails, Goto, Senders, Sweeps

\* A claim of the running service loses its sweep only in a step of a claim
\* transaction that fails: every other end of a sweep's work, good or bad,
\* gives the claim back.
THEOREM ClaimsAreKept == Spec => ClaimsKept
<1>1. Init => NoneChecks
  BY DEF Init, NoneChecks, Senders
<1>2. TypeOK /\ NoneChecks /\ [Next]_vars => NoneChecks'
  BY StepHolds, FailureChecksNothing DEF Keeps
<1>3. ASSUME TypeOK, NoneChecks, [Next]_vars,
             NEW o \in Obligations, phase' = "up", Stranded(o)'
      PROVE  Stranded(o) \/ ClaimOwnFails \/ ClaimOthersFails
  <2> SUFFICES ASSUME ~ClaimOwnFails, ~ClaimOthersFails PROVE Stranded(o)
    OBVIOUS
  <2>1. o \in active' /\ \A s \in Sweeps : ~Holds(s, o)'
    BY <1>3 DEF Stranded, Holds
  <2>2. StaysHeld(o)
    BY <1>3, StepHolds DEF Keeps
  <2>3. o \in active /\ \A s \in Sweeps : ~Holds(s, o)
    BY <1>3, <2>1, <2>2 DEF StaysHeld
  <2> QED BY <2>3 DEF Stranded, Holds
<1>4. TypeOK /\ NoneChecks /\ [Next]_vars =>
        [\A o \in Obligations :
           phase' = "up" /\ Stranded(o)' =>
             Stranded(o) \/ ClaimOwnFails \/ ClaimOthersFails]_vars
  BY <1>3
<1> QED BY <1>1, <1>2, <1>4, TypeCorrect, PTL DEF Spec, ClaimsKept

-----------------------------------------------------------------------------
(* The promise.  Each step of the ledger is, for every reply whose record   *)
(* is not erased, one step of ReplyDelivery or none.                        *)

\* What the ledger declares of a reply, in the words of the promise.
Declared(o) == row[o].state = "delivered"

\* A sender in no platform call, or the end of one, changes nothing the chat
\* may observe; whoever leaves a call open has lost its answer.
Quiet(o) ==
  /\ accepted'[o] = accepted[o]
  /\ Declared(o)' = Declared(o)
  /\ \A u \in Units :
       /\ unit'[o][u] = "attempting" <=> unit[o][u] = "attempting"
       /\ unit'[o][u] = "unsafe" <=> unit[o][u] = "unsafe"
       /\ \A s \in Senders : InFlight(s, o, u)' => InFlight(s, o, u)

\* For the promise a quiet step at most loses the answer of the call.
LEMMA QuietStep ==
  ASSUME NEW o \in Obligations, Quiet(o)
  PROVE  Promise!Step(o)
<1> DEFINE busy   == {u \in Units : unit[o][u] = "attempting"}
           open   == {u \in busy : \A s \in Senders : ~InFlight(s, o, u)}
           unsafe == {u \in Units : unit[o][u] = "unsafe"}
<1>1. busy' = busy /\ unsafe' = unsafe
  BY DEF Quiet
<1>2. open \subseteq open'
  BY DEF Quiet
<1>3. (\E u \in busy : accepted[o][u] > 0)' <=> (\E u \in busy : accepted[o][u] > 0)
  BY <1>1 DEF Quiet
<1>4. /\ CallOf(o) = IF open \union unsafe # {} THEN "lost"
                     ELSE IF \E u \in busy : accepted[o][u] > 0 THEN "arrived"
                     ELSE IF busy # {} THEN "calling" ELSE "idle"
      /\ CallOf(o)' = IF open' \union unsafe' # {} THEN "lost"
                      ELSE IF (\E u \in busy : accepted[o][u] > 0)' THEN "arrived"
                      ELSE IF busy' # {} THEN "calling" ELSE "idle"
  BY DEF CallOf
<1>5. open' # {} => busy # {}
  BY <1>1
<1> HIDE DEF busy, open, unsafe
<1>6. CallOf(o)' = CallOf(o) \/ (CallOf(o) \in {"calling", "arrived"} /\ CallOf(o)' = "lost")
  BY <1>1, <1>2, <1>3, <1>4, <1>5
<1> QED BY <1>6 DEF Quiet, Declared, Promise!Step, Promise!Stays, Promise!Lose

\* The unit a sender has reached is the only one that may be under way.
LEMMA Front ==
  ASSUME TypeOK, Courier, Ordered, NEW s \in Senders, ~forgotten[job[s]],
         unit[job[s]][pos[s]] # "delivered"
  PROVE  /\ \A u \in Units : u < pos[s] =>
              unit[job[s]][u] = "delivered" /\ accepted[job[s]][u] = 1
         /\ \A u \in Units : u > pos[s] =>
              unit[job[s]][u] \in {"none", "pending"} /\ accepted[job[s]][u] = 0
<1>1. job[s] \in Obligations /\ pos[s] \in Units
  BY DEF TypeOK, SenderTypes
<1>2. ASSUME NEW u \in Units, u < pos[s]
      PROVE  unit[job[s]][u] = "delivered" /\ accepted[job[s]][u] = 1
  BY <1>1, <1>2 DEF Ordered, Passed, Courier, CourierAt
<1>3. ASSUME NEW u \in Units, u > pos[s]
      PROVE  unit[job[s]][u] \in {"none", "pending"} /\ accepted[job[s]][u] = 0
  <2>1. unit[job[s]][u] \in UnitStates
    BY <1>1 DEF TypeOK, StoreTypes
  <2>2. unit[job[s]][u] \notin Touched
    BY <1>1, <1>3 DEF Ordered, InPlan
  <2> QED BY <1>1, <2>1, <2>2 DEF Touched, Courier, CourierAt
<1> QED BY <1>2, <1>3

\* What the call of an obligation is, when one unit alone may be under way.
FrontCall(o, v) ==
  (\A u \in Units \ {v} : unit[o][u] \notin {"attempting", "unsafe"}) =>
    /\ unit[o][v] \notin {"attempting", "unsafe"} => CallOf(o) = "idle"
    /\ unit[o][v] = "unsafe" => CallOf(o) = "lost"
    /\ unit[o][v] = "attempting" /\ (\E s \in Senders : InFlight(s, o, v)) =>
         CallOf(o) = IF accepted[o][v] > 0 THEN "arrived" ELSE "calling"
    /\ unit[o][v] = "attempting" /\ (\A s \in Senders : ~InFlight(s, o, v)) =>
         CallOf(o) = "lost"

\* Where no other unit is under way or in doubt, the call of a reply is that of this unit.
LEMMA FrontCalls == \A o \in Obligations, v \in Units : FrontCall(o, v)
<1> SUFFICES ASSUME NEW o \in Obligations, NEW v \in Units,
                    \A u \in Units \ {v} : unit[o][u] \notin {"attempting", "unsafe"}
             PROVE  /\ unit[o][v] \notin {"attempting", "unsafe"} => CallOf(o) = "idle"
                    /\ unit[o][v] = "unsafe" => CallOf(o) = "lost"
                    /\ unit[o][v] = "attempting" /\ (\E s \in Senders : InFlight(s, o, v)) =>
                         CallOf(o) = IF accepted[o][v] > 0 THEN "arrived" ELSE "calling"
                    /\ unit[o][v] = "attempting" /\ (\A s \in Senders : ~InFlight(s, o, v)) =>
                         CallOf(o) = "lost"
  BY DEF FrontCall
<1> DEFINE busy   == {u \in Units : unit[o][u] = "attempting"}
           open   == {u \in busy : \A s \in Senders : ~InFlight(s, o, u)}
           unsafe == {u \in Units : unit[o][u] = "unsafe"}
<1>1. CallOf(o) = IF open \union unsafe # {} THEN "lost"
                  ELSE IF \E u \in busy : accepted[o][u] > 0 THEN "arrived"
                  ELSE IF busy # {} THEN "calling" ELSE "idle"
  BY DEF CallOf
<1>2. CASE unit[o][v] \notin {"attempting", "unsafe"}
  <2>1. busy = {} /\ unsafe = {} /\ open = {}
    BY <1>2
  <2> QED BY <1>1, <1>2, <2>1
<1>3. CASE unit[o][v] = "unsafe"
  <2>1. v \in unsafe
    BY <1>3
  <2> QED BY <1>1, <1>3, <2>1
<1>4. CASE unit[o][v] = "attempting"
  <2>1. busy = {v} /\ unsafe = {}
    BY <1>4
  <2>2. (\E s \in Senders : InFlight(s, o, v)) => open = {}
    BY <2>1
  <2>3. (\A s \in Senders : ~InFlight(s, o, v)) => open = {v}
    BY <2>1
  <2> HIDE DEF busy, open, unsafe
  <2> QED BY <1>1, <1>4, <2>1, <2>2, <2>3
<1> QED BY <1>2, <1>3, <1>4

\* The same behind a step.
LEMMA FrontCallsNext == (\A o \in Obligations, v \in Units : FrontCall(o, v))'
BY FrontCalls, PTL

\* A step of sender s on the unit it has reached, seen from its own reply: no
\* other unit of the reply is under way before or after.
LEMMA OwnStep ==
  ASSUME TypeOK, Courier, Ordered, NEW s \in Senders, ~forgotten[job[s]],
         NEW st \in UnitStates,
         unit' = [unit EXCEPT ![job[s]][pos[s]] = st] \/ (unit' = unit /\ st = unit[job[s]][pos[s]]),
         unit[job[s]][pos[s]] # "delivered"
  PROVE  /\ job[s] \in Obligations /\ pos[s] \in Units
         /\ unit'[job[s]][pos[s]] = st
         /\ \A u \in Units \ {pos[s]} :
              /\ unit[job[s]][u] \notin {"attempting", "unsafe"}
              /\ unit'[job[s]][u] \notin {"attempting", "unsafe"}
         /\ \A p \in Obligations \ {job[s]} : unit'[p] = unit[p]
<1>1. /\ job[s] \in Obligations /\ pos[s] \in Units
      /\ unit \in [Obligations -> [Units -> UnitStates]]
  BY DEF TypeOK, StoreTypes, SenderTypes
<1>2. unit'[job[s]][pos[s]] = st /\ \A p \in Obligations \ {job[s]} : unit'[p] = unit[p]
  BY <1>1
<1>3. ASSUME NEW u \in Units \ {pos[s]}
      PROVE  /\ unit[job[s]][u] \notin {"attempting", "unsafe"}
             /\ unit'[job[s]][u] \notin {"attempting", "unsafe"}
  <2>1. u < pos[s] \/ u > pos[s]
    BY <1>1
  <2>2. unit[job[s]][u] \in {"delivered", "none", "pending"}
    BY <2>1, Front
  <2>3. unit'[job[s]][u] = unit[job[s]][u]
    BY <1>1
  <2> QED BY <2>2, <2>3
<1> QED BY <1>1, <1>2, <1>3

\* Work on one reply, for each reply that is not forgotten.
LEMMA WorkPromise ==
  ASSUME TypeOK, Backed, Courier, Ordered, NEW s \in Senders, Work(s),
         NEW p \in Obligations, ~forgotten'[p]
  PROVE  Promise!Step(p)
<1> DEFINE o == job[s]
           v == pos[s]
           Others == \A t \in Senders \ {s} : /\ pc'[t] = pc[t] /\ job'[t] = job[t]
                                              /\ pos'[t] = pos[t]
<1>1. /\ SenderTypes /\ o \in Obligations /\ v \in Units
      /\ unit \in [Obligations -> [Units -> UnitStates]]
      /\ accepted \in [Obligations -> [Units -> 0..2]]
      /\ row \in [Obligations -> Row]
      /\ forgotten' = forgotten
  BY DEF TypeOK, StoreTypes, SenderTypes, Work, ChannelSend, RunUnit, Plan, Quarantine, Retire, Look, Activate,
         ClaimUnit, Send, SettleDelivered, SettleFailed, SettleRefused, Finish, Fail,
         ghostVars
<1>2. ASSUME Calm(s) PROVE \A u \in Units, t \in Senders : InFlight(t, p, u)' => InFlight(t, p, u)
  BY <1>2 DEF Calm, InFlight
<1>3. ASSUME Calm(s), unit' = unit, accepted' = accepted, Declared(p)' = Declared(p)
      PROVE  Promise!Step(p)
  BY <1>2, <1>3, QuietStep DEF Quiet
<1>4. CASE Plan(s)
  <2>1. Calm(s) /\ accepted' = accepted /\ row' = row
    BY <1>1, <1>4, MovesCalm DEF Plan, Labels, ghostVars
  <2>2. \A u \in Units : /\ unit'[p][u] = "attempting" <=> unit[p][u] = "attempting"
                         /\ unit'[p][u] = "unsafe" <=> unit[p][u] = "unsafe"
    <3>1. CASE unit' = unit
      BY <3>1
    <3>2. CASE ~Planned(o) /\ unit' = [unit EXCEPT ![o] = [u \in Units |-> "pending"]]
      BY <1>1, <3>2 DEF Planned
    <3> QED BY <1>4, <3>1, <3>2, Zenon DEF Plan
  <2> QED BY <1>2, <2>1, <2>2, QuietStep DEF Quiet, Declared
<1>5. CASE Quarantine(s) \/ Fail(s) \/ Activate(s)
  <2>1. Calm(s)
    BY <1>1, <1>5, MovesCalm DEF Quarantine, Fail, Activate, Labels, Calm, SenderTypes
  <2>2. unit' = unit /\ accepted' = accepted
    BY <1>5 DEF Quarantine, Fail, Activate, ghostVars
  <2>3. Declared(p)' = Declared(p)
    <3>1. CASE Quarantine(s)
      BY <1>1, <3>1 DEF Quarantine, OwnOpen, Written, Stamped, Declared
    <3>2. CASE Fail(s)
      BY <1>1, <3>2 DEF Fail, Stamped, Declared
    <3>3. CASE Activate(s)
      BY <1>1, <3>3 DEF Activate, OwnOpen, Written, Stamped, Declared
    <3> QED BY <1>5, <3>1, <3>2, <3>3
  <2> QED BY <1>3, <2>1, <2>2, <2>3
<1>6. CASE Look(s) \/ SettleRefused(s)
  <2>1. Calm(s)
    BY <1>1, <1>6, MovesCalm DEF Look, SettleRefused, Labels
  <2>2. unit' = unit /\ accepted' = accepted /\ row' = row
    BY <1>6 DEF Look, SettleRefused, storeVars, ghostVars
  <2> QED BY <1>3, <2>1, <2>2 DEF Declared
\* the row is settled as delivered, or its state stays outside delivered
<1>7. ASSUME Leave(s), unit' = unit, accepted' = accepted,
             \/ Declared(p)' = Declared(p)
             \/ /\ ~Declared(p) /\ Declared(p)'
                /\ \A u \in Units : unit[p][u] = "delivered"
      PROVE  Promise!Step(p)
  <2>1. Calm(s)
    BY <1>1, <1>7, MovesCalm
  <2>2. CASE Declared(p)' = Declared(p)
    BY <1>3, <1>7, <2>1, <2>2
  <2>3. CASE ~Declared(p) /\ Declared(p)' /\ \A u \in Units : unit[p][u] = "delivered"
    <3>1. 1 \in Units
      OBVIOUS
    <3>2. CallOf(p) = "idle" /\ CallOf(p)' = "idle"
      BY <1>7, <2>3, <3>1, FrontCalls, FrontCallsNext DEF FrontCall
    <3>3. \A u \in Units : accepted[p][u] = 1
      BY <1>1, <2>3 DEF Courier, CourierAt
    <3> QED BY <1>7, <2>3, <3>2, <3>3 DEF Declared, Promise!Step, Promise!Declare, Promise!Parts
  <2> QED BY <1>7, <2>2, <2>3
<1>8. CASE Finish(s)
  <2>1. Leave(s) /\ unit' = unit /\ accepted' = accepted
    BY <1>8 DEF Finish, ghostVars
  <2>2. \/ Declared(p)' = Declared(p)
        \/ /\ ~Declared(p) /\ Declared(p)'
           /\ \A u \in Units : unit[p][u] = "delivered"
    <3>1. Backed
      OBVIOUS
    <3>2. row' = row \/ /\ row' = [row EXCEPT ![o] = Written(@, "delivered", FALSE)]
                        /\ row[o].state = "attempting"
                        /\ Planned(o) => \A u \in Units : unit[o][u] = "delivered"
      BY <1>8 DEF Finish
    <3>3. row[o].state = "attempting" => Planned(o)
      BY <1>1 DEF Backed, Consistent, Planned
    <3> QED BY <1>1, <3>2, <3>3 DEF Declared, Written, Stamped
  <2> QED BY <1>7, <2>1, <2>2
<1>9. CASE Retire(s)
  <2>1. Leave(s) /\ unit' = unit /\ accepted' = accepted
    BY <1>9 DEF Retire, ghostVars
  <2>2. \/ row' = row
        \/ /\ row' = [row EXCEPT ![o] = Written(@, "delivered", FALSE)]
           /\ AllSent(o) /\ row[o].state \in Open
        \/ /\ row' = [row EXCEPT ![o] = Written(@, "abandoned", FALSE)]
           /\ row[o].state \in Open
    BY <1>9 DEF Retire, OwnOpen
  <2>3. \/ Declared(p)' = Declared(p)
        \/ /\ ~Declared(p) /\ Declared(p)'
           /\ \A u \in Units : unit[p][u] = "delivered"
    <3>1. CASE p # o \/ row' = row
      BY <1>1, <2>2, <3>1 DEF Declared
    <3>2. CASE p = o /\ row' # row
      <4>1. \/ /\ row'[p].state = "delivered" /\ row[p].state \in Open
               /\ \A u \in Units : unit[p][u] = "delivered"
            \/ row'[p].state = "abandoned" /\ row[p].state \in Open
        BY <1>1, <2>2, <3>2 DEF Written, Stamped, AllSent
      <4> QED BY <4>1 DEF Declared
    <3> QED BY <3>1, <3>2
  <2> QED BY <1>7, <2>1, <2>3
\* another reply than the sender's: nothing of it moves
<1>10. ASSUME p # o, unit'[p] = unit[p], accepted'[p] = accepted[p], job' = job,
              Others, Declared(p)' = Declared(p)
       PROVE  Promise!Step(p)
  <2>1. \A u \in Units, t \in Senders : InFlight(t, p, u)' => InFlight(t, p, u)
    BY <1>10 DEF InFlight
  <2> QED BY <1>10, <2>1, QuietStep DEF Quiet
<1>11. CASE ClaimUnit(s)
  <2>1. accepted' = accepted /\ row' = row
    BY <1>11 DEF ClaimUnit, ghostVars
  <2>2. CASE UNCHANGED unit /\ Leave(s)
    BY <1>1, <1>3, <2>1, <2>2, MovesCalm DEF Declared
  <2>3. CASE /\ unit[o][v] \in {"pending", "safe"} /\ row[o].state = "attempting"
             /\ unit' = [unit EXCEPT ![o][v] = "attempting"]
             /\ Goto(s, "send")
    <3>1. Others /\ pc'[s] = "send" /\ job' = job /\ pos'[s] = v
      BY <1>1, <2>3 DEF Goto, SenderTypes
    <3>2. CASE p # o
      <4>1. unit'[p] = unit[p]
        BY <1>1, <2>3, <3>2
      <4> QED BY <1>10, <2>1, <3>1, <3>2, <4>1 DEF Declared
    <3>3. CASE p = o
      <4>1. PICK w \in Units : w = v
        BY <1>1
      <4>2. \A u \in Units \ {w} : /\ unit[p][u] \notin {"attempting", "unsafe"}
                                   /\ unit'[p][u] \notin {"attempting", "unsafe"}
        BY <1>1, <2>3, <3>3, <4>1, OwnStep
      <4>3. unit'[p][w] = "attempting" /\ InFlight(s, p, w)'
        BY <1>1, <2>3, <3>1, <3>3, <4>1 DEF InFlight
      <4>4. accepted'[p] = accepted[p] /\ accepted[p][w] = 0
        BY <1>1, <2>1, <2>3, <3>3, <4>1 DEF Courier, CourierAt
      <4>5. FrontCall(p, w) /\ FrontCall(p, w)'
        BY FrontCalls, FrontCallsNext
      <4>6. unit[p][w] \notin {"attempting", "unsafe"}
        BY <2>3, <3>3, <4>1
      <4>7. CallOf(p) = "idle" /\ CallOf(p)' = "calling"
        BY <4>2, <4>3, <4>4, <4>5, <4>6 DEF FrontCall
      <4>8. row'[p] = row[p] /\ row[p].state = "attempting"
        BY <2>1, <2>3, <3>3
      <4> QED BY <4>4, <4>7, <4>8 DEF Promise!Step, Promise!Call
    <3> QED BY <3>2, <3>3
  <2> QED BY <1>11, <2>2, <2>3, Zenon DEF ClaimUnit, Sendable
<1>12. CASE Send(s)
  <2>1. PICK out \in {"ok", "lost", "unsent", "throttled"}, arrives \in BOOLEAN :
          accepted' = IF arrives /\ accepted[o][v] < 2
                      THEN [accepted EXCEPT ![o][v] = @ + 1] ELSE accepted
    BY <1>12 DEF Send, Arrives
  <2>2. /\ Others /\ pc[s] = "send" /\ pc'[s] = "settle" /\ job' = job /\ pos'[s] = v
        /\ unit' = unit /\ row' = row
    BY <1>1, <1>12 DEF Send, SenderTypes, storeVars
  <2>3. CASE p # o
    <3>1. accepted'[p] = accepted[p]
      BY <1>1, <2>1, <2>3
    <3> QED BY <1>10, <2>2, <2>3, <3>1 DEF Declared
  <2>4. CASE p = o
    <3>1. PICK w \in Units : w = v
      BY <1>1
    <3>2. InFlight(s, p, w) /\ InFlight(s, p, w)' /\ CourierAt(p, w)
      BY <1>1, <2>2, <2>4, <3>1 DEF InFlight, Courier
    <3>3. /\ unit[p][w] = "attempting" /\ accepted[p][w] = 0
          /\ unit'[p][w] = "attempting"
      BY <2>2, <3>2 DEF CourierAt, Honest
    <3>4. \A u \in Units \ {w} : /\ unit[p][u] \notin {"attempting", "unsafe"}
                                 /\ unit'[p][u] \notin {"attempting", "unsafe"}
      BY <1>1, <2>2, <2>4, <3>1, <3>3, OwnStep
    <3>5. FrontCall(p, w) /\ FrontCall(p, w)'
      BY FrontCalls, FrontCallsNext
    <3>6. CallOf(p) = "calling"
      BY <3>2, <3>3, <3>4, <3>5 DEF FrontCall
    <3>7. CASE accepted' = accepted
      <4>1. accepted'[p][w] = 0
        BY <3>3, <3>7
      <4>2. CallOf(p)' = "calling"
        BY <3>2, <3>3, <3>4, <3>5, <4>1 DEF FrontCall
      <4> QED BY <2>2, <3>6, <3>7, <4>2 DEF Promise!Step, Promise!Stays
    <3>8. CASE accepted' = [accepted EXCEPT ![o][v] = @ + 1]
      <4>1. accepted'[p] = [accepted[p] EXCEPT ![w] = 1]
        <5>1. accepted'[p] = [accepted[p] EXCEPT ![w] = accepted[p][w] + 1]
          BY <1>1, <2>4, <3>1, <3>8
        <5>2. accepted[p][w] + 1 = 1
          BY <3>3
        <5> QED BY <5>1, <5>2, Zenon
      <4>2. accepted'[p][w] = 1
        BY <1>1, <4>1
      <4>3. CallOf(p)' = "arrived"
        BY <3>2, <3>3, <3>4, <3>5, <4>2 DEF FrontCall
      <4>4. \A q \in Units : accepted[p][q] = IF q < w THEN 1 ELSE 0
        <5> TAKE q \in Units
        <5>1. q < w \/ q = w \/ q > w
          OBVIOUS
        <5>2. q < w => accepted[p][q] = 1
          BY <1>1, <2>4, <3>1, <3>3, Front
        <5>3. q > w => accepted[p][q] = 0
          BY <1>1, <2>4, <3>1, <3>3, Front
        <5> QED BY <3>3, <5>1, <5>2, <5>3
      <4>5. Promise!Upto(p, w) /\ w \in Promise!Parts
        BY <4>4 DEF Promise!Upto, Promise!Parts
      <4> QED BY <2>2, <3>6, <4>1, <4>3, <4>5 DEF Promise!Step, Promise!Arrive
    <3> QED BY <2>1, <3>7, <3>8
  <2> QED BY <2>3, <2>4
\* the answer of the call becomes durable: the unit is settled
<1>13. ASSUME pc[s] = "settle", Calm(s), accepted' = accepted, job' = job,
              \A q \in Obligations : row'[q].state = row[q].state,
              NEW st \in {"delivered", "safe", "unsafe"},
              unit' = [unit EXCEPT ![o][v] = st]
       PROVE  Promise!Step(p)
  <2>1. Declared(p)' = Declared(p)
    BY <1>13 DEF Declared
  <2>2. CASE p # o
    <3>1. unit'[p] = unit[p]
      BY <1>1, <1>13, <2>2
    <3> QED BY <1>10, <1>13, <2>1, <2>2, <3>1 DEF Calm
  <2>3. CASE p = o
    <3>1. PICK w \in Units : w = v
      BY <1>1
    <3>2. InFlight(s, p, w) /\ CourierAt(p, w)
      BY <1>1, <1>13, <2>3, <3>1 DEF InFlight, Courier
    <3>3. unit[p][w] = "attempting"
      BY <3>2 DEF CourierAt
    <3>4. /\ unit'[p][w] = st
          /\ \A u \in Units \ {w} : /\ unit[p][u] \notin {"attempting", "unsafe"}
                                    /\ unit'[p][u] \notin {"attempting", "unsafe"}
      BY <1>1, <1>13, <2>3, <3>1, <3>3, OwnStep
    <3>5. FrontCall(p, w) /\ FrontCall(p, w)'
      BY FrontCalls, FrontCallsNext
    <3>6. CallOf(p) \in {"calling", "arrived"}
      BY <3>2, <3>3, <3>4, <3>5 DEF FrontCall
    <3>7. CallOf(p)' = IF st = "unsafe" THEN "lost" ELSE "idle"
      <4>1. st = "unsafe" \/ st \notin {"attempting", "unsafe"}
        BY <1>13
      <4> QED BY <3>4, <3>5, <4>1 DEF FrontCall
    <3> QED BY <1>13, <2>1, <3>6, <3>7
         DEF Declared, Promise!Step, Promise!Answer, Promise!Lose
  <2> QED BY <2>2, <2>3
<1>14. CASE SettleDelivered(s)
  <2>1. Calm(s) /\ job' = job
    BY <1>1, <1>14, MovesCalm DEF SettleDelivered, Advance
  <2>2. /\ pc[s] = "settle" /\ accepted' = accepted /\ row' = row
        /\ unit' = [unit EXCEPT ![o][v] = "delivered"]
    BY <1>14 DEF SettleDelivered, ghostVars
  <2> QED BY <1>13, <2>1, <2>2
<1>15. CASE SettleFailed(s)
  <2>1. Calm(s)
    <3>1. \/ pc' = [pc EXCEPT ![s] = "plan"] \/ pc' = [pc EXCEPT ![s] = "fail"]
      BY <1>15 DEF SettleFailed
    <3>2. /\ job' = job
          /\ pos' = [pos EXCEPT ![s] = 1] /\ outcome' = [outcome EXCEPT ![s] = "none"]
      BY <1>15 DEF SettleFailed
    <3> QED BY <1>1, <3>1, <3>2 DEF Calm, SenderTypes
  <2>2. /\ pc[s] = "settle" /\ accepted' = accepted /\ job' = job
        /\ \E st \in {"safe", "unsafe"} : unit' = [unit EXCEPT ![o][v] = st]
    BY <1>15 DEF SettleFailed, ghostVars
  <2>3. \A q \in Obligations : row'[q].state = row[q].state
    BY <1>1, <1>15 DEF SettleFailed
  <2> QED BY <1>13, <2>1, <2>2, <2>3
<1> QED BY <1>4, <1>5, <1>6, <1>8, <1>9, <1>11, <1>12, <1>14, <1>15 DEF Work, ChannelSend, RunUnit

\* Aside of the work, no reply is declared and no declaration withdrawn but
\* with its record.
LEMMA AsideDeclared ==
  ASSUME TypeOK, NEW p \in Obligations, ~forgotten'[p],
         \/ \E f \in Finals : \/ RecordRow(f) \/ RecordRefused(f) \/ Discard(f) \/ Check(f)
                              \/ \E o \in Obligations : Submit(f, o)
         \/ \E s \in Sweeps : \/ Wake \/ ClaimOwn \/ ClaimOthers(s) \/ NextRow(s)
                              \/ NoMoreRows(s) \/ Release(s)
         \/ Fault \/ \E o \in Obligations : Age(o) \/ Expire(o) \/ Due(o)
  PROVE  Declared(p)' = Declared(p)
<1>1. row \in [Obligations -> Row]
  BY DEF TypeOK, StoreTypes
<1>2. ASSUME NEW rows, Prune(rows),
             rows[p].state = "delivered" <=> row[p].state = "delivered"
      PROVE  Declared(p)' = Declared(p)
  <2>1. \/ row'[p] = rows[p]
        \/ /\ row'[p] = Written(rows[p], "abandoned", FALSE)
           /\ rows[p].state \in {"attempting", "failed"}
        \/ row'[p] = Absent /\ rows[p].state \in Terminal
    BY <1>2, PruneSpares
  <2>2. forgotten'[p] \/ row'[p] = rows[p] \/ row'[p] = Written(rows[p], "abandoned", FALSE)
    BY <1>2, PruneKeeps
  <2> QED BY <1>2, <2>1, <2>2 DEF Declared, Written, Stamped, Absent
<1>3. ASSUME NEW f \in Finals, RecordRow(f) PROVE Declared(p)' = Declared(p)
  <2> DEFINE rows == IF row[job[f]].state = "none" THEN [row EXCEPT ![job[f]] = NewRow]
                     ELSE row
  <2>1. Prune(rows)
    BY <1>3, Zenon DEF RecordRow
  <2>2. job[f] \in Obligations
    BY DEF TypeOK, SenderTypes, Senders
  <2>3. rows[p] = row[p] \/ (row[p].state = "none" /\ rows[p] = NewRow)
    BY <1>1, <2>2
  <2> HIDE DEF rows
  <2> QED BY <1>2, <2>1, <2>3 DEF NewRow
<1>4. ASSUME NEW f \in Finals, Discard(f) PROVE Declared(p)' = Declared(p)
  <2>1. job[f] \in Obligations
    BY DEF TypeOK, SenderTypes, Senders
  <2> QED BY <1>1, <1>4, <2>1 DEF Discard, Discardable, Absent, Declared
<1>5. ASSUME NEW s \in Sweeps, NEW cand \in SUBSET Obligations,
             NEW claims \in SUBSET Obligations, ClaimRows(s, cand, claims),
             \A o \in cand : Claimable(o)
      PROVE  Declared(p)' = Declared(p)
  <2>1. PICK drop \in SUBSET (cand \ {o \in cand : ~Exhausted(o)}) :
          Prune([o \in Obligations |->
                   IF o \in claims THEN ClaimedRow(o)
                   ELSE IF o \in drop
                        THEN Stamped(row[o], "abandoned", row[o].safe, row[o].deferred)
                        ELSE row[o]])
    BY <1>5, Zenon DEF ClaimRows
  <2> DEFINE rows == [o \in Obligations |->
                   IF o \in claims THEN ClaimedRow(o)
                   ELSE IF o \in drop
                        THEN Stamped(row[o], "abandoned", row[o].safe, row[o].deferred)
                        ELSE row[o]]
  <2>2. \/ rows[p] = row[p]
        \/ Claimable(p) /\ rows[p] = ClaimedRow(p)
        \/ Claimable(p) /\ rows[p] = Stamped(row[p], "abandoned", row[p].safe, row[p].deferred)
    BY <1>5 DEF ClaimRows
  <2>3. rows[p].state = "delivered" <=> row[p].state = "delivered"
    <3> HIDE DEF rows
    <3> QED BY <2>2 DEF Claimable, ClaimedRow, ClaimedState, Stamped
  <2> HIDE DEF rows
  <2> QED BY <1>2, <2>1, <2>3 DEF rows
<1>6. CASE ClaimOwn
  <2>1. PICK claims \in SUBSET Obligations :
          ClaimRows(Live, {o \in Obligations : OwnIdle(o)}, claims)
    BY <1>6, Zenon DEF ClaimOwn
  <2>2. \A o \in {q \in Obligations : OwnIdle(q)} : Claimable(o)
    BY DEF OwnIdle
  <2> QED BY <1>5, <2>1, <2>2
<1>7. ASSUME NEW s \in Sweeps, ClaimOthers(s) PROVE Declared(p)' = Declared(p)
  <2>1. PICK claims \in SUBSET Obligations :
          ClaimRows(s, {o \in Obligations : Foreign(o)}, claims)
    BY <1>7, Zenon DEF ClaimOthers
  <2>2. \A o \in {q \in Obligations : Foreign(q)} : Claimable(o)
    BY DEF Foreign
  <2> QED BY <1>5, <2>1, <2>2
<1>8. CASE Fault \/ \E o \in Obligations : Age(o) \/ Expire(o) \/ Due(o)
  BY <1>8, EnvironmentKeeps DEF Declared
<1>9. CASE row' = row
  BY <1>9 DEF Declared
<1> QED BY <1>3, <1>4, <1>6, <1>7, <1>8, <1>9
     DEF RecordRefused, Check, Submit, Wake, NextRow, NoMoreRows, Release, storeVars

\* No step brings back what was forgotten.
LEMMA NothingRecalled ==
  ASSUME TypeOK, Backed, [Next]_vars, NEW p \in Obligations, forgotten[p]
  PROVE  forgotten'[p]
<1>1. ASSUME NEW f \in Finals, HandlerStep(f) \/ \E o \in Obligations : Submit(f, o)
      PROVE  Remembered
  BY <1>1, WorkRemembers, HandlerRemembers DEF HandlerStep, Senders
<1>2. ASSUME NEW s \in Sweeps, SweepStep(s) PROVE Remembered
  BY <1>2, WorkRemembers, SweepRemembers DEF SweepStep, Senders
<1>3. CASE Wake \/ ClaimOwn
  BY <1>3, SweepRemembers DEF Sweeps, Remembered
<1>4. CASE Fault \/ \E o \in Obligations : Age(o) \/ Expire(o) \/ Due(o)
  BY <1>4, EnvironmentKeeps
<1>5. CASE UNCHANGED vars
  BY <1>5 DEF vars
<1> QED BY <1>1, <1>2, <1>3, <1>4, <1>5 DEF Next, Remembered

\* Every step of the ledger keeps the promise to every reply.
LEMMA StepPromise ==
  ASSUME TypeOK, Backed, Courier, Ordered, [Next]_vars, NEW p \in Obligations, ~forgotten'[p]
  PROVE  Promise!Step(p)
<1>1. ASSUME Aside, Declared(p)' = Declared(p) PROVE Promise!Step(p)
  <2>1. \A u \in Units, t \in Senders : InFlight(t, p, u)' => InFlight(t, p, u)
    BY <1>1 DEF Aside, InFlight
  <2>2. unit'[p] = unit[p] /\ accepted'[p] = accepted[p]
    BY <1>1 DEF Aside
  <2> QED BY <1>1, <2>1, <2>2, QuietStep DEF Quiet
<1>2. ASSUME NEW f \in Finals, HandlerStep(f) \/ \E o \in Obligations : Submit(f, o)
      PROVE  Promise!Step(p)
  <2>1. CASE Work(f)
    BY <2>1, WorkPromise DEF Senders
  <2>2. CASE ~Work(f)
    BY <1>1, <1>2, <2>2, HandlerAside, AsideDeclared DEF HandlerStep
  <2> QED BY <2>1, <2>2
<1>3. ASSUME NEW s \in Sweeps, SweepStep(s)
      PROVE  Promise!Step(p)
  <2>1. CASE Work(s)
    BY <2>1, WorkPromise DEF Senders
  <2>2. CASE ~Work(s)
    BY <1>1, <1>3, <2>2, SweepAside, AsideDeclared DEF SweepStep
  <2> QED BY <2>1, <2>2
<1>4. CASE Wake \/ ClaimOwn
  BY <1>1, <1>4, SweepAside, AsideDeclared DEF Sweeps
<1>5. CASE Fault \/ \E o \in Obligations : Age(o) \/ Expire(o) \/ Due(o)
  BY <1>1, <1>5, EnvironmentAside, AsideDeclared
<1>6. CASE UNCHANGED vars
  <2>1. Quiet(p)
    BY <1>6 DEF vars, Quiet, Declared, InFlight
  <2> QED BY <2>1, QuietStep
<1> QED BY <1>2, <1>3, <1>4, <1>5, <1>6 DEF Next

\* The ledger implements the promise to the chat: for every number of replies,
\* units and senders each step is, for every reply whose record is not erased,
\* a step of ReplyDelivery - one call at a time, units in order and at most
\* once, nothing after a lost answer, delivered only when complete.
THEOREM PromiseIsKept == Spec => ImplementsPromise
<1>1. Init => Promise!Init
  <2> SUFFICES ASSUME Init PROVE Promise!Init
    OBVIOUS
  <2>1. ASSUME NEW o \in Obligations PROVE CallOf(o) = "idle"
    <3>1. 1 \in Units /\ \A u \in Units : unit[o][u] = "none"
      BY DEF Init, NoPlan
    <3> QED BY <3>1, FrontCalls DEF FrontCall
  <2> QED BY <2>1 DEF Init, Absent, Promise!Init, Promise!Parts
<1>2. TypeOK /\ Backed /\ Courier /\ Ordered /\ [Next]_vars => [Promise!Next]_(Promise!vars)
  BY NothingRecalled, StepPromise DEF Promise!Next
<1> QED BY <1>1, <1>2, TablesConsistent, CouriersHold, OrderHolds, PTL
     DEF Spec, ImplementsPromise, Promise!Spec

-----------------------------------------------------------------------------
(* The properties as the runs check them                                   *)

\* No unit twice, and every unit of what is called delivered.
THEOREM UnitsAreExact == Spec => []UnitsExact
<1>1. TypeOK /\ NoDuplicate /\ DeliveredInFull => UnitsExact
  BY DEF UnitsExact
<1> QED BY <1>1, TypeCorrect, NeverTwice, DeliveredIsTrue, PTL

\* Sending and discarding exclude each other, and one sender the next.
THEOREM SendersAreFenced == Spec => []Fenced
<1>1. OneCourier /\ DiscardIsUnsent => Fenced
  BY DEF Fenced
<1> QED BY <1>1, OneAtATime, DiscardLosesNothing, PTL

\* The chat sees no gap in a reply, and a settled claim keeps its reply.
THEOREM NothingIsMissing == Spec => []NothingMissing
<1>1. InOrder /\ NoLostReply => NothingMissing
  BY DEF NothingMissing
<1> QED BY <1>1, PlanIsInOrder, RepliesAreKept, PTL

\* The ledger keeps within its room, what was settled stays settled, and the
\* record of a reply is not erased for want of room.
THEOREM RecordIsKept == Spec => RecordKept
BY RoomIsKept, SettledIsKept, PTL DEF RecordKept
=============================================================================
