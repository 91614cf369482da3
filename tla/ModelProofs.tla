---------------------------- MODULE ModelProofs ----------------------------
(***************************************************************************)
(* What TLAPS proves of ModelClient, for any finite set of turns, any set  *)
(* of other processes and any bounds.                                      *)
(***************************************************************************)
EXTENDS ModelClient, FiniteSetTheorems, TLAPS

-----------------------------------------------------------------------------
(* The inductive invariant                                                 *)

\* Where a call is, and where an actor is in resolving the credentials.
Phases == {"idle", "ensure", "resolve", "stream", "release"}
Stages == {"idle", "read", "wait", "exchange", "write", "done", "failed"}

Shape ==
    /\ file \in Tokens /\ flock \in Actors \cup {Free} /\ issued \in Tokens
    /\ spent \subseteq Tokens /\ aged \subseteq Tokens
    /\ current \in Tokens \cup {None} /\ authLock \in Turns \cup {Free}
    /\ leases \in [Tokens -> Nat]
    /\ retired \subseteq Tokens /\ closed \subseteq Tokens
    /\ origin \in [Tokens -> Nat]
    /\ pc \in [Turns -> Phases]
    /\ uses \in [Turns -> Tokens \cup {None}]
    /\ thread \in [Actors -> Stages]
    /\ got \in [Actors -> Tokens \cup {None}]

\* A turn that has a client.
Holds(c) == pc[c] \in {"stream", "release"}

\* The turns that have the client of token t.
Holders(t) == {c \in Turns : Holds(c) /\ uses[c] = t}

\* Those whose call is over, and may have left a lease behind.
Ended == {c \in Turns : c \in asked /\ pc[c] = "idle"}

\* A client has a lease for each turn that holds it, and no more than the
\* cancelled ones account for.
Leasing ==
    /\ \A c \in Turns : Holds(c) => uses[c] \in Tokens
    /\ \A c \in Turns : c \notin asked => pc[c] = "idle"
    /\ shut => \A c \in Turns : pc[c] = "idle"
    /\ \A t \in Tokens :
         /\ Cardinality(Holders(t)) <= leases[t]
         /\ leases[t] <= Cardinality(Ended \cup Holders(t))

\* Clients are replaced by those of later tokens only, by the one turn that
\* holds the lock.
Pooled ==
    /\ \A c \in Turns : Holds(c) => uses[c] \notin closed
    /\ ~shut => \A t \in closed \cup retired : t < current
    /\ current <= file
    /\ \A c \in Turns : pc[c] = "resolve" => authLock = c
    /\ \A a \in Actors : thread[a] = "done" =>
         Awaited(a) /\ got[a] \in Tokens /\ current <= got[a] /\ got[a] <= file

\* Whoever exchanges or writes holds the lock of the file, whose token is
\* either good, or lost, or about to be replaced by one of the same sign-in.
Stored ==
    /\ file <= issued /\ spent \subseteq 1 .. issued
    /\ \A a \in Actors : thread[a] \in {"exchange", "write"} => flock = a
    /\ \A a \in Actors : thread[a] = "exchange" => got[a] = file
    /\ \A a \in Actors : thread[a] = "write" =>
         got[a] = issued /\ issued \notin spent /\ origin[issued] = origin[file]
    /\ \A o \in Others : o \notin asked => thread[o] = "idle"
    /\ file \in spent =>
         origin[file] \in lost \/ \E a \in Actors : thread[a] = "write"
    /\ SpentOnce /\ LatestSignIn

\* The inductive invariant.
IInv == Shape /\ Leasing /\ Pooled /\ Stored

-----------------------------------------------------------------------------
(* Counting leases                                                         *)

\* What one turn's coming or going does to the count of a client's leases:
\* H are its holders, E the turns whose call is over.
LEMMA Counted ==
  ASSUME NEW H \in SUBSET Turns, NEW E \in SUBSET Turns, NEW n \in Nat,
         Cardinality(H) <= n, n <= Cardinality(E \cup H)
  PROVE  /\ \A F \in SUBSET Turns : E \subseteq F => n <= Cardinality(F \cup H)
         /\ \A c \in Turns \ (H \cup E) :
              /\ Cardinality(H \cup {c}) <= n + 1
              /\ n + 1 <= Cardinality(E \cup (H \cup {c}))
         /\ \A c \in H : c \notin E =>
              /\ n > 0
              /\ Cardinality(H \ {c}) <= n - 1
              /\ n - 1 <= Cardinality(E \cup (H \ {c}))
              /\ n <= Cardinality((E \cup {c}) \cup (H \ {c}))
<1>1. \A S \in SUBSET Turns : IsFiniteSet(S) /\ Cardinality(S) \in Nat
    BY ModelAssumption, FS_Subset, FS_CardinalityType
<1>2. ASSUME NEW F \in SUBSET Turns, E \subseteq F
      PROVE  n <= Cardinality(F \cup H)
  <2>1. /\ F \cup H \in SUBSET Turns
        /\ E \cup H \in SUBSET (F \cup H)
      BY <1>2
  <2>2. Cardinality(E \cup H) <= Cardinality(F \cup H)
      BY <1>1, <2>1, FS_Subset
  <2> QED
      BY <1>1, <2>1, <2>2
<1>3. ASSUME NEW c \in Turns \ (H \cup E)
      PROVE  /\ Cardinality(H \cup {c}) <= n + 1
             /\ n + 1 <= Cardinality(E \cup (H \cup {c}))
  <2>1. Cardinality(H \cup {c}) = Cardinality(H) + 1
      BY <1>1, FS_AddElement
  <2>2. Cardinality((E \cup H) \cup {c}) = Cardinality(E \cup H) + 1
    <3>1. E \cup H \in SUBSET Turns /\ c \notin E \cup H
        OBVIOUS
    <3> QED
        BY <1>1, <3>1, FS_AddElement
  <2>3. E \cup (H \cup {c}) = (E \cup H) \cup {c}
      OBVIOUS
  <2>4. Cardinality(H) \in Nat /\ Cardinality(E \cup H) \in Nat
      BY <1>1
  <2> QED
      BY <2>1, <2>2, <2>3, <2>4
<1>4. ASSUME NEW c \in H, c \notin E
      PROVE  /\ n > 0
             /\ Cardinality(H \ {c}) <= n - 1
             /\ n - 1 <= Cardinality(E \cup (H \ {c}))
             /\ n <= Cardinality((E \cup {c}) \cup (H \ {c}))
  <2>1. Cardinality(H \ {c}) = Cardinality(H) - 1
      BY <1>1, FS_RemoveElement
  <2>2. Cardinality((E \cup H) \ {c}) = Cardinality(E \cup H) - 1
    <3>1. E \cup H \in SUBSET Turns /\ c \in E \cup H
        OBVIOUS
    <3> QED
        BY <1>1, <3>1, FS_RemoveElement
  <2>3. /\ E \cup (H \ {c}) = (E \cup H) \ {c}
        /\ (E \cup {c}) \cup (H \ {c}) = E \cup H
      BY <1>4
  <2>4. /\ Cardinality(H \ {c}) \in Nat /\ Cardinality(H) \in Nat
        /\ Cardinality(E \cup H) \in Nat
      BY <1>1
  <2> QED
      BY <2>1, <2>2, <2>3, <2>4
<1> QED
    BY <1>2, <1>3, <1>4

-----------------------------------------------------------------------------
(* The invariant is inductive                                              *)

\* A fresh sign-in and an empty pool satisfy it.
LEMMA InitHolds ==
  ASSUME Init
  PROVE  IInv
<1> USE ModelAssumption
<1>1. Shape
    BY DEF Init, Shape, Phases, Stages, Tokens, None, Actors
<1>2. Leasing
  <2>1. \A t \in Tokens : Holders(t) = {}
      BY DEF Init, Holders, Holds
  <2>2. Ended = {}
      BY DEF Init, Ended
  <2>3. Cardinality({}) = 0
      BY FS_EmptySet
  <2>4. \A t \in Tokens : Ended \cup Holders(t) = {} /\ leases[t] = 0
      BY <2>1, <2>2 DEF Init
  <2>5. \A c \in Turns : pc[c] = "idle"
      BY DEF Init
  <2> QED
      BY <2>1, <2>3, <2>4, <2>5 DEF Leasing, Holds
<1>3. Pooled
    BY DEF Init, Pooled, Holds, None, Actors
<1>4. Stored
    BY DEF Init, Stored, SpentOnce, LatestSignIn, Actors, Tokens
<1> QED
    BY <1>1, <1>2, <1>3, <1>4 DEF IInv

\* Nothing of the pool is counted anew while the calls and the leases stay.
LEMMA LeasingStays ==
  ASSUME Leasing, UNCHANGED <<pc, uses, leases, shut>>,
         \A c \in Turns : c \in asked' <=> c \in asked
  PROVE  Leasing'
<1>1. Ended' = Ended
    BY DEF Ended
<1>2. \A t \in Tokens : Holders(t)' = Holders(t)
    BY DEF Holders, Holds
<1> QED
    BY <1>1, <1>2 DEF Leasing, Holds

\* The steps of the credential store keep it.
LEMMA StoreHolds ==
  ASSUME IInv,
         \/ \E a \in Actors : Resolution(a) \/ GiveUpLock(a)
         \/ \E o \in Others : Resolve(o) \/ Die(o)
         \/ \E t \in Tokens : Age(t)
         \/ Login
  PROVE  IInv'
<1> USE ModelAssumption DEF IInv
<1>1. Leasing'
  <2>1. UNCHANGED <<pc, uses, leases, shut>>
      BY DEF Resolution, ReadFile, TakeLock, WriteFile, Exchange, ExchangeFails,
             GiveUpLock, Resolve, Die, Age, Login, pool, call
  <2>2. \A c \in Turns : c \in asked' <=> c \in asked
      BY DEF Resolution, ReadFile, TakeLock, WriteFile, Exchange, ExchangeFails,
             GiveUpLock, Resolve, Die, Age, Login, pool, call
  <2> QED
      BY <2>1, <2>2, LeasingStays
<1>2. Shape' /\ Pooled' /\ Stored'
  <2> USE DEF Shape, Actors, pool, call, store, resolving
  <2>1. ASSUME NEW a \in Actors, ReadFile(a)
        PROVE  Shape' /\ Pooled' /\ Stored'
    <3> USE <2>1 DEF ReadFile
    <3>1. Shape'
        BY DEF Yields, Becomes, Stages, None
    <3>2. Pooled'
        BY DEF Yields, Becomes, Pooled, Holds, Awaited, Tokens, None
    <3>3. Stored'
        BY DEF Yields, Becomes, Stored, Awaited, SpentOnce, LatestSignIn
    <3> QED
        BY <3>1, <3>2, <3>3
  <2>2. ASSUME NEW a \in Actors, TakeLock(a)
        PROVE  Shape' /\ Pooled' /\ Stored'
    <3> USE <2>2 DEF TakeLock, Unlocked
    <3>1. Shape'
        BY DEF Yields, Becomes, Stages, None
    <3>2. Pooled'
        BY DEF Yields, Becomes, Pooled, Holds, Awaited, Tokens, None
    <3>3. Stored'
        BY DEF Yields, Becomes, Stored, Awaited, SpentOnce, LatestSignIn
    <3> QED
        BY <3>1, <3>2, <3>3
  <2>3. ASSUME NEW a \in Actors, GiveUpLock(a)
        PROVE  Shape' /\ Pooled' /\ Stored'
    <3> USE <2>3 DEF GiveUpLock
    <3>1. Shape'
        BY DEF Fails, Becomes, Stages, None
    <3>2. Pooled'
        BY DEF Fails, Becomes, Pooled, Holds, Awaited, Tokens, None
    <3>3. Stored'
        BY DEF Fails, Becomes, Stored, Awaited, SpentOnce, LatestSignIn
    <3> QED
        BY <3>1, <3>2, <3>3
  <2>4. ASSUME NEW a \in Actors, Exchange(a)
        PROVE  Shape' /\ Pooled' /\ Stored'
    <3> USE <2>4 DEF Exchange
    <3>0. /\ issued + 1 \in Tokens /\ got[a] = file /\ origin[file] \in Nat
          /\ \A t \in 1 .. issued : t \in Tokens
        BY DEF Stored, Tokens
    <3>1. Shape'
        BY <3>0 DEF Becomes, Stages
    <3>2. Pooled'
        BY DEF Becomes, Pooled, Holds, Awaited, Tokens, None
    <3>3. Stored'
      <4>1. /\ flock = a /\ issued + 1 \notin spent
            /\ \A b \in Actors : b # a => thread[b] \notin {"exchange", "write"}
          BY DEF Stored
      <4>2. /\ origin'[file] = origin[file] /\ origin'[issued + 1] = origin[file]
            /\ \A t \in 1 .. issued : origin'[t] = origin[t]
            /\ file \in 1 .. issued
          BY <3>0 DEF Stored, Tokens
      <4>3. SpentOnce' /\ LatestSignIn'
          BY <4>2, <3>0 DEF SpentOnce, LatestSignIn, Stored, Tokens
      <4>4. spent' \subseteq 1 .. issued' /\ issued' \notin spent'
          BY <3>0, <4>1, <4>2 DEF Stored, Tokens
      <4>5. thread'[a] = "write" /\ got'[a] = issued'
          BY <3>0 DEF Becomes
      <4> QED
          BY <3>0, <4>1, <4>2, <4>3, <4>4, <4>5 DEF Becomes, Stored, Tokens
    <3> QED
        BY <3>1, <3>2, <3>3
  <2>5. ASSUME NEW a \in Actors, ExchangeFails(a)
        PROVE  Shape' /\ Pooled' /\ Stored'
    <3> USE <2>5 DEF ExchangeFails
    <3>0. got[a] = file /\ flock = a /\ spent' \in {spent, spent \cup {file}}
        BY DEF Stored
    <3>1. Shape'
        BY <3>0 DEF Fails, Becomes, Stages, None
    <3>2. Pooled'
        BY DEF Fails, Becomes, Pooled, Holds, Awaited, Tokens, None
    <3>3. Stored'
      <4>1. /\ \A b \in Actors : b # a => thread[b] \notin {"exchange", "write"}
            /\ \A b \in Actors : thread'[b] \notin {"exchange", "write"}
          BY <3>0 DEF Fails, Becomes, Stored
      <4>2. /\ reused' \subseteq lost' /\ file \in spent' => origin[file] \in lost'
            /\ spent' \subseteq 1 .. issued
          BY <3>0, <4>1 DEF Stored, SpentOnce, Tokens
      <4> QED
          BY <4>1, <4>2 DEF Fails, Becomes, Stored, Awaited, SpentOnce, LatestSignIn
    <3> QED
        BY <3>1, <3>2, <3>3
  <2>6. ASSUME NEW a \in Actors, WriteFile(a)
        PROVE  Shape' /\ Pooled' /\ Stored'
    <3> USE <2>6 DEF WriteFile
    <3>1. Shape'
        BY DEF Yields, Becomes, Stages, None, Stored
    <3>2. Pooled'
        BY DEF Yields, Becomes, Pooled, Holds, Awaited, Tokens, None, Stored
    <3>3. Stored'
        BY DEF Yields, Becomes, Stored, Awaited, SpentOnce, LatestSignIn
    <3> QED
        BY <3>1, <3>2, <3>3
  <2>7. ASSUME Login
        PROVE  Shape' /\ Pooled' /\ Stored'
    <3> USE <2>7 DEF Login, SignedIn, Unlocked
    <3>0. /\ issued + 1 \in Tokens /\ origin[file] + 1 \in Nat
          /\ file' = issued + 1 /\ issued' = issued + 1
        BY DEF Tokens
    <3>1. Shape'
        BY <3>0
    <3>2. Pooled'
        BY DEF Pooled, Holds, Awaited, Tokens, Stored, None
    <3>3. Stored'
        BY DEF Stored, SpentOnce, LatestSignIn, Tokens
    <3> QED
        BY <3>1, <3>2, <3>3
  <2>8. ASSUME NEW t \in Tokens, Age(t)
        PROVE  Shape' /\ Pooled' /\ Stored'
    <3> USE <2>8 DEF Age
    <3>1. Shape'
      <4>1. aged' \subseteq Tokens
          BY DEF Tokens
      <4> QED
          BY <4>1
    <3>2. Pooled'
        BY DEF Pooled, Holds, Awaited
    <3>3. Stored'
        BY DEF Stored, SpentOnce, LatestSignIn
    <3> QED
        BY <3>1, <3>2, <3>3
  <2>9. ASSUME NEW o \in Others, Resolve(o)
        PROVE  Shape' /\ Pooled' /\ Stored'
    <3> USE <2>9 DEF Resolve
    <3>1. Shape'
        BY DEF Becomes, Stages
    <3>2. Pooled'
        BY DEF Becomes, Pooled, Holds, Awaited
    <3>3. Stored'
        BY DEF Becomes, Stored, SpentOnce, LatestSignIn
    <3> QED
        BY <3>1, <3>2, <3>3
  <2>10. ASSUME NEW o \in Others, Die(o)
         PROVE  Shape' /\ Pooled' /\ Stored'
    <3> USE <2>10 DEF Die, Forget
    <3>1. Shape'
        BY DEF Stages
    <3>2. Pooled'
        BY DEF Pooled, Holds, Awaited
    <3>3. Stored'
        BY DEF Stored, SpentOnce, LatestSignIn
    <3> QED
        BY <3>1, <3>2, <3>3
  <2> QED
      BY <2>1, <2>2, <2>3, <2>4, <2>5, <2>6, <2>7, <2>8, <2>9, <2>10 DEF Resolution
<1> QED
    BY <1>1, <1>2

\* A turn that takes a lease becomes one more holder of that client.
LEMMA LeaseCounts ==
  ASSUME Shape, Leasing, NEW c \in Turns, pc[c] \in {"ensure", "resolve"},
         NEW t \in Tokens, Lease(c, t), UNCHANGED <<asked, shut>>
  PROVE  Leasing'
<1> USE DEF Shape
<1>1. /\ pc' = [pc EXCEPT ![c] = "stream"] /\ uses' = [uses EXCEPT ![c] = t]
      /\ leases' = [leases EXCEPT ![t] = leases[t] + 1]
    BY DEF Lease, Goes
<1>2. c \notin Ended /\ \A u \in Tokens : c \notin Holders(u)
    BY DEF Ended, Holders, Holds
<1>3. Ended' = Ended
    BY <1>1 DEF Ended
<1>4. /\ Holders(t)' = Holders(t) \cup {c}
      /\ \A u \in Tokens : u # t => Holders(u)' = Holders(u)
    BY <1>1, <1>2 DEF Holders, Holds
<1>5. /\ leases[t] \in Nat /\ leases'[t] = leases[t] + 1
      /\ \A u \in Tokens : u # t => leases'[u] = leases[u]
    BY <1>1
<1>6. /\ Cardinality(Holders(t) \cup {c}) <= leases[t] + 1
      /\ leases[t] + 1 <= Cardinality(Ended \cup (Holders(t) \cup {c}))
  <2>1. Holders(t) \in SUBSET Turns /\ Ended \in SUBSET Turns
      BY DEF Holders, Ended
  <2>2. Cardinality(Holders(t)) <= leases[t] /\ leases[t] <= Cardinality(Ended \cup Holders(t))
      BY DEF Leasing
  <2> QED
      BY <1>2, <1>5, <2>1, <2>2, Counted
<1>7. /\ \A d \in Turns : Holds(d)' => uses'[d] \in Tokens
      /\ \A d \in Turns : d \notin asked' => pc'[d] = "idle"
      /\ ~shut
    BY <1>1 DEF Leasing, Holds
<1> QED
    BY <1>3, <1>4, <1>5, <1>6, <1>7 DEF Leasing, Holds

\* The end of a call leaves whatever it held to those whose call is over: the
\* count of a client stays, or falls by the lease that was given back.
LEMMA LossCounts ==
  ASSUME Shape, Leasing, NEW c \in Turns, Holds(c),
         leases' \in [Tokens -> Nat], UNCHANGED shut,
         \A u \in Tokens : u # uses[c] => leases'[u] = leases[u],
         \/ leases'[uses[c]] = leases[uses[c]] - 1 /\ pc' = [pc EXCEPT ![c] = "ensure"]
         \/ /\ leases'[uses[c]] \in {leases[uses[c]], leases[uses[c]] - 1}
            /\ pc' = [pc EXCEPT ![c] = "idle"],
         uses' = [uses EXCEPT ![c] = None], UNCHANGED asked
  PROVE  Leasing'
<1> USE DEF Shape
<1>0. PICK t \in Tokens : t = uses[c]
    BY DEF Leasing
<1>1. t # None /\ c \in asked /\ c \in Holders(t) /\ c \notin Ended
    BY <1>0 DEF Leasing, Holds, Holders, Ended, Tokens, None
<1>2. Ended' \in {Ended, Ended \cup {c}} /\ (pc'[c] = "idle" => Ended' = Ended \cup {c})
    BY <1>1 DEF Ended
<1>3. /\ Holders(t)' = Holders(t) \ {c}
      /\ \A u \in Tokens : u # t => Holders(u)' = Holders(u)
    BY <1>0, <1>1 DEF Holders, Holds
<1>4. \A u \in Tokens : /\ Holders(u) \in SUBSET Turns /\ leases[u] \in Nat
                        /\ Cardinality(Holders(u)) <= leases[u]
                        /\ leases[u] <= Cardinality(Ended \cup Holders(u))
    BY DEF Leasing, Holders
<1>5. Ended \in SUBSET Turns /\ Ended \cup {c} \in SUBSET Turns
    BY DEF Ended
<1>6. /\ leases[t] > 0
      /\ Cardinality(Holders(t) \ {c}) <= leases[t] - 1
      /\ leases[t] - 1 <= Cardinality(Ended \cup (Holders(t) \ {c}))
      /\ leases[t] <= Cardinality((Ended \cup {c}) \cup (Holders(t) \ {c}))
    BY <1>0, <1>1, <1>4, <1>5, Counted
<1>7. \A u \in Tokens : leases[u] <= Cardinality((Ended \cup {c}) \cup Holders(u))
    BY <1>4, <1>5, Counted
<1>8. /\ Cardinality(Holders(t)') <= leases'[t]
      /\ leases'[t] <= Cardinality((Ended \cup Holders(t))')
  <2>1. CASE pc'[c] = "idle"
    <3>1. leases'[t] \in {leases[t], leases[t] - 1}
        BY <1>0
    <3>2. (Ended \cup Holders(t))' = (Ended \cup {c}) \cup (Holders(t) \ {c})
        BY <1>2, <1>3, <2>1
    <3>3. leases[t] \in Nat /\ Cardinality(Holders(t) \ {c}) \in Nat
        BY <1>1, <1>4, ModelAssumption, FS_Subset, FS_CardinalityType DEF Holders
    <3>4. Cardinality((Ended \cup {c}) \cup (Holders(t) \ {c})) \in Nat
      <4>1. (Ended \cup {c}) \cup (Holders(t) \ {c}) \in SUBSET Turns
          BY <1>4, <1>5
      <4> QED
          BY <4>1, ModelAssumption, FS_Subset, FS_CardinalityType
    <3>5. leases[t] \in Nat
        BY <1>4
    <3>6. Cardinality(Holders(t) \ {c}) <= leases'[t]
        BY <1>6, <3>1, <3>3, <3>5
    <3>7. leases'[t] <= Cardinality((Ended \cup {c}) \cup (Holders(t) \ {c}))
        BY <1>6, <3>1, <3>4, <3>5
    <3> QED
        BY <1>3, <3>2, <3>6, <3>7
  <2>2. CASE pc'[c] = "ensure"
    <3>1. leases'[t] = leases[t] - 1 /\ Ended' = Ended
      <4>1. pc'[c] # "idle"
          BY <2>2
      <4>2. Ended' = Ended
          BY <4>1, <1>1 DEF Ended
      <4> QED
          BY <1>0, <4>1, <4>2
    <3> QED
        BY <1>3, <1>6, <3>1
  <2> QED
      BY <2>1, <2>2
<1>9. /\ \A d \in Turns : Holds(d)' => uses'[d] \in Tokens
      /\ \A d \in Turns : d \notin asked' => pc'[d] = "idle"
      /\ ~shut
    BY <1>1 DEF Leasing, Holds
<1>10. \A u \in Tokens : /\ Cardinality(Holders(u)') <= leases'[u]
                         /\ leases'[u] <= Cardinality((Ended \cup Holders(u))')
  <2> SUFFICES ASSUME NEW u \in Tokens, u # t
               PROVE  /\ Cardinality(Holders(u)') <= leases'[u]
                      /\ leases'[u] <= Cardinality((Ended \cup Holders(u))')
      BY <1>8
  <2>1. Holders(u)' = Holders(u) /\ leases'[u] = leases[u]
      BY <1>0, <1>3
  <2>2. (Ended \cup Holders(u))' \in {Ended \cup Holders(u), (Ended \cup {c}) \cup Holders(u)}
      BY <1>2, <2>1
  <2> QED
      BY <1>4, <1>7, <2>1, <2>2
<1> QED
    BY <1>9, <1>10 DEF Leasing, Holds

\* A call that ends without a client leaves the counts as they are.
LEMMA EndCounts ==
  ASSUME Shape, Leasing, NEW c \in Turns, ~Holds(c), pc[c] # "idle",
         UNCHANGED <<leases, shut, asked>>,
         pc' = [pc EXCEPT ![c] = "idle"], uses' = [uses EXCEPT ![c] = None]
  PROVE  Leasing'
<1> USE DEF Shape
<1>1. Ended' = Ended \cup {c}
    BY DEF Ended, Leasing
<1>2. \A u \in Tokens : Holders(u)' = Holders(u)
    BY DEF Holders, Holds, Tokens, None
<1>3. Ended \in SUBSET Turns /\ Ended \cup {c} \in SUBSET Turns
    BY DEF Ended
<1>4. \A u \in Tokens : leases[u] <= Cardinality((Ended \cup {c}) \cup Holders(u))
  <2>1. \A u \in Tokens : /\ Holders(u) \in SUBSET Turns /\ leases[u] \in Nat
                          /\ Cardinality(Holders(u)) <= leases[u]
                          /\ leases[u] <= Cardinality(Ended \cup Holders(u))
      BY DEF Leasing, Holders
  <2> QED
      BY <1>3, <2>1, Counted
<1> QED
    BY <1>1, <1>2, <1>4 DEF Leasing, Holds

\* A call that moves on within its hold, or before it, changes no count.
LEMMA MoveCounts ==
  ASSUME Shape, Leasing, NEW c \in Turns, NEW p \in Phases \ {"idle"},
         UNCHANGED <<leases, uses, shut>>, ~shut,
         pc' = [pc EXCEPT ![c] = p],
         Holds(c)' <=> Holds(c),
         \/ pc[c] # "idle" /\ UNCHANGED asked
         \/ c \notin asked /\ asked' = asked \cup {c}
  PROVE  Leasing'
<1> USE DEF Shape
<1>1. Ended' = Ended
    BY DEF Ended
<1>2. \A d \in Turns : Holds(d)' <=> Holds(d)
    BY DEF Holds
<1>3. \A u \in Tokens : Holders(u)' = Holders(u)
    BY <1>2 DEF Holders
<1> QED
    BY <1>1, <1>2, <1>3 DEF Leasing

-----------------------------------------------------------------------------
\* Every step of a call, and the end of the agent, keeps it.
LEMMA CallHolds ==
  ASSUME IInv,
         \/ \E c \in Turns : Begin(c) \/ Pooling(c) \/ Streaming(c) \/ Cancel(c)
         \/ Close
  PROVE  IInv'
<1> USE ModelAssumption DEF IInv, pool, call, store, resolving
<1> DEFINE Kept == Shape' /\ Leasing' /\ Pooled' /\ Stored'
<1>1. ASSUME NEW c \in Turns, Begin(c)
      PROVE  Kept
  <2> USE <1>1 DEF Begin, Goes, Shape, Actors
  <2>1. Shape'
      BY DEF Phases
  <2>2. Leasing'
    <3>1. ~Holds(c) /\ ~Holds(c)' /\ "ensure" \in Phases \ {"idle"}
        BY DEF Holds, Phases
    <3> QED
        BY <3>1, MoveCounts
  <2>3. Pooled' /\ Stored'
      BY DEF Pooled, Stored, Holds, Awaited, SpentOnce, LatestSignIn
  <2> QED
      BY <2>1, <2>2, <2>3
<1>2. ASSUME NEW c \in Turns, Ensure(c)
      PROVE  Kept
  <2> USE <1>2 DEF Ensure, Shape, Actors
  <2>1. CASE current # None /\ ~force[c] /\ ~Expiring(current)
    <3> USE <2>1
    <3>1. Lease(c, current) /\ current \in Tokens /\ UNCHANGED <<authLock, thread>>
        OBVIOUS
    <3>2. Leasing'
        BY <3>1, LeaseCounts
    <3>3. ~shut
        BY DEF Leasing
    <3>4. Shape' /\ Pooled' /\ Stored'
        BY <3>1, <3>3 DEF Lease, Goes, Phases, Pooled, Stored, Holds, Awaited, SpentOnce, LatestSignIn
    <3> QED
        BY <3>2, <3>4
  <2>2. CASE ~(current # None /\ ~force[c] /\ ~Expiring(current))
    <3> USE <2>2 DEF Goes, Becomes
    <3>1. Shape'
        BY DEF Phases, Stages
    <3>2. Leasing'
        BY MoveCounts DEF Phases, Holds, Leasing
    <3>3. Pooled' /\ Stored'
        BY DEF Pooled, Stored, Holds, Awaited, SpentOnce, LatestSignIn
    <3> QED
        BY <3>1, <3>2, <3>3
  <2> QED
      BY <2>1, <2>2
<1>3. ASSUME NEW c \in Turns, Resolved(c)
      PROVE  Kept
  <2> USE <1>3 DEF Resolved, Shape, Actors
  <2>1. got[c] \in Tokens /\ current <= got[c] /\ got[c] <= file /\ authLock = c
      BY DEF Pooled
  <2>2. Leasing' /\ ~shut
      BY <2>1, LeaseCounts DEF Leasing
  <2>3. Shape'
    <3>1. \A t \in Tokens : leases[t] + 1 \in Nat
        OBVIOUS
    <3>2. {current} \ {None, got[c]} \subseteq Tokens
        OBVIOUS
    <3>3. closed' \subseteq Tokens /\ retired' \subseteq Tokens
        BY <3>2
    <3>4. leases' \in [Tokens -> Nat] /\ uses' \in [Turns -> Tokens \cup {None}]
        BY <2>1, <3>1 DEF Lease
    <3>5. pc' \in [Turns -> Phases]
        BY DEF Lease, Goes, Phases
    <3>6. thread' \in [Actors -> Stages] /\ got' \in [Actors -> Tokens \cup {None}]
        BY DEF Forget, Stages
    <3> QED
        BY <2>1, <3>3, <3>4, <3>5, <3>6
  <2>4. closed' \subseteq closed \cup {current} /\ retired' \subseteq retired \cup {current}
        /\ (current \in (closed' \cup retired') \ (closed \cup retired)
              => current # got[c] /\ current # None)
        /\ (current \in closed' \ closed => leases[current] = 0 /\ current \in Tokens)
      BY DEF Leased
  <2>5. \A t \in closed' \cup retired' : t < current'
      BY <2>1, <2>2, <2>4 DEF Pooled, Tokens, None
  <2>6. \A d \in Turns : Holds(d)' => uses'[d] \notin closed'
    <3>1. current \in closed' \ closed => Holders(current) = {}
      <4>1. Holders(current) \in SUBSET Turns
          BY DEF Holders
      <4>2. IsFiniteSet(Holders(current)) /\ Cardinality(Holders(current)) \in Nat
          BY <4>1, FS_Subset, FS_CardinalityType
      <4>3. \A t \in Tokens : Cardinality(Holders(t)) <= leases[t]
          BY DEF Leasing
      <4>4. current \in closed' \ closed => Cardinality(Holders(current)) = 0
          BY <2>4, <4>2, <4>3
      <4> QED
          BY <4>2, <4>4, FS_EmptySet
    <3>2. got[c] \notin closed'
        BY <2>5, <2>1 DEF Tokens
    <3> QED
        BY <2>4, <3>1, <3>2 DEF Lease, Goes, Pooled, Holds, Holders
  <2>7. Pooled'
      BY <2>1, <2>5, <2>6 DEF Pooled, Lease, Goes, Forget, Awaited
  <2>8. Stored'
      BY DEF Stored, Lease, Goes, Forget, SpentOnce, LatestSignIn
  <2> QED
      BY <2>2, <2>3, <2>7, <2>8
<1>4. ASSUME NEW c \in Turns, ResolveFailed(c)
      PROVE  Kept
  <2> USE <1>4 DEF ResolveFailed, End, Goes, Forget, Shape, Actors
  <2>1. Shape'
      BY DEF Phases, Stages, None
  <2>2. Leasing'
      BY EndCounts DEF Holds
  <2>3. Pooled' /\ Stored'
      BY DEF Pooled, Stored, Holds, Awaited, SpentOnce, LatestSignIn
  <2> QED
      BY <2>1, <2>2, <2>3
<1>5. ASSUME NEW c \in Turns, NEW more, Attempt(c, more)
      PROVE  Kept
  <2> USE <1>5 DEF Attempt, Goes, Shape, Actors
  <2>1. Shape'
      BY DEF Phases
  <2>2. Leasing'
    <3>1. Holds(c) /\ Holds(c)' /\ "release" \in Phases \ {"idle"} /\ ~shut
        BY DEF Holds, Phases, Leasing
    <3> QED
        BY <3>1, MoveCounts
  <2>3. Pooled' /\ Stored'
      BY DEF Pooled, Stored, Holds, Awaited, SpentOnce, LatestSignIn
  <2> QED
      BY <2>1, <2>2, <2>3
<1>6. ASSUME NEW c \in Turns, Release(c)
      PROVE  Kept
  <2> USE <1>6 DEF Release, Shape, Actors
  <2> DEFINE t == uses[c]
  <2>1. t \in Tokens /\ leases[t] > 0 /\ ~shut /\ Holds(c)
    <3>1. Holds(c) /\ t \in Tokens /\ ~shut /\ c \in Holders(t) /\ c \notin Ended
        BY DEF Leasing, Holds, Holders, Ended
    <3>2. Holders(t) \in SUBSET Turns /\ Ended \in SUBSET Turns
        BY DEF Holders, Ended
    <3>3. leases[t] \in Nat /\ Cardinality(Holders(t)) <= leases[t]
          /\ leases[t] <= Cardinality(Ended \cup Holders(t))
        BY <3>1 DEF Leasing
    <3> QED
        BY <3>1, <3>2, <3>3, Counted
  <2>2. /\ leases' \in [Tokens -> Nat] /\ leases'[t] = leases[t] - 1
        /\ \A u \in Tokens : u # t => leases'[u] = leases[u]
      BY <2>1
  <2>3. /\ uses' = [uses EXCEPT ![c] = None] /\ UNCHANGED asked
        /\ \/ pc' = [pc EXCEPT ![c] = "ensure"]
           \/ pc' = [pc EXCEPT ![c] = "idle"]
      BY DEF Continue, End, Goes
  <2>4. Leasing'
      BY <2>1, <2>2, <2>3, LossCounts
  <2>5. closed' \subseteq closed \cup {t} /\ retired' \subseteq retired
        /\ (t \in closed' \ closed => leases[t] = 1 /\ t \in retired)
      BY DEF Retired
  <2>6. Shape'
      BY <2>1, <2>2, <2>3, <2>5 DEF Phases, None
  <2>7. \A d \in Turns : Holds(d)' => uses'[d] \notin closed'
    <3>1. t \in closed' \ closed => Holders(t) = {c}
      <4>1. ASSUME t \in closed' \ closed
            PROVE  Holders(t) = {c}
        <5>1. Holders(t) \in SUBSET Turns /\ c \in Holders(t)
            BY <2>1 DEF Holders
        <5>2. Cardinality(Holders(t)) <= 1 /\ IsFiniteSet(Holders(t))
            BY <4>1, <2>5, <2>1, <5>1, FS_Subset DEF Leasing
        <5>3. {c} \in SUBSET Holders(t) /\ Cardinality({c}) = 1
            BY <5>1, FS_Singleton
        <5>4. Cardinality({c}) <= Cardinality(Holders(t)) /\ Cardinality(Holders(t)) \in Nat
            BY <5>2, <5>3, FS_Subset, FS_CardinalityType
        <5>5. Cardinality(Holders(t)) = Cardinality({c})
            BY <5>2, <5>3, <5>4
        <5> QED
            BY <5>2, <5>3, <5>5, FS_Subset
      <4> QED
          BY <4>1
    <3> QED
        BY <2>3, <2>5, <3>1 DEF Pooled, Holds, Holders
  <2>8. Pooled'
      BY <2>1, <2>3, <2>5, <2>7 DEF Pooled, Awaited, Holds
  <2>9. Stored'
      BY <2>3 DEF Stored, SpentOnce, LatestSignIn
  <2> QED
      BY <2>4, <2>6, <2>8, <2>9
<1>7. ASSUME NEW c \in Turns, Cancel(c)
      PROVE  Kept
  <2> USE <1>7 DEF Cancel, Shape, Actors
  <2>1. CASE pc[c] = "stream"
    <3> USE <2>1 DEF Goes
    <3>1. Shape'
        BY DEF Phases, Stages, Forget, None
    <3>2. Leasing'
        BY MoveCounts DEF Phases, Holds, Leasing
    <3>3. Pooled' /\ Stored'
        BY DEF Pooled, Stored, Forget, Holds, Awaited, SpentOnce, LatestSignIn
    <3> QED
        BY <3>1, <3>2, <3>3
  <2>2. CASE pc[c] # "stream"
    <3> USE <2>2 DEF End, Goes
    <3>1. Shape'
        BY DEF Phases, Stages, Forget, None
    <3>2. Leasing'
      <4>1. CASE Holds(c)
          BY <4>1, LossCounts
      <4>2. CASE ~Holds(c)
          BY <4>2, EndCounts
      <4> QED
          BY <4>1, <4>2
    <3>3. Pooled'
        BY DEF Pooled, Forget, Holds, Awaited
    <3>4. Stored'
        BY DEF Stored, Forget, SpentOnce, LatestSignIn
    <3> QED
        BY <3>1, <3>2, <3>3, <3>4
  <2> QED
      BY <2>1, <2>2
<1>8. ASSUME Close
      PROVE  Kept
  <2> USE <1>8 DEF Close, Shape, Actors
  <2>1. Shape'
      BY DEF None
  <2>2. Leasing'
    <3>1. \A u \in Tokens : Holders(u)' = {}
        BY DEF Holders, Holds
    <3>2. Ended' \in SUBSET Turns /\ Ended' \cup {} = Ended'
        BY DEF Ended
    <3>3. Cardinality({}) = 0 /\ Cardinality(Ended') \in Nat
        BY <3>2, FS_EmptySet, FS_Subset, FS_CardinalityType
    <3>4. \A u \in Tokens : leases'[u] = 0 /\ (Ended \cup Holders(u))' = Ended'
        BY <3>1, <3>2
    <3>5. \A d \in Turns : pc'[d] = "idle"
        OBVIOUS
    <3>6. \A u \in Tokens : /\ Cardinality(Holders(u)') <= leases'[u]
                            /\ leases'[u] <= Cardinality((Ended \cup Holders(u))')
      <4> TAKE u \in Tokens
      <4>1. Cardinality(Holders(u)') = 0
          BY <3>1, <3>3
      <4>2. Cardinality((Ended \cup Holders(u))') = Cardinality(Ended') /\ leases'[u] = 0
          BY <3>4
      <4> QED
          BY <3>3, <4>1, <4>2
    <3> QED
        BY <3>5, <3>6 DEF Leasing, Holds
  <2>3. Pooled' /\ Stored'
      BY DEF Pooled, Stored, Holds, Awaited, SpentOnce, LatestSignIn, None, Tokens
  <2> QED
      BY <2>1, <2>2, <2>3
<1> QED
    BY <1>1, <1>2, <1>3, <1>4, <1>5, <1>6, <1>7, <1>8
    DEF Pooling, Streaming, Finish, Refused, ReplayRejected, Silence

-----------------------------------------------------------------------------
(* The theorems                                                            *)

\* No step leads out of the invariant.
THEOREM InvariantHolds == Spec => []IInv
<1>1. Init => IInv
    BY InitHolds
<1>2. IInv /\ [Next]_vars => IInv'
  <2> SUFFICES ASSUME IInv, [Next]_vars
               PROVE  IInv'
      OBVIOUS
  <2>1. CASE Next
      BY <2>1, StoreHolds, CallHolds DEF Next
  <2>2. CASE UNCHANGED vars
    <3>1. Leasing'
        BY <2>2, LeasingStays DEF IInv, vars, store, pool, call, resolving
    <3>2. Shape' /\ Pooled' /\ Stored'
        BY <2>2 DEF vars, store, pool, call, resolving, IInv, Shape, Pooled,
                    Stored, Holds, Awaited, SpentOnce, LatestSignIn
    <3> QED
        BY <3>1, <3>2 DEF IInv
  <2> QED
      BY <2>1, <2>2
<1> QED
    BY <1>1, <1>2, PTL DEF Spec

\* The types: no client has more leases than there are turns, although a
\* cancelled release leaves its lease behind.
THEOREM TypeCorrect == Spec => []TypeOK
<1>1. IInv => TypeOK
  <2> SUFFICES ASSUME IInv
               PROVE  TypeOK
      OBVIOUS
  <2>1. ASSUME NEW t \in Tokens
        PROVE  leases[t] \in 0 .. Cardinality(Turns)
    <3>1. Ended \cup Holders(t) \in SUBSET Turns
        BY DEF Ended, Holders
    <3>2. Cardinality(Ended \cup Holders(t)) <= Cardinality(Turns)
        BY <3>1, ModelAssumption, FS_Subset
    <3>3. Cardinality(Ended \cup Holders(t)) \in Nat /\ Cardinality(Turns) \in Nat
        BY <3>1, ModelAssumption, FS_Subset, FS_CardinalityType
    <3> QED
        BY <3>2, <3>3 DEF IInv, Shape, Leasing
  <2> QED
      BY <2>1 DEF IInv, Shape, TypeOK
<1> QED
    BY <1>1, InvariantHolds, PTL

\* A refresh by one turn, a sign-in, an expiring token or a cancelled release
\* never closes the client that another turn is streaming with.
THEOREM StreamsStayOpen == Spec => []LeasedIsOpen
<1>1. IInv => LeasedIsOpen
    BY DEF IInv, Pooled, Holds, LeasedIsOpen
<1> QED
    BY <1>1, InvariantHolds, PTL

\* However many turns and processes find the access token stale at once, and
\* whichever of them dies or is cancelled, a refresh token is presented again
\* only where the answer to the first time got lost; and the file holds the
\* latest sign-in.
THEOREM SignInIsKept == Spec => []SignInKept
<1>1. IInv => SpentOnce /\ LatestSignIn
    BY DEF IInv, Stored
<1> QED
    BY <1>1, InvariantHolds, TypeCorrect, PTL DEF SignInKept
=============================================================================
