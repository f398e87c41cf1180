------------------------- MODULE RequestQueueProofs -------------------------
(***************************************************************************)
(* Proofs about RequestQueue, for any number of requests, wake tasks and    *)
(* slots and any limits: nothing a request can hold is lost or held twice,  *)
(* whoever is cancelled at which await.                                     *)
(*                                                                         *)
(* The argument is about places.  The entry of a request is in one place at *)
(* a time, the queue or the hand of one wake, and in none once its channel  *)
(* has been answered, so a dropped wake closes no channel that holds a      *)
(* permit.  A wake gives an entry back only when its request has ended, and *)
(* a request that has ended never waits again.  Only a task of              *)
(* notify_all_queues runs without a budget, and nothing cancels a task.     *)
(***************************************************************************)
EXTENDS RequestQueue, FiniteSetTheorems, FunctionTheorems, TLAPS

\* The entries of a queue, and that none is there twice.
Elems(q) == {q[i] : i \in 1..Len(q)}
Once(q) == \A i, j \in 1..Len(q) : q[i] = q[j] => i = j

----------------------------------------------------------------------------
(* Queues.                                                                 *)

LEMMA RankGrows ==
    ASSUME NEW I \in SUBSET Nat, IsFiniteSet(I), NEW i \in I, NEW j \in I, i < j
    PROVE  Rank(I, i) < Rank(I, j)
  <1> DEFINE A == {k \in I : k <= i}
             B == {k \in I : k <= j}
  <1>1. IsFiniteSet(A) /\ IsFiniteSet(B)
    BY FS_Subset
  <1>2. A \in SUBSET B /\ j \in B /\ j \notin A
    <2>1. \A k \in I : k \in Nat
      OBVIOUS
    <2>2. i \in Nat /\ j \in Nat
      OBVIOUS
    <2>3. \A k \in I : k <= i => k <= j
      BY <2>1, <2>2
    <2>4. j <= j /\ ~(j <= i)
      BY <2>2
    <2>5. \A k \in A : k \in B
      BY <2>3
    <2> QED BY <2>4, <2>5
  <1>3. Cardinality(A) <= Cardinality(B) /\ (Cardinality(B) = Cardinality(A) => A = B)
    BY <1>1, <1>2, FS_Subset
  <1>4. Cardinality(A) \in Nat /\ Cardinality(B) \in Nat
    BY <1>1, FS_CardinalityType
  <1> QED BY <1>2, <1>3, <1>4 DEF Rank

LEMMA RankInRange ==
    ASSUME NEW I \in SUBSET Nat, IsFiniteSet(I), NEW i \in I
    PROVE  Rank(I, i) \in 1..Cardinality(I)
  <1> DEFINE A == {k \in I : k <= i}
  <1>1. A \in SUBSET I /\ i \in A
    OBVIOUS
  <1>2. IsFiniteSet(A) /\ Cardinality(A) <= Cardinality(I)
    BY <1>1, FS_Subset
  <1>3. Cardinality(A) \in Nat /\ Cardinality(A) # 0 /\ Cardinality(I) \in Nat
    BY <1>1, <1>2, FS_CardinalityType, FS_EmptySet
  <1> QED BY <1>2, <1>3 DEF Rank

\* Ranks number the kept places from one on without a gap.
LEMMA RankOnto ==
    ASSUME NEW I \in SUBSET Nat, IsFiniteSet(I)
    PROVE  \A j \in 1..Cardinality(I) : \E i \in I : Rank(I, i) = j
  <1> DEFINE n == Cardinality(I)
             f == [i \in I |-> Rank(I, i)]
  <1>1. n \in Nat /\ IsFiniteSet(1..n) /\ Cardinality(1..n) = n
    BY FS_CardinalityType, FS_Interval
  <1>2. f \in Injection(I, 1..n)
    <2>1. f \in [I -> 1..n]
      BY RankInRange
    <2>2. \A a, b \in I : f[a] = f[b] => a = b
      <3> SUFFICES ASSUME NEW a \in I, NEW b \in I, a # b
                   PROVE  Rank(I, a) # Rank(I, b)
          OBVIOUS
      <3>1. Rank(I, a) \in Int /\ Rank(I, b) \in Int
        BY RankInRange
      <3>2. a < b \/ b < a
        OBVIOUS
      <3> QED BY <3>1, <3>2, RankGrows
    <2> QED BY <2>1, <2>2 DEF Injection, IsInjective
  <1>3. f \in Surjection(I, 1..n)
    <2> HIDE DEF f, n
    <2> QED BY <1>1, <1>2, FS_Injection, Zenon DEF n
  <1> QED BY <1>3, Zenon DEF Surjection

LEMMA FunctionIsSeq ==
    ASSUME NEW T, NEW n \in Nat, NEW p \in [1..n -> T]
    PROVE  p \in Seq(T) /\ Len(p) = n
  OBVIOUS

\* retain keeps the entries it should, each once, and makes no queue longer.
LEMMA RetainKeeps ==
    ASSUME NEW T, NEW q \in Seq(T), NEW S
    PROVE  /\ Retain(q, S) \in Seq(T)
           /\ Len(Retain(q, S)) <= Len(q)
           /\ Elems(Retain(q, S)) = Elems(q) \cap S
           /\ Once(q) => Once(Retain(q, S))
  <1> DEFINE I == {i \in 1..Len(q) : q[i] \in S}
             n == Cardinality(I)
             at(j) == CHOOSE i \in I : Rank(I, i) = j
             p == [j \in 1..n |-> q[at(j)]]
  <1>1. /\ I \in SUBSET Nat /\ IsFiniteSet(I) /\ n \in Nat /\ n <= Len(q)
    <2>0. Len(q) \in Nat
      OBVIOUS
    <2>1. IsFiniteSet(1..Len(q)) /\ Cardinality(1..Len(q)) = Len(q)
      <3> DEFINE l == Len(q)
      <3> HIDE DEF l
      <3>1. l \in Nat
        BY <2>0 DEF l
      <3>2. IsFiniteSet(1..l) /\ Cardinality(1..l) = l
        BY <3>1, FS_Interval
      <3> QED BY <3>2 DEF l
    <2>2. I \in SUBSET (1..Len(q))
      OBVIOUS
    <2> QED BY <2>1, <2>2, FS_Subset, FS_CardinalityType
  <1>2. \A j \in 1..n : at(j) \in I /\ Rank(I, at(j)) = j
    BY <1>1, RankOnto
  <1>3. \A i \in I : Rank(I, i) \in 1..n /\ at(Rank(I, i)) = i
    <2> SUFFICES ASSUME NEW i \in I
                 PROVE  Rank(I, i) \in 1..n /\ at(Rank(I, i)) = i
        OBVIOUS
    <2>1. Rank(I, i) \in 1..n
      BY <1>1, RankInRange
    <2> DEFINE k == at(Rank(I, i))
    <2>2. k \in I /\ Rank(I, k) = Rank(I, i)
      BY <1>2, <2>1
    <2>3. i \in Nat /\ k \in Nat /\ Rank(I, i) \in Int
      BY <1>1, <2>1, <2>2
    <2>4. ~(i < k) /\ ~(k < i)
      BY <1>1, <2>2, <2>3, RankGrows
    <2> QED BY <2>1, <2>3, <2>4
  <1>4. Retain(q, S) = p
    BY DEF Retain
  <1> HIDE DEF at, n
  <1>5. p \in Seq(T) /\ Len(p) = n
    <2>0. \A i \in I : q[i] \in T
      OBVIOUS
    <2>1. \A j \in 1..n : q[at(j)] \in T
      BY <1>2, <2>0
    <2>2. p \in [1..n -> T]
      BY <2>1
    <2> HIDE DEF p
    <2> QED BY <1>1, <2>2, FunctionIsSeq
  <1>6. Elems(p) = Elems(q) \cap S
    <2>1. ASSUME NEW x \in Elems(p) PROVE x \in Elems(q) \cap S
      BY <1>2, <1>5 DEF Elems
    <2>2. ASSUME NEW x \in Elems(q) \cap S PROVE x \in Elems(p)
      <3>1. PICK i \in I : x = q[i]
        BY DEF Elems
      <3>2. p[Rank(I, i)] = x /\ Rank(I, i) \in 1..Len(p)
        BY <1>3, <1>5, <3>1
      <3> QED BY <3>2 DEF Elems
    <2> QED BY <2>1, <2>2
  <1>7. ASSUME Once(q) PROVE Once(p)
    <2> SUFFICES ASSUME NEW a \in 1..n, NEW b \in 1..n, q[at(a)] = q[at(b)]
                 PROVE  a = b
      BY <1>5 DEF Once
    <2>1. at(a) \in I /\ at(b) \in I /\ Rank(I, at(a)) = a /\ Rank(I, at(b)) = b
      BY <1>2, Zenon
    <2>2. at(a) = at(b)
      BY <1>7, <2>1 DEF Once
    <2> QED BY <2>1, <2>2
  <1> QED BY <1>1, <1>4, <1>5, <1>6, <1>7

\* Popping the front entry and appending one.
LEMMA PopTakes ==
    ASSUME NEW T, NEW q \in Seq(T), q # << >>, Once(q)
    PROVE  /\ Head(q) \in T /\ Tail(q) \in Seq(T) /\ Len(Tail(q)) <= Len(q)
           /\ Once(Tail(q)) /\ Head(q) \in Elems(q)
           /\ Elems(Tail(q)) = Elems(q) \ {Head(q)}
  <1>1. /\ Head(q) = q[1] /\ Tail(q) \in Seq(T) /\ Len(q) \in Nat /\ Len(q) >= 1
        /\ Len(Tail(q)) = Len(q) - 1
        /\ \A i \in 1..(Len(q) - 1) : Tail(q)[i] = q[i + 1]
    OBVIOUS
  <1>2. Head(q) \in T /\ Head(q) \in Elems(q)
    BY <1>1 DEF Elems
  <1>3. Once(Tail(q))
    BY <1>1 DEF Once
  <1>4. Elems(Tail(q)) = Elems(q) \ {Head(q)}
    <2>1. ASSUME NEW x \in Elems(Tail(q)) PROVE x \in Elems(q) /\ x # q[1]
      <3>1. PICK i \in 1..(Len(q) - 1) : x = q[i + 1]
        BY <1>1 DEF Elems
      <3>2. i + 1 \in 1..Len(q) /\ 1 \in 1..Len(q) /\ i + 1 # 1
        BY <1>1
      <3> QED BY <3>1, <3>2 DEF Elems, Once
    <2>2. ASSUME NEW x \in Elems(q), x # q[1] PROVE x \in Elems(Tail(q))
      <3>1. PICK i \in 1..Len(q) : x = q[i]
        BY DEF Elems
      <3>2. i - 1 \in 1..(Len(q) - 1) /\ (i - 1) + 1 = i
        BY <1>1, <2>2, <3>1
      <3>3. Tail(q)[i - 1] = x
        BY <1>1, <3>1, <3>2
      <3> QED BY <1>1, <3>2, <3>3 DEF Elems
    <2> QED BY <1>1, <2>1, <2>2
  <1> QED BY <1>1, <1>2, <1>3, <1>4

LEMMA AppendAdds ==
    ASSUME NEW T, NEW q \in Seq(T), NEW x \in T
    PROVE  /\ Append(q, x) \in Seq(T) /\ Len(Append(q, x)) = Len(q) + 1
           /\ Elems(Append(q, x)) = Elems(q) \cup {x}
           /\ Once(q) /\ x \notin Elems(q) => Once(Append(q, x))
  <1>1. /\ Append(q, x) \in Seq(T) /\ Len(Append(q, x)) = Len(q) + 1 /\ Len(q) \in Nat
        /\ \A i \in 1..Len(q) : Append(q, x)[i] = q[i]
        /\ Append(q, x)[Len(q) + 1] = x
    OBVIOUS
  <1>2. Elems(Append(q, x)) = Elems(q) \cup {x}
    BY <1>1 DEF Elems
  <1>3. Once(q) /\ x \notin Elems(q) => Once(Append(q, x))
    BY <1>1 DEF Once, Elems
  <1> QED BY <1>1, <1>2, <1>3

----------------------------------------------------------------------------
(* The invariant.                                                          *)

Ended == {"expired", "done"}

\* A channel is in use only while its receiver exists.
Channels == \A r \in Requests : chan[r] # "idle" => RxAlive(r)

\* A wake holds an entry between its pop and its answer; it gives one back only when the
\* request has ended.  A request wakes others only at its two wake awaits, and only the
\* spawned tasks run notify_all_queues (budget 0).
Wakes ==
    /\ \A c \in Callers : hand[c] # NoOne <=> stage[c] \in {"promote", "release"}
    /\ \A c \in Callers : stage[c] = "release" => pc[hand[c]] \in Ended
    /\ \A r \in Requests : stage[r] # "idle" =>
                              pc[r] \in {"nudging", "rechecking"} /\ budget[r] # 0
    /\ stage[Maintenance] # "idle" => budget[Maintenance] # 0

\* The entry of a request is in the queue or in one hand, and in neither once its
\* channel is answered or when it has not queued.
OnePlace ==
    /\ Once(queue)
    /\ \A c \in Callers : hand[c] \notin Queued
    /\ \A c, d \in Callers : hand[c] # NoOne /\ hand[c] = hand[d] => c = d
    /\ \A r \in Requests :
          RxAlive(r) \/ pc[r] \in Ended \/ (r \notin Queued /\ r \notin InHand)
    /\ \A r \in Requests :
          chan[r] \in {"permit", "closed"} => r \notin Queued /\ r \notin InHand

\* Only the guard of a dropped request removes an entry later.
Drops == \A r \in entry_drops : pc[r] = "done"

Places == Channels /\ Wakes /\ OnePlace /\ Drops /\ SleepersAreReachable

\* An instance is retired only when it serves nobody.
Gone == inst = "gone" => in_flight = 0

IInv == QueueIsConsistent /\ Places /\ Gone

----------------------------------------------------------------------------
(* Steps that move no entry.                                               *)

\* Where a request is that neither waits nor wakes others nor has ended.
Walking == {"new", "top", "fair", "nudge", "again", "again_pending", "lock", "held",
            "blocked", "yield", "enqueue", "acquired", "running"}

Move(r) ==
    /\ \E label \in Walking \cup {"done"} : Goto(r, label)
    /\ pc[r] \in Walking
    /\ ReleaseToken(r) \/ UNCHANGED <<token, pending>>
    /\ UNCHANGED <<chan, queue, wakers, drops, draining, limit>>

Walks(r) ==
    \/ Arrive(r) \/ Top(r) \/ FairnessPending(r) \/ StillWaiters(r) \/ TakeMapLock(r)
    \/ SecondAdopt(r) \/ UnderMapLock(r) \/ Blocked(r) \/ Acquired(r) \/ Finish(r)

LEMMA WalksMove ==
    ASSUME TypeOK, NEW r \in Requests, Walks(r)
    PROVE  Move(r)
  <1>1. CASE Arrive(r)
    BY <1>1 DEF Arrive, Move, Goto, Walking, waiting, wakers, drops, node
  <1>2. ASSUME FailRemoved(r), pc[r] \in Walking PROVE Move(r)
    BY <1>2 DEF FailRemoved, Move, Goto, Walking, wakers, drops, node
  <1>3. CASE Top(r)
    <2>1. CASE FailRemoved(r)
      BY <1>2, <1>3, <2>1 DEF Top, Walking
    <2>2. CASE LeaveAtTop(r)
      BY <1>3, <2>2 DEF Top, LeaveAtTop, Move, Goto, Walking, wakers, drops, node
    <2>3. CASE FairnessCheck(r)
      <3>1. \E label \in Walking : Goto(r, label)
        BY <2>3 DEF FairnessCheck, Walking
      <3> QED BY <1>3, <2>3, <3>1
              DEF Top, FairnessCheck, Move, Walking, waiting, wakers, drops, node
    <2> QED BY <1>3, <2>1, <2>2, <2>3 DEF Top
  <1>4. CASE FairnessPending(r)
    <2>1. \E label \in Walking : Goto(r, label)
      BY <1>4 DEF FairnessPending, Walking
    <2> QED BY <1>4, <2>1 DEF FairnessPending, Move, Walking, waiting, wakers, drops, node
  <1>5. CASE StillWaiters(r)
    <2>1. \E label \in Walking : Goto(r, label)
      BY <1>5 DEF StillWaiters, Walking
    <2> QED BY <1>5, <2>1 DEF StillWaiters, Move, Walking, waiting, wakers, drops, node
  <1>6. ASSUME PickInstance(r) PROVE \E label \in Walking : Goto(r, label)
    BY <1>6 DEF PickInstance, Walking
  <1>7. CASE TakeMapLock(r)
    <2>1. \E label \in Walking : Goto(r, label)
      BY <1>6, <1>7 DEF TakeMapLock, Walking
    <2> QED BY <1>7, <2>1 DEF TakeMapLock, Move, Walking, waiting, wakers, drops, node
  <1>8. CASE SecondAdopt(r)
    BY <1>2, <1>8 DEF SecondAdopt, Walking
  <1>9. CASE UnderMapLock(r)
    <2>1. \E label \in Walking : Goto(r, label)
      BY <1>6, <1>9 DEF UnderMapLock, Walking
    <2> QED BY <1>9, <2>1 DEF UnderMapLock, Move, Walking, waiting, wakers, drops, node
  <1>10. CASE Blocked(r)
    BY <1>10 DEF Blocked, Move, Goto, Walking, wakers, drops, node
  <1>11. CASE Acquired(r)
    BY <1>11 DEF Acquired, Move, Goto, Walking, wakers, drops, node
  <1>12. CASE Finish(r)
    BY <1>12 DEF Finish, Move, Goto, Walking, waiting, wakers, drops, node
  <1> QED BY <1>1, <1>3, <1>4, <1>5, <1>7, <1>8, <1>9, <1>10, <1>11, <1>12 DEF Walks

----------------------------------------------------------------------------
(* Where entries are.                                                      *)

LEMMA PlacesQuiet ==
    ASSUME Places, UNCHANGED <<pc, chan, queue, stage, hand, budget, entry_drops>>
    PROVE  Places'
  <1>1. Queued' = Queued /\ InHand' = InHand /\ Once(queue)' = Once(queue)
    BY DEF Queued, InHand, Once
  <1>2. \A x \in Requests : RxAlive(x)' <=> RxAlive(x)
    BY DEF RxAlive
  <1>3. Channels' /\ Drops' /\ SleepersAreReachable'
    BY <1>1, <1>2 DEF Places, Channels, Drops, SleepersAreReachable
  <1>4. Wakes' /\ OnePlace'
    BY <1>1, <1>2 DEF Places, Wakes, OnePlace
  <1> QED BY <1>3, <1>4 DEF Places

\* A wake starts, or ends, with no entry in its hand.
LEMMA PlacesWake ==
    ASSUME TypeOK, Places, NEW c \in Callers, stage[c] \in {"idle", "pop"},
           NEW s \in {"idle", "pop"}, NEW b,
           stage' = [stage EXCEPT ![c] = s], budget' = [budget EXCEPT ![c] = b],
           s # "idle" /\ c \in Requests =>
               pc[c] \in {"nudging", "rechecking"} /\ b # 0,
           s # "idle" /\ c = Maintenance => b # 0,
           UNCHANGED <<pc, chan, queue, hand, entry_drops>>
    PROVE  Places'
  <1>1. /\ Queued' = Queued /\ InHand' = InHand /\ Once(queue)' = Once(queue)
        /\ \A x \in Requests : RxAlive(x)' <=> RxAlive(x)
    BY DEF Queued, InHand, Once, RxAlive
  <1>2. Wakes'
    <2>1. /\ stage'[c] = s /\ budget'[c] = b
          /\ \A d \in Callers \ {c} : stage'[d] = stage[d] /\ budget'[d] = budget[d]
      BY DEF TypeOK
    <2>2. hand[c] = NoOne
      BY DEF Places, Wakes
    <2>3. \A d \in Callers : hand'[d] # NoOne <=> stage'[d] \in {"promote", "release"}
      BY <2>1, <2>2 DEF Places, Wakes
    <2>4. \A d \in Callers : stage'[d] = "release" => pc'[hand'[d]] \in Ended
      BY <2>1 DEF Places, Wakes
    <2>5. \A r \in Requests : stage'[r] # "idle" =>
                               pc'[r] \in {"nudging", "rechecking"} /\ budget'[r] # 0
      BY <2>1 DEF Places, Wakes, Callers
    <2>6. stage'[Maintenance] # "idle" => budget'[Maintenance] # 0
      BY <2>1 DEF Places, Wakes, Callers
    <2> QED BY <2>3, <2>4, <2>5, <2>6 DEF Wakes
  <1>3. Channels' /\ OnePlace' /\ Drops' /\ SleepersAreReachable'
    BY <1>1 DEF Places, Channels, OnePlace, Drops, SleepersAreReachable
  <1> QED BY <1>2, <1>3 DEF Places

\* A request that goes on alive, or that ends: only the label of a living request moves.
LEMMA PlacesRelabel ==
    ASSUME TypeOK, Places, NEW r \in Requests, NEW label \in PCs,
           Goto(r, label), stage[r] = "idle", pc[r] \notin Ended,
           \/ label \in {"recheck", "rechecking", "wait"} /\ RxAlive(r)
           \/ label \notin {"recheck", "rechecking", "wait"} /\ ~RxAlive(r),
           UNCHANGED <<chan, queue, stage, hand, budget, entry_drops>>
    PROVE  Places'
  <1>1. Queued' = Queued /\ InHand' = InHand /\ Once(queue)' = Once(queue)
    BY DEF Queued, InHand, Once
  <1>2. \A x \in Requests : RxAlive(x)' <=> RxAlive(x)
    BY DEF TypeOK, RxAlive, Goto
  <1>3. \A x \in Requests \ {r} : pc'[x] = pc[x]
    BY DEF TypeOK, Goto
  <1>4. Wakes'
    <2>1. \A c \in Callers : stage[c] = "release" => hand[c] \in Requests \ {r}
      BY DEF Places, Wakes, TypeOK
    <2> QED BY <1>3, <2>1 DEF Places, Wakes
  <1>5. OnePlace'
    BY <1>1, <1>2, <1>3 DEF Places, OnePlace
  <1>6. Drops'
    BY <1>3 DEF Places, Drops, TypeOK, Ended
  <1>7. Channels' /\ SleepersAreReachable'
    BY <1>1, <1>2 DEF Places, Channels, SleepersAreReachable
  <1> QED BY <1>4, <1>5, <1>6, <1>7 DEF Places

LEMMA PlacesMove ==
    ASSUME TypeOK, Places, NEW r \in Requests, Move(r)
    PROVE  Places'
  <1>1. PICK label \in Walking \cup {"done"} : Goto(r, label)
    BY DEF Move
  <1>2. /\ label \in PCs /\ label \notin {"recheck", "rechecking", "wait"}
        /\ ~RxAlive(r) /\ pc[r] \notin Ended /\ pc[r] \notin {"nudging", "rechecking"}
    BY DEF Move, Walking, PCs, RxAlive, Ended
  <1>3. stage[r] = "idle"
    BY <1>2 DEF Places, Wakes
  <1> QED BY <1>1, <1>2, <1>3, PlacesRelabel DEF Move, wakers, drops

LEMMA PlacesWakeReturns ==
    ASSUME TypeOK, Places, NEW r \in Requests, WakeReturns(r)
    PROVE  Places'
  <1>1. CASE pc[r] = "nudging"
    <2>1. Goto(r, "again")
      BY <1>1 DEF WakeReturns
    <2> QED BY <1>1, <2>1, PlacesRelabel
            DEF WakeReturns, waiting, wakers, drops, RxAlive, Ended, PCs
  <1>2. CASE pc[r] = "rechecking"
    <2>1. Goto(r, "wait")
      BY <1>2 DEF WakeReturns
    <2> QED BY <1>2, <2>1, PlacesRelabel
            DEF WakeReturns, waiting, wakers, drops, RxAlive, Ended, PCs
  <1> QED BY <1>1, <1>2 DEF WakeReturns

LEMMA PlacesWakeForSlots ==
    ASSUME TypeOK, Places, NEW r \in Requests, WakeForSlots(r)
    PROVE  Places'
  <1>1. /\ chan' = chan /\ queue' = queue /\ hand' = hand /\ entry_drops' = entry_drops
        /\ pc[r] \in {"nudge", "recheck"}
    BY DEF WakeForSlots, waiting, drops
  <1>2. PICK label \in {"nudging", "rechecking"} :
            pc' = [pc EXCEPT ![r] = label] /\ (label = "nudging" <=> pc[r] = "nudge")
    BY Zenon DEF WakeForSlots, Goto
  <1>3. Queued' = Queued /\ InHand' = InHand /\ Once(queue)' = Once(queue)
    BY <1>1 DEF Queued, InHand, Once
  <1>4. \A x \in Requests : RxAlive(x)' <=> RxAlive(x)
    BY <1>1, <1>2 DEF TypeOK, RxAlive
  <1>5. pc'[r] = label /\ \A x \in Requests \ {r} : pc'[x] = pc[x]
    BY <1>2 DEF TypeOK
  <1>6. Wakes'
    <2>1. stage[r] = "idle" /\ hand[r] = NoOne
      BY <1>1 DEF Places, Wakes, Callers
    <2>2. \/ /\ stage' = [stage EXCEPT ![r] = "pop"]
             /\ \E b : b # 0 /\ budget' = [budget EXCEPT ![r] = b]
          \/ UNCHANGED <<stage, budget>>
      <3> DEFINE n == WakeBudget + (IF pc[r] = "recheck" /\ inst = "gone" THEN 1 ELSE 0)
      <3>1. IF n > 0 THEN StartWake(r, n) ELSE UNCHANGED <<stage, budget>>
        BY DEF WakeForSlots
      <3> HIDE DEF n
      <3>2. n > 0 => n # 0
        OBVIOUS
      <3> QED BY <3>1, <3>2 DEF StartWake
    <2>3. /\ \A d \in Callers \ {r} : stage'[d] = stage[d] /\ budget'[d] = budget[d]
          /\ stage'[r] \in {"idle", "pop"} /\ (stage'[r] # "idle" => budget'[r] # 0)
      BY <2>1, <2>2 DEF TypeOK, Callers
    <2>4. \A d \in Callers : hand'[d] # NoOne <=> stage'[d] \in {"promote", "release"}
      BY <1>1, <2>1, <2>3 DEF Places, Wakes
    <2>5. \A d \in Callers : stage'[d] = "release" => pc'[hand'[d]] \in Ended
      <3> SUFFICES ASSUME NEW d \in Callers, stage'[d] = "release"
                   PROVE  pc'[hand[d]] \in Ended
        BY <1>1
      <3>1. stage[d] = "release"
        BY <2>3
      <3>2. hand[d] \in Requests /\ pc[hand[d]] \in Ended
        BY <3>1 DEF Places, Wakes, TypeOK
      <3>3. hand[d] # r
        BY <1>1, <3>2 DEF Ended
      <3> QED BY <1>5, <3>2, <3>3
    <2>6. \A x \in Requests : stage'[x] # "idle" =>
                               pc'[x] \in {"nudging", "rechecking"} /\ budget'[x] # 0
      BY <1>5, <2>3 DEF Places, Wakes, Callers
    <2>7. stage'[Maintenance] # "idle" => budget'[Maintenance] # 0
      BY <2>3, RequestsAssumption DEF Places, Wakes, Callers
    <2> QED BY <2>4, <2>5, <2>6, <2>7 DEF Wakes
  <1>7. OnePlace'
    BY <1>1, <1>3, <1>4, <1>5 DEF Places, OnePlace, Ended, RxAlive
  <1>8. Drops'
    BY <1>1, <1>5 DEF Places, Drops, TypeOK
  <1>9. Channels' /\ SleepersAreReachable'
    BY <1>1, <1>3, <1>4 DEF Places, Channels, SleepersAreReachable
  <1> QED BY <1>6, <1>7, <1>8, <1>9 DEF Places

\* A request stops waiting: it has its permit, or it gives up.
LEMMA PlacesStopWaiting ==
    ASSUME TypeOK, Places, NEW r \in Requests, pc[r] = "wait",
           NEW label \in {"top", "expired"}, label = "top" => chan[r] = "permit",
           Goto(r, label), chan' = [chan EXCEPT ![r] = "idle"],
           UNCHANGED <<queue, stage, hand, budget, entry_drops>>
    PROVE  Places'
  <1>1. Queued' = Queued /\ InHand' = InHand /\ Once(queue)' = Once(queue)
    BY DEF Queued, InHand, Once
  <1>2. /\ pc'[r] = label /\ chan'[r] = "idle"
        /\ \A x \in Requests \ {r} : pc'[x] = pc[x] /\ chan'[x] = chan[x]
    BY DEF TypeOK, Goto
  <1>3. ~RxAlive(r)' /\ \A x \in Requests \ {r} : RxAlive(x)' <=> RxAlive(x)
    BY <1>2 DEF RxAlive
  <1>4. Wakes'
    <2>1. \A c \in Callers : stage[c] = "release" => hand[c] \in Requests \ {r}
      BY DEF Places, Wakes, TypeOK, Ended
    <2>2. stage[r] = "idle"
      BY DEF Places, Wakes
    <2> QED BY <1>2, <2>1, <2>2 DEF Places, Wakes
  <1>5. OnePlace'
    <2>1. label = "expired" \/ (r \notin Queued /\ r \notin InHand)
      BY DEF Places, OnePlace
    <2> QED BY <1>1, <1>2, <1>3, <2>1 DEF Places, OnePlace, Ended
  <1>6. Drops'
    BY <1>2 DEF Places, Drops, TypeOK
  <1>7. Channels' /\ SleepersAreReachable'
    BY <1>1, <1>2, <1>3 DEF Places, Channels, SleepersAreReachable
  <1> QED BY <1>4, <1>5, <1>6, <1>7 DEF Places

\* The entry of a request that has ended is removed, by itself or by its guard.
LEMMA PlacesRemove ==
    ASSUME TypeOK, Places, NEW r \in Requests, pc[r] \in Ended,
           queue' = Without(queue, r), pc' = pc \/ Goto(r, "done"),
           entry_drops' \in SUBSET entry_drops,
           UNCHANGED <<chan, stage, hand, budget>>
    PROVE  Places'
  <1>1. Queued' = Queued \cap (Requests \ {r}) /\ Once(queue)' /\ InHand' = InHand
    <2>1. queue \in Seq(Requests) /\ Once(queue)
      BY DEF TypeOK, Places, OnePlace
    <2>2. /\ Elems(queue') = Elems(queue) \cap (Requests \ {r}) /\ Once(queue')
      BY <2>1, RetainKeeps DEF Without
    <2>3. Queued = Elems(queue) /\ Queued' = Elems(queue') /\ InHand' = InHand
      BY DEF Queued, Elems, InHand
    <2>4. Once(queue)' <=> Once(queue')
      BY DEF Once
    <2> QED BY <2>2, <2>3, <2>4
  <1>2. /\ pc'[r] \in Ended /\ (pc[r] = "done" => pc'[r] = "done")
        /\ \A x \in Requests \ {r} : pc'[x] = pc[x]
    BY DEF TypeOK, Goto, Ended
  <1>3. ~RxAlive(r) /\ \A x \in Requests : RxAlive(x)' <=> RxAlive(x)
    BY <1>2 DEF RxAlive, Ended
  <1>4. Wakes'
    <2>1. \A c \in Callers : stage[c] = "release" => pc'[hand[c]] \in Ended
      <3> SUFFICES ASSUME NEW c \in Callers, stage[c] = "release"
                   PROVE  pc'[hand[c]] \in Ended
        OBVIOUS
      <3>1. hand[c] \in Requests /\ pc[hand[c]] \in Ended
        BY DEF Places, Wakes, TypeOK
      <3> QED BY <1>2, <3>1
    <2>2. stage[r] = "idle"
      BY DEF Places, Wakes, Ended
    <2> QED BY <1>2, <2>1, <2>2 DEF Places, Wakes
  <1>5. OnePlace'
    BY <1>1, <1>2, <1>3 DEF Places, OnePlace
  <1>6. Drops'
    BY <1>2 DEF Places, Drops, TypeOK
  <1>7. Channels' /\ SleepersAreReachable'
    BY <1>1, <1>3 DEF Places, Channels, SleepersAreReachable
  <1> QED BY <1>4, <1>5, <1>6, <1>7 DEF Places

\* What the prune in front of a push leaves: every living entry, and nothing twice.
LEMMA LiveKeeps ==
    ASSUME TypeOK, Places
    PROVE  /\ Live(queue) \in Seq(Requests) /\ Len(Live(queue)) <= Len(queue)
           /\ Elems(Live(queue)) = {x \in Queued : RxAlive(x)}
           /\ Once(Live(queue))
  <1>1. queue \in Seq(Requests) /\ Once(queue)
    BY DEF TypeOK, Places, OnePlace
  <1>2. Elems(queue) = Queued /\ Queued \in SUBSET Requests
    BY <1>1 DEF Elems, Queued
  <1> DEFINE S == {e \in Requests : RxAlive(e)}
  <1>3. Queued \cap S = {x \in Queued : RxAlive(x)}
    BY <1>2
  <1> HIDE DEF S
  <1>4. /\ Retain(queue, S) \in Seq(Requests) /\ Len(Retain(queue, S)) <= Len(queue)
        /\ Elems(Retain(queue, S)) = Elems(queue) \cap S
        /\ Once(Retain(queue, S))
    BY <1>1, RetainKeeps
  <1>5. Live(queue) = Retain(queue, S)
    BY DEF Live, S
  <1> QED BY <1>2, <1>3, <1>4, <1>5

LEMMA PlacesEnqueue ==
    ASSUME TypeOK, Places, NEW r \in Requests, Enqueue(r)
    PROVE  Places'
  <1>1. /\ stage' = stage /\ hand' = hand /\ budget' = budget
        /\ entry_drops' = entry_drops /\ pc[r] \in {"yield", "enqueue"}
    BY DEF Enqueue, wakers, drops
  <1>2. /\ ~RxAlive(r) /\ pc[r] \notin Ended /\ stage[r] = "idle"
        /\ r \notin Queued /\ r \notin InHand /\ r \notin entry_drops
        /\ chan[r] = "idle"
    BY <1>1 DEF RxAlive, Ended, Places, Wakes, OnePlace, Drops, Channels
  <1>3. PICK label \in {"wait", "recheck", "done"} :
            pc' = [pc EXCEPT ![r] = label] /\ (label = "done" <=> ~MayEnqueue)
    BY DEF Enqueue, Goto
  <1>4. pc'[r] = label /\ \A x \in Requests \ {r} : pc'[x] = pc[x]
    BY <1>3 DEF TypeOK
  <1>5. /\ RxAlive(r)' <=> label # "done"
        /\ \A x \in Requests \ {r} : RxAlive(x)' <=> RxAlive(x)
    BY <1>4 DEF RxAlive
  <1>6. /\ InHand' = InHand
        /\ Once(queue')
        /\ \A x \in Requests \ {r} : x \in Queued' => x \in Queued
        /\ \A x \in Requests \ {r} : x \in Queued /\ RxAlive(x) => x \in Queued'
        /\ r \in Queued' <=> label # "done"
        /\ Queued' \in SUBSET Requests
    <2>0. Elems(queue) = Queued /\ Elems(queue') = Queued' /\ Queued \in SUBSET Requests
      BY DEF Elems, Queued, TypeOK
    <2>1. CASE MayEnqueue
      <3>1. queue' = Append(Live(queue), r)
        BY <2>1 DEF Enqueue
      <3>2. r \notin Elems(Live(queue))
        BY <1>2, LiveKeeps
      <3>3. Elems(queue') = Elems(Live(queue)) \cup {r} /\ Once(queue')
        BY <3>1, <3>2, LiveKeeps, AppendAdds
      <3> QED BY <1>1, <1>3, <2>0, <2>1, <3>3, LiveKeeps DEF InHand
    <2>2. CASE ~MayEnqueue
      <3>1. queue' = Live(queue) \/ queue' = queue
        BY <2>2 DEF Enqueue
      <3>2. Once(queue)
        BY DEF Places, OnePlace
      <3> QED BY <1>1, <1>2, <1>3, <2>0, <2>2, <3>1, <3>2, LiveKeeps DEF InHand
    <2> QED BY <2>1, <2>2
  <1>7. /\ \A x \in Requests \ {r} : chan'[x] = chan[x]
        /\ chan'[r] \in {"open", "idle"} /\ (chan'[r] = "open" <=> label # "done")
    BY <1>2, <1>3 DEF Enqueue, TypeOK
  <1>8. Wakes'
    <2>1. \A c \in Callers : stage[c] = "release" => hand[c] \in Requests \ {r}
      BY <1>2 DEF Places, Wakes, TypeOK
    <2> QED BY <1>1, <1>2, <1>4, <2>1 DEF Places, Wakes
  <1>9. OnePlace'
    <2>1. \A c \in Callers : hand[c] # r /\ (hand[c] # NoOne => hand[c] \in Requests \ {r})
      BY <1>2, RequestsAssumption DEF InHand, TypeOK
    <2>2. \A c \in Callers : hand'[c] \notin Queued'
      BY <1>1, <1>6, <2>1, RequestsAssumption DEF Places, OnePlace
    <2>3. \A x \in Requests : \/ RxAlive(x)' \/ pc'[x] \in Ended
                              \/ x \notin Queued' /\ x \notin InHand'
      BY <1>3, <1>4, <1>5, <1>6 DEF Places, OnePlace, Ended
    <2>4. \A x \in Requests : chan'[x] \in {"permit", "closed"} =>
                                  x \notin Queued' /\ x \notin InHand'
      BY <1>6, <1>7 DEF Places, OnePlace
    <2> QED BY <1>1, <1>6, <2>2, <2>3, <2>4 DEF Places, OnePlace
  <1>10. Drops'
    BY <1>1, <1>2, <1>4 DEF Places, Drops, TypeOK
  <1>11. Channels' /\ SleepersAreReachable'
    BY <1>5, <1>6, <1>7 DEF Places, Channels, SleepersAreReachable
  <1> QED BY <1>8, <1>9, <1>10, <1>11 DEF Places

LEMMA PlacesPop ==
    ASSUME TypeOK, Places, NEW c \in Callers, Pop(c)
    PROVE  Places'
  <1>1. /\ pc' = pc /\ chan' = chan /\ entry_drops' = entry_drops /\ stage[c] = "pop"
        /\ hand[c] = NoOne
    BY DEF Pop, request, drops, Places, Wakes
  <1>2. CASE queue = << >>
    BY <1>1, <1>2, PlacesWake DEF Pop, EndWake
  <1>3. CASE queue # << >>
    <2> DEFINE h == Head(queue)
    <2>1. /\ hand' = [hand EXCEPT ![c] = h] /\ queue' = Tail(queue)
          /\ stage' = [stage EXCEPT ![c] = "promote"] /\ budget' = budget
      BY <1>3 DEF Pop
    <2>2. h \in Requests /\ h \in Queued /\ Queued' = Queued \ {h} /\ Once(queue')
      <3>1. queue \in Seq(Requests) /\ Once(queue)
        BY DEF TypeOK, Places, OnePlace
      <3>2. /\ h \in Requests /\ h \in Elems(queue)
            /\ Elems(Tail(queue)) = Elems(queue) \ {h} /\ Once(Tail(queue))
        BY <1>3, <3>1, PopTakes
      <3>3. Elems(queue) = Queued /\ Elems(queue') = Queued'
        BY DEF Elems, Queued
      <3> QED BY <2>1, <3>2, <3>3
    <2> HIDE DEF h
    <2>3. /\ hand'[c] = h /\ stage'[c] = "promote"
          /\ \A d \in Callers \ {c} : hand'[d] = hand[d] /\ stage'[d] = stage[d]
      BY <2>1 DEF TypeOK
    <2>4. \A x \in Requests : x \in InHand' <=> x \in InHand \/ x = h
      BY <1>1, <2>2, <2>3, RequestsAssumption DEF InHand
    <2>5. \A x \in Requests : RxAlive(x)' <=> RxAlive(x)
      BY <1>1 DEF RxAlive
    <2>6. h # NoOne /\ h \notin InHand
      BY <2>2, RequestsAssumption DEF InHand, Places, OnePlace
    <2>7. Wakes'
      <3>1. \A d \in Callers : hand'[d] # NoOne <=> stage'[d] \in {"promote", "release"}
        BY <2>3, <2>6 DEF Places, Wakes
      <3>2. \A d \in Callers : stage'[d] = "release" => pc'[hand'[d]] \in Ended
        BY <1>1, <2>3 DEF Places, Wakes
      <3>3. \A r \in Requests : stage'[r] # "idle" =>
                                 pc'[r] \in {"nudging", "rechecking"} /\ budget'[r] # 0
        BY <1>1, <2>1, <2>3 DEF Places, Wakes, Callers
      <3>4. stage'[Maintenance] # "idle" => budget'[Maintenance] # 0
        BY <1>1, <2>1, <2>3 DEF Places, Wakes, Callers
      <3> QED BY <3>1, <3>2, <3>3, <3>4 DEF Wakes
    <2>8. OnePlace'
      <3>1. \A d \in Callers : hand'[d] \notin Queued'
        BY <2>2, <2>3 DEF Places, OnePlace
      <3>2. \A d, e \in Callers : hand'[d] # NoOne /\ hand'[d] = hand'[e] => d = e
        BY <2>2, <2>3 DEF Places, OnePlace
      <3>3. \A x \in Requests : \/ RxAlive(x)' \/ pc'[x] \in Ended
                                \/ x \notin Queued' /\ x \notin InHand'
        BY <1>1, <2>2, <2>4, <2>5 DEF Places, OnePlace
      <3>4. \A x \in Requests : chan'[x] \in {"permit", "closed"} =>
                                   x \notin Queued' /\ x \notin InHand'
        BY <1>1, <2>2, <2>4 DEF Places, OnePlace
      <3> QED BY <2>2, <3>1, <3>2, <3>3, <3>4 DEF OnePlace
    <2>9. Channels' /\ Drops' /\ SleepersAreReachable'
      BY <1>1, <2>2, <2>4, <2>5 DEF Places, Channels, Drops, SleepersAreReachable
    <2> QED BY <2>7, <2>8, <2>9 DEF Places
  <1> QED BY <1>2, <1>3

\* A wake answers the channel of the entry in its hand, or lets the entry go: in both
\* cases the entry is in no place any more.
LEMMA PlacesLetGo ==
    ASSUME TypeOK, Places, NEW c \in Callers, stage[c] \in {"promote", "release"},
           NEW s \in {"idle", "pop"}, NEW b,
           stage' = [stage EXCEPT ![c] = s], budget' = [budget EXCEPT ![c] = b],
           hand' = [hand EXCEPT ![c] = NoOne],
           s # "idle" /\ budget[c] # 0 => b # 0,
           \/ pc[hand[c]] \in Ended /\ chan' = chan
           \/ RxAlive(hand[c]) /\ chan' = [chan EXCEPT ![hand[c]] = "permit"],
           UNCHANGED <<pc, queue, entry_drops>>
    PROVE  Places'
  <1> DEFINE h == hand[c]
  <1>1. h \in Requests /\ h # NoOne /\ h \notin Queued
    BY RequestsAssumption DEF Places, Wakes, OnePlace, TypeOK
  <1>2. /\ hand'[c] = NoOne /\ stage'[c] = s /\ budget'[c] = b
        /\ \A d \in Callers \ {c} : /\ hand'[d] = hand[d] /\ stage'[d] = stage[d]
                                      /\ budget'[d] = budget[d] /\ hand[d] # h
    BY <1>1 DEF TypeOK, Places, OnePlace
  <1>3. \A x \in Requests : x \in InHand' <=> x \in InHand /\ x # h
    BY <1>1, <1>2, RequestsAssumption DEF InHand
  <1>4. /\ Queued' = Queued /\ Once(queue)' = Once(queue)
        /\ \A x \in Requests : RxAlive(x)' <=> RxAlive(x)
    BY DEF Queued, Once, RxAlive
  <1>5. /\ \A x \in Requests \ {h} : chan'[x] = chan[x]
        /\ \/ RxAlive(h) /\ chan'[h] = "permit"
           \/ pc[h] \in Ended /\ chan'[h] = chan[h]
    BY <1>1 DEF TypeOK
  <1> HIDE DEF h
  <1>6. Wakes'
    <2>1. \A d \in Callers : hand'[d] # NoOne <=> stage'[d] \in {"promote", "release"}
      BY <1>2 DEF Places, Wakes
    <2>2. \A d \in Callers : stage'[d] = "release" => pc'[hand'[d]] \in Ended
      BY <1>2 DEF Places, Wakes
    <2>3. \A r \in Requests : stage'[r] # "idle" =>
                               pc'[r] \in {"nudging", "rechecking"} /\ budget'[r] # 0
      BY <1>2 DEF Places, Wakes, Callers
    <2>4. stage'[Maintenance] # "idle" => budget'[Maintenance] # 0
      BY <1>2 DEF Places, Wakes, Callers
    <2> QED BY <2>1, <2>2, <2>3, <2>4 DEF Wakes
  <1>7. OnePlace'
    <2>1. \A d \in Callers : hand'[d] \notin Queued'
      <3>1. NoOne \notin Queued
        BY RequestsAssumption DEF Queued, TypeOK
      <3> QED BY <1>2, <1>4, <3>1 DEF Places, OnePlace
    <2>2. \A d, e \in Callers : hand'[d] # NoOne /\ hand'[d] = hand'[e] => d = e
      BY <1>2 DEF Places, OnePlace
    <2>3. \A x \in Requests : \/ RxAlive(x)' \/ pc'[x] \in Ended
                              \/ x \notin Queued' /\ x \notin InHand'
      BY <1>3, <1>4 DEF Places, OnePlace
    <2>4. \A x \in Requests : chan'[x] \in {"permit", "closed"} =>
                                 x \notin Queued' /\ x \notin InHand'
      BY <1>1, <1>3, <1>4, <1>5 DEF Places, OnePlace
    <2> QED BY <1>4, <2>1, <2>2, <2>3, <2>4 DEF Places, OnePlace
  <1>8. Channels' /\ Drops'
    BY <1>1, <1>4, <1>5 DEF Places, Channels, Drops
  <1>9. SleepersAreReachable'
    <2> SUFFICES ASSUME NEW x \in Requests, RxAlive(x), chan'[x] = "open"
                 PROVE  x \in Queued' \/ x \in InHand'
      BY <1>4 DEF SleepersAreReachable
    <2>1. x # h
      BY <1>5 DEF RxAlive, Ended
    <2> QED BY <1>3, <1>4, <1>5, <2>1 DEF Places, SleepersAreReachable
  <1> QED BY <1>6, <1>7, <1>8, <1>9 DEF Places

LEMMA PlacesPromote ==
    ASSUME TypeOK, Places, NEW c \in Callers, Promote(c)
    PROVE  Places'
  <1>1. /\ pc' = pc /\ queue' = queue /\ entry_drops' = entry_drops
        /\ stage[c] = "promote"
    BY DEF Promote, drops
  <1>2. hand[c] \in Requests /\ (RxAlive(hand[c]) \/ pc[hand[c]] \in Ended)
    <2>1. hand[c] \in Requests
      BY <1>1 DEF Places, Wakes, TypeOK
    <2>2. hand[c] \in InHand
      BY <2>1, RequestsAssumption DEF InHand
    <2> QED BY <2>1, <2>2 DEF Places, OnePlace
  <1>3. CASE RxAlive(hand[c])
    <2>1. /\ chan' = [chan EXCEPT ![hand[c]] = "permit"]
          /\ hand' = [hand EXCEPT ![c] = NoOne] /\ AfterNotify(c)
      BY <1>3 DEF Promote
    <2>2. budget[c] \in Nat
      BY DEF TypeOK
    <2>3. \E s \in {"idle", "pop"} : \E b :
              /\ stage' = [stage EXCEPT ![c] = s] /\ budget' = [budget EXCEPT ![c] = b]
              /\ s # "idle" /\ budget[c] # 0 => b # 0
      <3>1. CASE EndWake(c)
        BY <3>1 DEF EndWake
      <3>2. CASE budget[c] = 0 /\ StartWake(c, 0)
        BY <3>2, Zenon DEF StartWake
      <3>3. CASE budget[c] > 1 /\ StartWake(c, budget[c] - 1)
        <4>1. budget[c] - 1 # 0
          BY <2>2, <3>3
        <4> QED BY <3>3, <4>1, ZenonT(30) DEF StartWake
      <3> QED BY <2>1, <3>1, <3>2, <3>3 DEF AfterNotify
    <2> QED BY <1>1, <1>3, <2>1, <2>3, PlacesLetGo, Zenon
  <1>4. CASE ~RxAlive(hand[c])
    <2>1. /\ stage' = [stage EXCEPT ![c] = "release"] /\ chan' = chan /\ hand' = hand
          /\ budget' = budget /\ pc[hand[c]] \in Ended
      BY <1>2, <1>4 DEF Promote
    <2>2. /\ stage'[c] = "release"
          /\ \A d \in Callers \ {c} : stage'[d] = stage[d]
      BY <2>1 DEF TypeOK
    <2>3. Wakes'
      <3>1. \A d \in Callers : hand'[d] # NoOne <=> stage'[d] \in {"promote", "release"}
        BY <1>1, <2>1, <2>2 DEF Places, Wakes
      <3>2. \A d \in Callers : stage'[d] = "release" => pc'[hand'[d]] \in Ended
        BY <1>1, <2>1, <2>2 DEF Places, Wakes
      <3>3. \A r \in Requests : stage'[r] # "idle" =>
                                 pc'[r] \in {"nudging", "rechecking"} /\ budget'[r] # 0
        BY <1>1, <2>1, <2>2 DEF Places, Wakes, Callers
      <3>4. stage'[Maintenance] # "idle" => budget'[Maintenance] # 0
        BY <1>1, <2>1, <2>2 DEF Places, Wakes, Callers
      <3> QED BY <3>1, <3>2, <3>3, <3>4 DEF Wakes
    <2>4. /\ Queued' = Queued /\ InHand' = InHand /\ Once(queue)' = Once(queue)
          /\ \A x \in Requests : RxAlive(x)' <=> RxAlive(x)
      BY <1>1, <2>1 DEF Queued, InHand, Once, RxAlive
    <2>5. Channels' /\ OnePlace' /\ Drops' /\ SleepersAreReachable'
      BY <1>1, <2>1, <2>4 DEF Places, Channels, OnePlace, Drops, SleepersAreReachable
    <2> QED BY <2>3, <2>5 DEF Places
  <1> QED BY <1>3, <1>4

LEMMA PlacesReleaseReturned ==
    ASSUME TypeOK, Places, NEW c \in Callers, ReleaseReturned(c)
    PROVE  Places'
  <1>1. /\ pc' = pc /\ chan' = chan /\ queue' = queue /\ budget' = budget
        /\ entry_drops' = entry_drops /\ stage[c] = "release"
        /\ stage' = [stage EXCEPT ![c] = "pop"] /\ hand' = [hand EXCEPT ![c] = NoOne]
    BY DEF ReleaseReturned, request, drops
  <1>2. budget' = [budget EXCEPT ![c] = budget[c]] /\ pc[hand[c]] \in Ended
    BY <1>1 DEF TypeOK, Places, Wakes
  <1> QED BY <1>1, <1>2, PlacesLetGo, Zenon

\* A future dropped at any await: what it woke is closed, its own place is left to its
\* guard.
LEMMA PlacesCancel ==
    ASSUME TypeOK, Places, NEW r \in Requests, Cancel(r)
    PROVE  Places'
  <1>1. /\ queue' = queue /\ r \in Callers
        /\ pc' = [pc EXCEPT ![r] = "done"] /\ stage' = [stage EXCEPT ![r] = "idle"]
        /\ budget' = [budget EXCEPT ![r] = 0] /\ hand' = [hand EXCEPT ![r] = NoOne]
        /\ entry_drops' \in SUBSET (entry_drops \cup {r})
    BY DEF Cancel, Goto, EndWake, waiting, Callers
  <1>2. /\ pc'[r] = "done" /\ \A x \in Requests \ {r} : pc'[x] = pc[x]
        /\ hand'[r] = NoOne /\ stage'[r] = "idle"
        /\ \A d \in Callers \ {r} : /\ hand'[d] = hand[d] /\ stage'[d] = stage[d]
                                      /\ budget'[d] = budget[d]
    BY <1>1 DEF TypeOK
  <1>3. /\ chan'[r] = "idle"
        /\ \A x \in Requests \ {r} :
              \/ /\ chan'[x] = "closed" /\ stage[r] = "promote" /\ hand[r] = x
                 /\ RxAlive(x)
              \/ /\ chan'[x] = chan[x]
                 /\ ~(stage[r] = "promote" /\ hand[r] = x /\ RxAlive(x))
    BY DEF Cancel, CloseChannels
  <1>4. ~RxAlive(r)' /\ \A x \in Requests \ {r} : RxAlive(x)' <=> RxAlive(x)
    BY <1>2, Zenon DEF RxAlive
  <1>5. Queued' = Queued /\ Once(queue)' = Once(queue)
    BY <1>1 DEF Queued, Once
  <1>6. \A x \in Requests : x \in InHand' <=> x \in InHand /\ x # hand[r]
    <2> SUFFICES ASSUME NEW x \in Requests
                 PROVE  x \in InHand' <=> x \in InHand /\ x # hand[r]
      OBVIOUS
    <2>1. x # NoOne
      BY RequestsAssumption
    <2>2. x \in InHand' <=> \E c \in Callers : hand'[c] = x
      BY <2>1 DEF InHand
    <2>3. x \in InHand <=> \E c \in Callers : hand[c] = x
      BY <2>1 DEF InHand
    <2>4. \A c \in Callers \ {r} : hand[c] = x => hand[r] # x
      BY <1>1, <2>1 DEF Places, OnePlace
    <2> QED BY <1>1, <1>2, <2>1, <2>2, <2>3, <2>4
  <1>7. Wakes'
    <2>1. \A d \in Callers : hand'[d] # NoOne <=> stage'[d] \in {"promote", "release"}
      BY <1>2 DEF Places, Wakes
    <2>2. \A d \in Callers : stage'[d] = "release" => pc'[hand'[d]] \in Ended
      <3> SUFFICES ASSUME NEW d \in Callers, stage'[d] = "release"
                   PROVE  pc'[hand'[d]] \in Ended
        OBVIOUS
      <3>1. d # r /\ stage[d] = "release" /\ hand'[d] = hand[d]
        BY <1>2
      <3>2. hand[d] \in Requests /\ pc[hand[d]] \in Ended
        BY <3>1 DEF Places, Wakes, TypeOK
      <3> QED BY <1>2, <3>1, <3>2 DEF Ended
    <2>3. \A x \in Requests : stage'[x] # "idle" =>
                               pc'[x] \in {"nudging", "rechecking"} /\ budget'[x] # 0
      BY <1>2 DEF Places, Wakes, Callers
    <2>4. stage'[Maintenance] # "idle" => budget'[Maintenance] # 0
      BY <1>2, RequestsAssumption DEF Places, Wakes, Callers
    <2> QED BY <2>1, <2>2, <2>3, <2>4 DEF Wakes
  <1>8. OnePlace'
    <2>1. \A d \in Callers : hand'[d] \notin Queued'
      <3>1. NoOne \notin Queued
        BY RequestsAssumption DEF Queued, TypeOK
      <3> QED BY <1>2, <1>5, <3>1, ZenonT(30) DEF Places, OnePlace
    <2>2. \A d, e \in Callers : hand'[d] # NoOne /\ hand'[d] = hand'[e] => d = e
      BY <1>2 DEF Places, OnePlace
    <2>3. \A x \in Requests : \/ RxAlive(x)' \/ pc'[x] \in Ended
                              \/ x \notin Queued' /\ x \notin InHand'
      BY <1>2, <1>4, <1>5, <1>6 DEF Places, OnePlace, Ended
    <2>4. \A x \in Requests : chan'[x] \in {"permit", "closed"} =>
                                 x \notin Queued' /\ x \notin InHand'
      BY <1>1, <1>3, <1>5, <1>6 DEF Places, OnePlace
    <2> QED BY <1>5, <2>1, <2>2, <2>3, <2>4, ZenonT(30) DEF Places, OnePlace
  <1>9. Channels' /\ Drops'
    BY <1>1, <1>2, <1>3, <1>4, ZenonT(30) DEF Places, Channels, Drops, TypeOK
  <1>10. SleepersAreReachable'
    <2> SUFFICES ASSUME NEW x \in Requests, RxAlive(x)', chan'[x] = "open"
                 PROVE  x \in Queued' \/ x \in InHand'
      BY DEF SleepersAreReachable
    <2>1. x # r /\ RxAlive(x) /\ chan[x] = "open" /\ ~(stage[r] = "promote" /\ hand[r] = x)
      BY <1>3, <1>4
    <2>2. ~(stage[r] = "release" /\ hand[r] = x)
      BY <1>1, <2>1 DEF Places, Wakes, RxAlive, Ended
    <2>3. hand[r] # x
      BY <1>1, <2>1, <2>2, RequestsAssumption DEF Places, Wakes
    <2> QED BY <1>5, <1>6, <2>1, <2>3 DEF Places, SleepersAreReachable
  <1> QED BY <1>7, <1>8, <1>9, <1>10 DEF Places

LEMMA WakeBudgetType ==
    ASSUME TypeOK
    PROVE  WakeBudget \in Nat
  <1>1. IsFiniteSet(pending)
    BY RequestsAssumption, FS_Subset DEF TypeOK
  <1>2. Cardinality(pending) \in Nat
    BY <1>1, FS_CardinalityType
  <1>3. in_flight \in Nat /\ Slots \in Nat
    BY LimitsAssumption DEF TypeOK
  <1> QED BY <1>2, <1>3 DEF WakeBudget

LEMMA PlacesStep ==
    ASSUME TypeOK, Places, [Next]_vars
    PROVE  Places'
  <1>1. ASSUME NEW r \in Requests, Walks(r) PROVE Places'
    BY <1>1, WalksMove, PlacesMove
  <1>2. ASSUME NEW r \in Requests, ReceivePermit(r) PROVE Places'
    BY <1>2, PlacesStopWaiting DEF ReceivePermit, waiting, wakers, drops
  <1>3. ASSUME NEW r \in Requests, SenderGone(r) PROVE Places'
    BY <1>3, PlacesStopWaiting, Zenon DEF SenderGone, waiting, wakers, drops
  <1>4. ASSUME NEW r \in Requests, Expire(r) PROVE Places'
    BY <1>4, PlacesStopWaiting, Zenon DEF Expire, waiting, wakers
  <1>5. ASSUME NEW r \in Requests, RemoveOwnEntry(r) PROVE Places'
    BY <1>5, PlacesRemove DEF RemoveOwnEntry, wakers, drops, Ended
  <1>6. ASSUME NEW r \in Requests, DropEntry(r) PROVE Places'
    <2>1. pc[r] \in Ended
      BY <1>6 DEF DropEntry, Places, Drops, Ended
    <2> QED BY <1>6, <2>1, PlacesRemove DEF DropEntry, request, wakers
  <1>7. ASSUME NEW t \in Tasks, RunJob(t) PROVE Places'
    <2>1. PICK b : /\ stage' = [stage EXCEPT ![t] = "pop"]
                   /\ budget' = [budget EXCEPT ![t] = b]
      BY <1>7, Zenon DEF RunJob, StartWake
    <2>2. t \in Callers /\ t \notin Requests /\ t # Maintenance
      BY RequestsAssumption DEF Callers
    <2> QED BY <1>7, <2>1, <2>2, PlacesWake, Zenon DEF RunJob, request, waiting, drops
  <1>8. ASSUME MaintenanceTick PROVE Places'
    <2>1. WakeBudget # 0
      BY <1>8, WakeBudgetType DEF MaintenanceTick
    <2>2. Maintenance \in Callers /\ Maintenance \notin Requests
      BY RequestsAssumption DEF Callers
    <2> QED BY <1>8, <2>1, <2>2, PlacesWake, ZenonT(30)
            DEF MaintenanceTick, StartWake, request, waiting, drops
  <1>9. ASSUME NEW r \in Requests, DropPermit(r) PROVE Places'
    BY <1>9, PlacesQuiet DEF DropPermit, request, wakers
  <1>10. ASSUME \/ ReleaseSlot \/ BeginShutdownDrain \/ ReloadCookbook
                \/ RetireDrained \/ AllAnswered \/ UNCHANGED vars
         PROVE  Places'
    BY <1>10, PlacesQuiet
       DEF ReleaseSlot, BeginShutdownDrain, ReloadCookbook, RetireDrained, AllAnswered,
           request, waiting, wakers, drops, vars
  <1> QED BY <1>1, <1>2, <1>3, <1>4, <1>5, <1>6, <1>7, <1>8, <1>9, <1>10,
             PlacesWakeReturns, PlacesWakeForSlots, PlacesEnqueue, PlacesCancel,
             PlacesPop, PlacesPromote, PlacesReleaseReturned
          DEF Next, Acquire, Notify, Walks

----------------------------------------------------------------------------
(* Types, with the queue's own limit.                                      *)

LEMMA TypeMove ==
    ASSUME TypeOK, NEW r \in Requests, Walks(r)
    PROVE  TypeOK'
  <1>1. /\ pc' \in [Requests -> PCs] /\ token' \in [Requests -> BOOLEAN]
        /\ pending' \in SUBSET Requests
    <2>1. Move(r)
      BY WalksMove
    <2>2. pc' \in [Requests -> PCs]
      <3>1. PICK label \in Walking \cup {"done"} : pc' = [pc EXCEPT ![r] = label]
        BY <2>1, Zenon DEF Move, Goto
      <3>2. label \in PCs
        BY DEF Walking, PCs
      <3> QED BY <3>1, <3>2 DEF TypeOK
    <2>3. token' \in [Requests -> BOOLEAN] /\ pending' \in SUBSET Requests
      BY <2>1, Zenon DEF Move, ReleaseToken, TypeOK
    <2> QED BY <2>2, <2>3
  <1>2. /\ limit' = limit /\ chan' = chan /\ queue' = queue /\ stage' = stage
        /\ hand' = hand /\ budget' = budget /\ entry_drops' = entry_drops
        /\ permit_drops' = permit_drops /\ draining' = draining
    BY WalksMove DEF Move, wakers, drops
  <1>3. /\ removed' = removed
        /\ in_flight' \in {in_flight, in_flight + 1}
        /\ inst' \in {inst, "draining"} /\ map_lock' \in {map_lock, r, NoOne}
        /\ jobs' \in {jobs, [jobs EXCEPT !["one"] = @ + 1]}
        /\ releases' \in {releases, releases + 1}
    BY DEF Walks, Arrive, Top, FailRemoved, LeaveAtTop, FairnessCheck, FairnessPending,
           StillWaiters, TakeMapLock, SecondAdopt, UnderMapLock, Blocked, Acquired,
           Finish, PickInstance, Spawn, instance, node
  <1>4. /\ in_flight' \in Nat /\ releases' \in Nat /\ jobs' \in [{"one", "all"} -> Nat]
        /\ inst' \in {"live", "draining", "gone"} /\ map_lock' \in Requests \cup {NoOne}
    BY <1>3 DEF TypeOK
  <1> QED BY <1>1, <1>2, <1>3, <1>4 DEF TypeOK

\* The requests that use a slot.
Users == {r \in Requests : pc[r] \in {"acquired", "running"}}

LEMMA UsersType == IsFiniteSet(Users) /\ Cardinality(Users) \in Nat
  BY RequestsAssumption, FS_Subset, FS_CardinalityType DEF Users

\* A step of the wake path, of the queue or of a guard.
LEMMA TypeOthers ==
    ASSUME TypeOK, Places, SlotsAreAccounted, Next, ~ \E r \in Requests : Walks(r)
    PROVE  TypeOK'
  <1> USE DEF TypeOK
  <1>0. \A q \in Seq(Requests) : \A r \in Requests :
            Without(q, r) \in Seq(Requests) /\ Len(Without(q, r)) <= Len(q)
    BY RetainKeeps DEF Without
  <1>1. ASSUME NEW r \in Requests, WakeForSlots(r) \/ WakeReturns(r) PROVE TypeOK'
    <2>1. pc' \in [Requests -> PCs] /\ r \in Callers
      BY <1>1, Zenon DEF WakeForSlots, WakeReturns, Goto, PCs, Callers
    <2>2. stage' \in [Callers -> Stages] /\ budget' \in [Callers -> Nat]
      <3>1. CASE WakeReturns(r)
        BY <3>1 DEF WakeReturns, wakers
      <3>2. CASE WakeForSlots(r)
        <4> DEFINE n == WakeBudget + (IF pc[r] = "recheck" /\ inst = "gone" THEN 1 ELSE 0)
        <4>1. n \in Nat
          BY WakeBudgetType
        <4>2. IF n > 0 THEN StartWake(r, n) ELSE UNCHANGED <<stage, budget>>
          BY <3>2 DEF WakeForSlots
        <4> HIDE DEF n
        <4> QED BY <2>1, <4>1, <4>2, ZenonT(30) DEF StartWake, Stages
      <3> QED BY <1>1, <3>1, <3>2
    <2> QED BY <1>1, <2>1, <2>2
            DEF WakeForSlots, WakeReturns, waiting, instance, wakers, drops, node
  <1>2. ASSUME NEW r \in Requests, Enqueue(r) PROVE TypeOK'
    <2>1. /\ pc' \in [Requests -> PCs]
          /\ chan' \in [Requests -> {"idle", "open", "permit", "closed"}]
      BY <1>2, ZenonT(30) DEF Enqueue, Goto, PCs
    <2>2. limit' = limit /\ limit.queue \in Nat
      BY <1>2, LimitsAssumption DEF Enqueue, node
    <2>3. /\ Live(queue) \in Seq(Requests) /\ Len(Live(queue)) \in Nat
          /\ Len(queue) \in Nat /\ Len(Live(queue)) <= Len(queue)
      BY LiveKeeps
    <2>4. queue' \in Seq(Requests) /\ (limit.queue # 0 => Len(queue') <= limit.queue)
      <3>1. CASE MayEnqueue
        <4>1. queue' = Append(Live(queue), r)
          BY <1>2, <3>1 DEF Enqueue
        <4>2. queue' \in Seq(Requests) /\ Len(queue') = Len(Live(queue)) + 1
          BY <2>3, <4>1, AppendAdds
        <4>3. limit.queue # 0 => Len(Live(queue)) < limit.queue
          BY <3>1 DEF MayEnqueue
        <4> QED BY <2>2, <2>3, <4>2, <4>3
      <3>2. CASE ~MayEnqueue
        <4>1. queue' = Live(queue) \/ queue' = queue
          BY <1>2, <3>2 DEF Enqueue
        <4> QED BY <2>2, <2>3, <4>1
      <3> QED BY <3>1, <3>2
    <2> QED BY <1>2, <2>1, <2>2, <2>4 DEF Enqueue, instance, wakers, drops, node
  <1>3. ASSUME NEW r \in Requests, ReceivePermit(r) \/ SenderGone(r) \/ Expire(r)
        PROVE  TypeOK'
    <2>1. /\ pc' \in [Requests -> PCs] /\ token' \in [Requests -> BOOLEAN]
          /\ chan' \in [Requests -> {"idle", "open", "permit", "closed"}]
          /\ permit_drops' \in SUBSET Requests
      BY <1>3, ZenonT(30) DEF ReceivePermit, SenderGone, Expire, Goto, PCs, drops
    <2> QED BY <1>3, <2>1
            DEF ReceivePermit, SenderGone, Expire, waiting, instance, wakers, drops, node
  <1>4. ASSUME NEW r \in Requests, RemoveOwnEntry(r) \/ DropEntry(r) PROVE TypeOK'
    <2>1. queue' = Without(queue, r) /\ limit' = limit
      BY <1>4 DEF RemoveOwnEntry, DropEntry, node
    <2>2. limit.queue \in Nat
      BY LimitsAssumption
    <2>3. queue' \in Seq(Requests) /\ (limit.queue # 0 => Len(queue') <= limit.queue)
      BY <1>0, <2>1, <2>2
    <2>4. /\ pc' \in [Requests -> PCs] /\ pending' \in SUBSET Requests
          /\ entry_drops' \in SUBSET Requests
      BY <1>4, Zenon DEF RemoveOwnEntry, DropEntry, Goto, PCs, request, drops
    <2> QED BY <1>4, <2>1, <2>3, <2>4
            DEF RemoveOwnEntry, DropEntry, request, instance, wakers, drops, node
  <1>5. ASSUME NEW r \in Requests, Cancel(r) PROVE TypeOK'
    <2>1. /\ pc' \in [Requests -> PCs] /\ token' \in [Requests -> BOOLEAN]
          /\ entry_drops' \in SUBSET Requests /\ releases' \in Nat
          /\ map_lock' \in Requests \cup {NoOne}
      BY <1>5 DEF Cancel, Goto, PCs, DroppedSlots
    <2>2. chan' \in [Requests -> {"idle", "open", "permit", "closed"}]
      BY <1>5 DEF Cancel, CloseChannels
    <2>3. /\ stage' \in [Callers -> Stages] /\ budget' \in [Callers -> Nat]
          /\ hand' \in [Callers -> Requests \cup {NoOne}]
      BY <1>5 DEF Cancel, EndWake, Stages, Callers
    <2>4. permit_drops' \in SUBSET Requests
      <3>1. stage[r] = "release" => hand[r] \in Requests
        BY DEF Places, Wakes, Callers
      <3>2. DroppedTokens(r) \in SUBSET Requests
        BY <3>1 DEF DroppedTokens
      <3> QED BY <1>5, <3>2 DEF Cancel
    <2> QED BY <1>5, <2>1, <2>2, <2>3, <2>4 DEF Cancel, waiting, instance, node
  <1>6. ASSUME NEW r \in Requests, DropPermit(r) PROVE TypeOK'
    BY <1>6 DEF DropPermit, request, instance, wakers, node
  <1>7. ASSUME NEW c \in Callers, Pop(c) PROVE TypeOK'
    <2>1. /\ queue' \in Seq(Requests) /\ Len(queue') <= Len(queue) /\ Len(queue') \in Nat
          /\ hand' \in [Callers -> Requests \cup {NoOne}]
      <3>1. Once(queue)
        BY DEF Places, OnePlace
      <3>2. queue # << >> => /\ Head(queue) \in Requests /\ Tail(queue) \in Seq(Requests)
                             /\ Len(Tail(queue)) <= Len(queue)
        BY <3>1, PopTakes
      <3>3. CASE queue = << >>
        BY <1>7, <3>3 DEF Pop
      <3>4. CASE queue # << >>
        <4>1. hand' = [hand EXCEPT ![c] = Head(queue)] /\ queue' = Tail(queue)
          BY <1>7, <3>4 DEF Pop
        <4> QED BY <3>2, <3>4, <4>1
      <3> QED BY <3>3, <3>4
    <2>2. stage' \in [Callers -> Stages] /\ budget' \in [Callers -> Nat]
      <3>1. CASE EndWake(c)
        BY <3>1 DEF EndWake, Stages
      <3>2. CASE stage' = [stage EXCEPT ![c] = "promote"] /\ budget' = budget
        BY <3>2 DEF Stages
      <3> QED BY <1>7, <3>1, <3>2 DEF Pop
    <2>3. limit' = limit /\ limit.queue \in Nat
      BY <1>7, LimitsAssumption DEF Pop, node
    <2>4. limit.queue # 0 => Len(queue') <= limit.queue
      BY <2>1, <2>3
    <2> QED BY <1>7, <2>1, <2>2, <2>3, <2>4 DEF Pop, request, instance, drops, node
  <1>8. ASSUME NEW c \in Callers, Promote(c) PROVE TypeOK'
    <2>1. hand[c] \in Requests
      BY <1>8 DEF Promote, Places, Wakes
    <2>2. /\ pending' \in SUBSET Requests
          /\ chan' \in [Requests -> {"idle", "open", "permit", "closed"}]
          /\ hand' \in [Callers -> Requests \cup {NoOne}]
      BY <1>8, <2>1, ZenonT(30) DEF Promote
    <2>3. stage' \in [Callers -> Stages] /\ budget' \in [Callers -> Nat]
      <3>1. CASE EndWake(c)
        BY <3>1 DEF EndWake, Stages
      <3>2. ASSUME NEW b \in Nat, StartWake(c, b)
            PROVE  stage' \in [Callers -> Stages] /\ budget' \in [Callers -> Nat]
        BY <3>2 DEF StartWake, Stages
      <3>3. CASE stage' = [stage EXCEPT ![c] = "release"] /\ budget' = budget
        BY <3>3 DEF Stages
      <3>4. CASE AfterNotify(c)
        <4>1. budget[c] \in Nat /\ (budget[c] > 1 => budget[c] - 1 \in Nat)
          OBVIOUS
        <4> QED BY <3>1, <3>2, <3>4, <4>1 DEF AfterNotify
      <3> QED BY <1>8, <3>3, <3>4 DEF Promote
    <2> QED BY <1>8, <2>2, <2>3 DEF Promote, instance, drops, node
  <1>9. ASSUME NEW c \in Callers, ReleaseReturned(c) PROVE TypeOK'
    BY <1>9 DEF ReleaseReturned, Stages, request, instance, drops, node
  <1>10. ASSUME NEW t \in Tasks, RunJob(t) PROVE TypeOK'
    <2>1. jobs' \in [{"one", "all"} -> Nat] /\ t \in Callers
      BY <1>10 DEF RunJob, Callers
    <2>2. stage' \in [Callers -> Stages] /\ budget' \in [Callers -> Nat]
      BY <1>10, <2>1 DEF RunJob, StartWake, Stages
    <2> QED BY <1>10, <2>1, <2>2 DEF RunJob, request, waiting, instance, drops, node
  <1>11. ASSUME MaintenanceTick PROVE TypeOK'
    <2>1. stage' \in [Callers -> Stages] /\ budget' \in [Callers -> Nat]
      BY <1>11, WakeBudgetType DEF MaintenanceTick, StartWake, Stages, Callers
    <2> QED BY <1>11, <2>1 DEF MaintenanceTick, request, waiting, instance, drops, node
  <1>12. ASSUME ReleaseSlot PROVE TypeOK'
    <2>1. in_flight - 1 \in Nat
      BY <1>12, UsersType DEF ReleaseSlot, SlotsAreAccounted, Users
    <2>2. jobs' \in [{"one", "all"} -> Nat] /\ releases' \in Nat /\ in_flight' \in Nat
      BY <1>12, <2>1 DEF ReleaseSlot, Spawn
    <2> QED BY <1>12, <2>2 DEF ReleaseSlot, request, waiting, wakers, drops, node
  <1>13. ASSUME Spawn("all") PROVE jobs' \in [{"one", "all"} -> Nat]
    BY <1>13 DEF Spawn
  <1>14. ASSUME BeginShutdownDrain PROVE TypeOK'
    BY <1>13, <1>14 DEF BeginShutdownDrain, request, waiting, instance, wakers, drops
  <1>15. ASSUME ReloadCookbook PROVE TypeOK'
    BY <1>13, <1>15 DEF ReloadCookbook, request, waiting, wakers, drops
  <1>16. ASSUME RetireDrained PROVE TypeOK'
    BY <1>13, <1>16 DEF RetireDrained, request, waiting, wakers, drops, node
  <1>17. ASSUME UNCHANGED vars PROVE TypeOK'
    BY <1>17 DEF vars
  <1> HIDE DEF TypeOK
  <1> QED BY <1>1, <1>2, <1>3, <1>4, <1>5, <1>6, <1>7, <1>8, <1>9, <1>10, <1>11, <1>12,
             <1>14, <1>15, <1>16, <1>17
          DEF Next, Acquire, Notify, Walks, AllAnswered

----------------------------------------------------------------------------
(* Who owns a token.                                                       *)

Owned(r) == \/ token[r] \/ chan[r] = "permit" \/ r \in permit_drops
            \/ \E c \in Callers : stage[c] = "release" /\ hand[c] = r

LEMMA OwnersStep ==
    ASSUME TypeOK, Places, PendingTokensAreOwned, [Next]_vars
    PROVE  PendingTokensAreOwned'
  <1>0. /\ \A x \in pending : x \in Requests /\ Owned(x)
        /\ PendingTokensAreOwned' <=> \A x \in pending' : Owned(x)'
    BY DEF TypeOK, PendingTokensAreOwned, Owned
  <1> SUFFICES ASSUME NEW x \in pending' PROVE Owned(x)'
    BY <1>0
  <1>1. ASSUME x \in pending,
               UNCHANGED <<token, chan, permit_drops, stage, hand>>
        PROVE  Owned(x)'
    BY <1>0, <1>1 DEF Owned
  <1>2. ASSUME NEW r \in Requests, Walks(r) PROVE Owned(x)'
    <2>1. Move(r)
      BY <1>2, WalksMove
    <2>2. /\ chan' = chan /\ stage' = stage /\ hand' = hand /\ permit_drops' = permit_drops
      BY <2>1 DEF Move, wakers, drops
    <2>3. CASE UNCHANGED <<token, pending>>
      BY <1>1, <2>2, <2>3
    <2>4. CASE ReleaseToken(r)
      <3>1. x \in pending /\ (x = r => ~token[r])
        BY <2>4 DEF ReleaseToken
      <3>2. x \in Requests /\ token'[x] = token[x]
        BY <1>0, <2>4, <3>1, ZenonT(30) DEF ReleaseToken, TypeOK
      <3> QED BY <1>0, <2>2, <3>1, <3>2 DEF Owned
    <2> QED BY <2>1, <2>3, <2>4 DEF Move
  \* A wake that starts or ends holds nothing it got back.
  <1>3. ASSUME x \in pending, NEW c \in Callers, stage[c] # "release", NEW s,
               stage' = [stage EXCEPT ![c] = s] \/ stage' = stage,
               \A d \in Callers \ {c} : hand'[d] = hand[d],
               UNCHANGED <<token, chan, permit_drops>>
        PROVE  Owned(x)'
    <2>1. \A d \in Callers : stage[d] = "release" => stage'[d] = "release" /\ hand'[d] = hand[d]
      BY <1>3 DEF TypeOK
    <2> QED BY <1>0, <1>3, <2>1 DEF Owned
  <1>4. ASSUME NEW r \in Requests, WakeForSlots(r) PROVE Owned(x)'
    <2>1. /\ pending' = pending /\ token' = token /\ chan' = chan /\ hand' = hand
          /\ permit_drops' = permit_drops
          /\ stage' = [stage EXCEPT ![r] = "pop"] \/ stage' = stage
      BY <1>4 DEF WakeForSlots, StartWake, waiting, drops
    <2>2. r \in Callers /\ stage[r] # "release"
      BY <1>4 DEF Callers, WakeForSlots, Places, Wakes
    <2> QED BY <1>3, <2>1, <2>2
  <1>5. ASSUME NEW r \in Requests, WakeReturns(r) PROVE Owned(x)'
    BY <1>1, <1>5 DEF WakeReturns, waiting, wakers, drops
  <1>6. ASSUME NEW r \in Requests, Enqueue(r) PROVE Owned(x)'
    <2>1. /\ pending' = pending /\ token' = token /\ stage' = stage /\ hand' = hand
          /\ permit_drops' = permit_drops
      BY <1>6 DEF Enqueue, wakers, drops
    <2>2. chan[r] # "permit"
      BY <1>6 DEF Enqueue, Places, Channels, RxAlive
    <2>3. chan[x] = "permit" => chan'[x] = "permit"
      BY <1>0, <1>6, <2>1, <2>2, Zenon DEF Enqueue, TypeOK
    <2> QED BY <1>0, <2>1, <2>3 DEF Owned
  <1>7. ASSUME NEW r \in Requests, ReceivePermit(r) \/ SenderGone(r) \/ Expire(r)
        PROVE  Owned(x)'
    <2>1. pending' = pending /\ stage' = stage /\ hand' = hand /\ x \in Requests
      BY <1>0, <1>7 DEF ReceivePermit, SenderGone, Expire, waiting, wakers
    <2>2. /\ token[x] => token'[x]
          /\ x \in permit_drops => x \in permit_drops'
          /\ chan[x] = "permit" => token'[x] \/ x \in permit_drops' \/ chan'[x] = "permit"
      BY <1>7, <2>1 DEF ReceivePermit, SenderGone, Expire, TypeOK, drops
    <2> QED BY <1>0, <2>1, <2>2 DEF Owned
  <1>8. ASSUME NEW r \in Requests, RemoveOwnEntry(r) PROVE Owned(x)'
    BY <1>1, <1>8 DEF RemoveOwnEntry, wakers, drops
  <1>9. ASSUME NEW r \in Requests, DropEntry(r) PROVE Owned(x)'
    BY <1>1, <1>9 DEF DropEntry, request, wakers
  <1>10. ASSUME NEW r \in Requests, DropPermit(r) PROVE Owned(x)'
    <2>1. x \in pending /\ x # r
      BY <1>10 DEF DropPermit
    <2> QED BY <1>0, <1>10, <2>1 DEF DropPermit, request, wakers, Owned
  <1>11. ASSUME NEW r \in Requests, Cancel(r) PROVE Owned(x)'
    <2>1. pending' = pending /\ x \in Requests /\ r \in Callers
      BY <1>0, <1>11 DEF Cancel, waiting, Callers
    <2>2. /\ permit_drops' = permit_drops \cup DroppedTokens(r)
          /\ token' = [token EXCEPT ![r] = FALSE]
          /\ stage' = [stage EXCEPT ![r] = "idle"] /\ hand' = [hand EXCEPT ![r] = NoOne]
      BY <1>11 DEF Cancel, EndWake
    <2>3. CASE token[x]
      BY <2>1, <2>2, <2>3 DEF Owned, DroppedTokens, TypeOK
    <2>4. CASE chan[x] = "permit"
      <3>1. hand[r] # x
        BY <2>1, <2>4, RequestsAssumption, Zenon DEF Places, OnePlace, InHand
      <3>2. x # r => chan'[x] = "permit"
        BY <1>11, <2>1, <2>4, <3>1 DEF Cancel, CloseChannels
      <3>3. CASE x # r
        BY <3>2, <3>3 DEF Owned
      <3>4. CASE x = r
        <4>1. r \in {y \in {r} : token[y] \/ chan[y] = "permit"}
          BY <2>4, <3>4
        <4>2. r \in DroppedTokens(r)
          BY <4>1 DEF DroppedTokens
        <4> QED BY <2>2, <3>4, <4>2 DEF Owned
      <3> QED BY <3>3, <3>4, Zenon
    <2>5. CASE x \in permit_drops
      BY <2>2, <2>5 DEF Owned
    <2>6. ASSUME NEW c \in Callers, stage[c] = "release", hand[c] = x PROVE Owned(x)'
      <3>1. CASE c = r
        BY <2>2, <2>6, <3>1 DEF Owned, DroppedTokens
      <3>2. CASE c # r
        BY <2>1, <2>2, <2>6, <3>2 DEF Owned, TypeOK
      <3> QED BY <3>1, <3>2
    <2> QED BY <1>0, <2>1, <2>3, <2>4, <2>5, <2>6 DEF Owned
  <1>12. ASSUME NEW c \in Callers, Pop(c) PROVE Owned(x)'
    <2>1. /\ pending' = pending /\ token' = token /\ chan' = chan
          /\ permit_drops' = permit_drops /\ stage[c] # "release"
          /\ \E s : stage' = [stage EXCEPT ![c] = s]
          /\ \A d \in Callers \ {c} : hand'[d] = hand[d]
      BY <1>12 DEF Pop, EndWake, request, drops, TypeOK
    <2> QED BY <1>3, <2>1, ZenonT(30)
  <1>13. ASSUME NEW c \in Callers, Promote(c) PROVE Owned(x)'
    <2>1. /\ pending' = pending \cup {hand[c]} /\ token' = token
          /\ permit_drops' = permit_drops /\ stage[c] = "promote" /\ hand[c] \in Requests
      BY <1>13 DEF Promote, drops, Places, Wakes, TypeOK
    <2>2. CASE RxAlive(hand[c])
      <3>1. /\ chan' = [chan EXCEPT ![hand[c]] = "permit"]
            /\ hand' = [hand EXCEPT ![c] = NoOne]
            /\ \E s : stage' = [stage EXCEPT ![c] = s]
        BY <1>13, <2>2 DEF Promote, AfterNotify, StartWake, EndWake
      <3>2. x = hand[c] => chan'[x] = "permit"
        BY <2>1, <3>1 DEF TypeOK
      <3>3. ASSUME x \in pending PROVE Owned(x)'
        <4>1. chan[x] = "permit" => chan'[x] = "permit"
          BY <1>0, <3>1, <3>3 DEF TypeOK
        <4>2. \A d \in Callers : stage[d] = "release" =>
                                    stage'[d] = "release" /\ hand'[d] = hand[d]
          BY <2>1, <3>1 DEF TypeOK
        <4> QED BY <1>0, <2>1, <3>3, <4>1, <4>2 DEF Owned
      <3> QED BY <2>1, <3>2, <3>3 DEF Owned
    <2>3. CASE ~RxAlive(hand[c])
      <3>1. stage' = [stage EXCEPT ![c] = "release"] /\ chan' = chan /\ hand' = hand
        BY <1>13, <2>3 DEF Promote
      <3>2. \A d \in Callers : stage[d] = "release" \/ d = c => stage'[d] = "release"
        BY <3>1 DEF TypeOK
      <3> QED BY <1>0, <2>1, <3>1, <3>2 DEF Owned
    <2> QED BY <2>2, <2>3
  <1>14. ASSUME NEW c \in Callers, ReleaseReturned(c) PROVE Owned(x)'
    <2>1. /\ x \in pending /\ x # hand[c] /\ token' = token /\ chan' = chan
          /\ permit_drops' = permit_drops
      BY <1>14 DEF ReleaseReturned, request, drops
    <2>2. \A d \in Callers \ {c} : stage'[d] = stage[d] /\ hand'[d] = hand[d]
      BY <1>14 DEF ReleaseReturned, TypeOK
    <2> QED BY <1>0, <2>1, <2>2 DEF Owned
  <1>15. ASSUME NEW t \in Tasks, RunJob(t) PROVE Owned(x)'
    <2>1. /\ pending' = pending /\ token' = token /\ chan' = chan /\ hand' = hand
          /\ permit_drops' = permit_drops /\ stage[t] # "release" /\ t \in Callers
          /\ stage' = [stage EXCEPT ![t] = "pop"]
      BY <1>15 DEF RunJob, StartWake, request, waiting, drops, Callers
    <2> QED BY <1>3, <2>1, Zenon
  <1>16. ASSUME MaintenanceTick PROVE Owned(x)'
    <2>1. /\ pending' = pending /\ token' = token /\ chan' = chan /\ hand' = hand
          /\ permit_drops' = permit_drops /\ stage[Maintenance] # "release"
          /\ stage' = [stage EXCEPT ![Maintenance] = "pop"] /\ Maintenance \in Callers
      BY <1>16 DEF MaintenanceTick, StartWake, request, waiting, drops, Callers
    <2> QED BY <1>3, <2>1, ZenonT(30)
  <1>17. ASSUME \/ ReleaseSlot \/ BeginShutdownDrain \/ ReloadCookbook
                \/ RetireDrained \/ AllAnswered \/ UNCHANGED vars
         PROVE  Owned(x)'
    BY <1>1, <1>17
       DEF ReleaseSlot, BeginShutdownDrain, ReloadCookbook, RetireDrained, AllAnswered,
           request, waiting, wakers, drops, vars
  <1> QED BY <1>2, <1>4, <1>5, <1>6, <1>7, <1>8, <1>9, <1>10, <1>11, <1>12, <1>13, <1>14, Zenon,
             <1>15, <1>16, <1>17 DEF Next, Acquire, Notify, Walks

----------------------------------------------------------------------------
(* Slots.                                                                  *)

\* How the number of users changes with the label of one request.
LEMMA UsersMove ==
    ASSUME TypeOK, NEW r \in Requests, NEW label, Goto(r, label)
    PROVE  /\ r \in Users <=> pc[r] \in {"acquired", "running"}
           /\ (r \in Users <=> label \in {"acquired", "running"}) => Users' = Users
           /\ r \in Users /\ label \notin {"acquired", "running"} =>
                  Cardinality(Users') = Cardinality(Users) - 1
           /\ r \notin Users /\ label \in {"acquired", "running"} =>
                  Cardinality(Users') = Cardinality(Users) + 1
  <1>1. pc'[r] = label /\ \A x \in Requests \ {r} : pc'[x] = pc[x]
    BY DEF Goto, TypeOK
  <1>2. r \in Users <=> pc[r] \in {"acquired", "running"}
    BY DEF Users
  <1>3. (r \in Users <=> label \in {"acquired", "running"}) => Users' = Users
    BY <1>1 DEF Users
  <1>4. r \in Users /\ label \notin {"acquired", "running"} => Users' = Users \ {r}
    BY <1>1 DEF Users
  <1>5. r \notin Users /\ label \in {"acquired", "running"} => Users' = Users \cup {r}
    BY <1>1 DEF Users
  <1> HIDE DEF Users
  <1>6. r \in Users => Cardinality(Users \ {r}) = Cardinality(Users) - 1
    BY UsersType, FS_RemoveElement, Zenon
  <1>7. r \notin Users => Cardinality(Users \cup {r}) = Cardinality(Users) + 1
    BY UsersType, FS_AddElement, ZenonT(30)
  <1> QED BY <1>2, <1>3, <1>4, <1>5, <1>6, <1>7

Slotted == SlotsAreAccounted /\ Gone

LEMMA SlotsQuiet ==
    ASSUME Slotted, UNCHANGED <<inst, in_flight, releases>>, Users' = Users
    PROVE  Slotted'
  BY DEF Slotted, SlotsAreAccounted, Gone, Users

\* The pick under the instances lock: the only place that takes a slot.
LEMMA SlotsPick ==
    ASSUME TypeOK, Slotted, NEW r \in Requests, pc[r] \in {"lock", "held"},
           PickInstance(r), releases' = releases
    PROVE  Slotted'
  <1>1. r \notin Users /\ Cardinality(Users) \in Nat /\ releases \in Nat
    BY UsersType DEF Users, TypeOK
  <1>2. CASE inst = "gone" \/ (inst = "live" /\ in_flight < Slots)
    <2>1. /\ in_flight' = in_flight + 1 /\ Goto(r, "acquired")
          /\ inst' = IF inst = "gone" THEN "draining" ELSE inst
      BY <1>2 DEF PickInstance
    <2>2. Cardinality(Users') = Cardinality(Users) + 1
      BY <1>1, <2>1, UsersMove
    <2>3. in_flight \in Nat /\ Slots \in Nat /\ Slots >= 1 /\ in_flight < Slots
      BY <1>2, LimitsAssumption DEF TypeOK, Slotted, Gone
    <2>4. in_flight = Cardinality(Users) + releases
      BY DEF Slotted, SlotsAreAccounted, Users
    <2>5. in_flight' = Cardinality(Users') + releases' /\ in_flight' <= Slots
      BY <1>1, <2>1, <2>2, <2>3, <2>4
    <2> QED BY <2>1, <2>5 DEF Slotted, SlotsAreAccounted, Gone, Users
  <1>3. CASE ~(inst = "gone" \/ (inst = "live" /\ in_flight < Slots))
    <2>1. Goto(r, "blocked") /\ UNCHANGED <<inst, in_flight>>
      BY <1>3 DEF PickInstance, instance
    <2> QED BY <1>1, <2>1, UsersMove, SlotsQuiet
  <1> QED BY <1>2, <1>3

\* A user leaves its slot to a scheduled release.
LEMMA SlotsHandOver ==
    ASSUME TypeOK, Slotted, NEW r \in Requests, pc[r] \in {"acquired", "running"},
           Goto(r, "done"), releases' = releases + 1, UNCHANGED <<inst, in_flight>>
    PROVE  Slotted'
  <1>1. Cardinality(Users') = Cardinality(Users) - 1
    BY UsersMove DEF Users
  <1>2. Cardinality(Users) \in Nat /\ releases \in Nat
    BY UsersType DEF TypeOK
  <1>3. in_flight = Cardinality(Users) + releases
    BY DEF Slotted, SlotsAreAccounted, Users
  <1>4. in_flight' = Cardinality(Users') + releases'
    BY <1>1, <1>2, <1>3
  <1> QED BY <1>4 DEF Slotted, SlotsAreAccounted, Gone, Users

LEMMA SlotsWalk ==
    ASSUME TypeOK, Slotted, NEW r \in Requests, Walks(r)
    PROVE  Slotted'
  \* A request that neither takes nor leaves a slot.
  <1>1. ASSUME NEW label, Goto(r, label), pc[r] \notin {"acquired", "running"},
               label \notin {"acquired", "running"},
               UNCHANGED <<inst, in_flight, releases>>
        PROVE  Slotted'
    BY <1>1, UsersMove, SlotsQuiet, ZenonT(30) DEF Users
  <1>2. ASSUME FailRemoved(r), pc[r] \in {"top", "lock"} PROVE Slotted'
    BY <1>1, <1>2 DEF FailRemoved, instance
  <1>3. CASE Arrive(r)
    BY <1>1, <1>3 DEF Arrive, instance
  <1>4. CASE Top(r)
    <2>1. CASE LeaveAtTop(r)
      BY <1>1, <1>4, <2>1 DEF Top, LeaveAtTop, instance
    <2>2. CASE FairnessCheck(r)
      <3>1. \E label \in {"lock", "nudge", "fair"} : Goto(r, label)
        BY <2>2 DEF FairnessCheck
      <3> QED BY <1>1, <1>4, <2>2, <3>1 DEF Top, FairnessCheck, instance
    <2> QED BY <1>2, <1>4, <2>1, <2>2 DEF Top
  <1>5. CASE FairnessPending(r)
    <2>1. \E label \in {"nudge", "lock"} : Goto(r, label)
      BY <1>5 DEF FairnessPending
    <2> QED BY <1>1, <1>5, <2>1 DEF FairnessPending, instance
  <1>6. CASE StillWaiters(r)
    <2>1. \E label \in {"yield", "again_pending", "top"} : Goto(r, label)
      BY <1>6 DEF StillWaiters
    <2> QED BY <1>1, <1>6, <2>1 DEF StillWaiters, instance
  <1>7. CASE TakeMapLock(r)
    <2>1. \/ PickInstance(r)
          \/ \E label \in {"yield", "held"} : Goto(r, label) /\ UNCHANGED <<inst, in_flight>>
      BY <1>7 DEF TakeMapLock, instance
    <2> QED BY <1>1, <1>7, <2>1, SlotsPick DEF TakeMapLock
  <1>8. CASE SecondAdopt(r)
    BY <1>2, <1>8 DEF SecondAdopt
  <1>9. CASE UnderMapLock(r)
    <2>1. \/ PickInstance(r)
          \/ Goto(r, "yield") /\ UNCHANGED <<inst, in_flight>>
      BY <1>9 DEF UnderMapLock, instance
    <2> QED BY <1>1, <1>9, <2>1, SlotsPick DEF UnderMapLock
  <1>10. CASE Blocked(r)
    BY <1>1, <1>10 DEF Blocked, instance
  <1>11. CASE Acquired(r)
    BY <1>11, UsersMove, SlotsQuiet, ZenonT(30) DEF Acquired, instance, Users
  <1>12. CASE Finish(r)
    BY <1>12, SlotsHandOver DEF Finish, instance
  <1> QED BY <1>3, <1>4, <1>5, <1>6, <1>7, <1>8, <1>9, <1>10, <1>11, <1>12, ZenonT(30) DEF Walks

LEMMA SlotsStep ==
    ASSUME TypeOK, Slotted, [Next]_vars
    PROVE  Slotted'
  <1>1. ASSUME NEW r \in Requests, NEW label, Goto(r, label),
               pc[r] \notin {"acquired", "running"},
               label \notin {"acquired", "running"},
               UNCHANGED <<inst, in_flight, releases>>
        PROVE  Slotted'
    BY <1>1, UsersMove, SlotsQuiet, ZenonT(30) DEF Users
  <1>2. ASSUME NEW r \in Requests, WakeForSlots(r) \/ WakeReturns(r) PROVE Slotted'
    <2>1. \E label \in {"nudging", "rechecking", "again", "wait"} : Goto(r, label)
      BY <1>2, Zenon DEF WakeForSlots, WakeReturns
    <2> QED BY <1>1, <1>2, <2>1, Zenon DEF WakeForSlots, WakeReturns, instance
  <1>3. ASSUME NEW r \in Requests, Enqueue(r) PROVE Slotted'
    <2>1. \E label \in {"wait", "recheck", "done"} : Goto(r, label)
      BY <1>3 DEF Enqueue
    <2> QED BY <1>1, <1>3, <2>1 DEF Enqueue, instance
  <1>4. ASSUME NEW r \in Requests,
               ReceivePermit(r) \/ SenderGone(r) \/ Expire(r) \/ RemoveOwnEntry(r)
        PROVE  Slotted'
    BY <1>1, <1>4 DEF ReceivePermit, SenderGone, Expire, RemoveOwnEntry, instance
  <1>5. ASSUME NEW r \in Requests, Cancel(r) PROVE Slotted'
    <2>1. Goto(r, "done") /\ UNCHANGED <<inst, in_flight>> /\ pc[r] # "running"
      BY <1>5 DEF Cancel, instance
    <2>2. CASE pc[r] = "acquired"
      <3>1. releases' = releases + 1
        BY <1>5, <2>2 DEF Cancel, DroppedSlots
      <3> QED BY <2>1, <2>2, <3>1, SlotsHandOver
    <2>3. CASE pc[r] # "acquired"
      <3>1. releases' = releases
        BY <1>5, <2>3 DEF Cancel, DroppedSlots, TypeOK
      <3> QED BY <1>1, <2>1, <2>3, <3>1
    <2> QED BY <2>2, <2>3
  <1>6. ASSUME pc' = pc, UNCHANGED <<inst, in_flight, releases>> PROVE Slotted'
    BY <1>6, SlotsQuiet DEF Users
  <1>7. ASSUME NEW r \in Requests, DropEntry(r) \/ DropPermit(r) PROVE Slotted'
    BY <1>6, <1>7 DEF DropEntry, DropPermit, request, instance
  <1>8. ASSUME NEW c \in Callers, Notify(c) PROVE Slotted'
    BY <1>6, <1>8 DEF Notify, Pop, Promote, ReleaseReturned, request, instance
  <1>9. ASSUME NEW t \in Tasks, RunJob(t) PROVE Slotted'
    BY <1>6, <1>9 DEF RunJob, request, instance
  <1>10. ASSUME MaintenanceTick \/ BeginShutdownDrain \/ AllAnswered \/ UNCHANGED vars
         PROVE  Slotted'
    BY <1>6, <1>10
       DEF MaintenanceTick, BeginShutdownDrain, AllAnswered, request, instance, vars
  <1>11. ASSUME ReloadCookbook \/ RetireDrained PROVE Slotted'
    BY <1>11 DEF ReloadCookbook, RetireDrained, request, Slotted, SlotsAreAccounted, Gone
  <1>12. ASSUME ReleaseSlot PROVE Slotted'
    <2>1. /\ Users' = Users /\ inst' = inst /\ releases > 0 /\ releases' = releases - 1
          /\ in_flight' = in_flight - 1
      BY <1>12 DEF ReleaseSlot, Users, request
    <2>2. /\ Cardinality(Users) \in Nat /\ releases \in Nat /\ Slots \in Nat
          /\ in_flight = Cardinality(Users) + releases /\ in_flight <= Slots
      BY UsersType, LimitsAssumption DEF TypeOK, Slotted, SlotsAreAccounted, Users
    <2>3. in_flight' = Cardinality(Users') + releases' /\ in_flight' <= Slots
      BY <2>1, <2>2
    <2>4. inst # "gone"
      BY <2>1, <2>2 DEF Slotted, Gone
    <2> QED BY <2>1, <2>3, <2>4 DEF Slotted, SlotsAreAccounted, Gone, Users
  <1> QED BY <1>2, <1>3, <1>4, <1>5, <1>7, <1>8, <1>9, <1>10, <1>11, <1>12, SlotsWalk
          DEF Next, Acquire, Walks

----------------------------------------------------------------------------
(* Shutdown's wake.                                                        *)

\* Nobody is left that runs, or will run, notify_all_queues.
NoWakeAll ==
    jobs["all"] = 0 /\ \A c \in Callers : stage[c] # "idle" => budget[c] # 0

\* A step that leaves the queue empty and starts no shutdown keeps the property when a
\* wake of notify_all_queues that is on its way stays on its way.
LEMMA DrainKept ==
    ASSUME DrainEmptiesQueue, draining' = draining, NoWakeAll' => NoWakeAll,
           draining /\ queue = << >> => queue' = << >>
    PROVE  DrainEmptiesQueue'
  <1>1. DrainEmptiesQueue <=> (draining /\ NoWakeAll => queue = << >>)
    BY DEF DrainEmptiesQueue, NoWakeAll
  <1>2. DrainEmptiesQueue' <=> (draining' /\ NoWakeAll' => queue' = << >>)
    BY DEF DrainEmptiesQueue, NoWakeAll
  <1> QED BY <1>1, <1>2

LEMMA RetainEmpty == \A S : Retain(<< >>, S) = << >>
  <1> TAKE S
  <1> DEFINE e == << >>
  <1>1. e \in Seq({}) /\ Len(e) = 0
    OBVIOUS
  <1>2. Retain(e, S) \in Seq({}) /\ Len(Retain(e, S)) <= 0
    <2> HIDE DEF e
    <2> QED BY <1>1, RetainKeeps, ZenonT(30)
  <1> QED BY <1>2

LEMMA DrainStep ==
    ASSUME TypeOK, Places, DrainEmptiesQueue, [Next]_vars
    PROVE  DrainEmptiesQueue'
  <1>0. \A r \in Requests : Without(<< >>, r) = << >>
    BY RetainEmpty DEF Without
  <1>1. ASSUME draining' = draining, UNCHANGED <<stage, budget>>,
               jobs'["all"] = 0 => jobs["all"] = 0,
               draining /\ queue = << >> => queue' = << >>
        PROVE  DrainEmptiesQueue'
    BY <1>1, DrainKept DEF NoWakeAll
  <1>2. ASSUME NEW r \in Requests, Walks(r) PROVE DrainEmptiesQueue'
    <2>1. draining' = draining /\ UNCHANGED <<queue, stage, budget>>
      BY <1>2, WalksMove DEF Move, wakers
    <2>2. jobs' = jobs \/ Spawn("one")
      BY <1>2 DEF Walks, Arrive, Top, FailRemoved, LeaveAtTop, FairnessCheck,
                  FairnessPending, StillWaiters, TakeMapLock, SecondAdopt, UnderMapLock,
                  Blocked, Acquired, Finish
    <2>3. jobs'["all"] = jobs["all"]
      BY <2>2 DEF Spawn, TypeOK
    <2> QED BY <1>1, <2>1, <2>3
  \* A wake of notify_all_queues stays one until the queue is empty or it finds that
  \* nothing drains; another wake never stands for it.
  <1>3. ASSUME NEW c \in Callers, draining' = draining, jobs' = jobs,
               draining /\ queue = << >> => queue' = << >>,
               stage[c] # "idle" => budget[c] # 0,
               \A d \in Callers \ {c} : stage'[d] = stage[d] /\ budget'[d] = budget[d]
        PROVE  DrainEmptiesQueue'
    BY <1>3, DrainKept DEF NoWakeAll
  <1>4. ASSUME NEW r \in Requests, WakeForSlots(r) PROVE DrainEmptiesQueue'
    <2>1. /\ draining' = draining /\ jobs' = jobs /\ queue' = queue /\ r \in Callers
          /\ stage[r] # "idle" => budget[r] # 0
      BY <1>4, ZenonT(30) DEF WakeForSlots, waiting, node, Callers, Places, Wakes
    <2>2. \A d \in Callers \ {r} : stage'[d] = stage[d] /\ budget'[d] = budget[d]
      BY <1>4, ZenonT(30) DEF WakeForSlots, StartWake, TypeOK
    <2> QED BY <1>3, <2>1, <2>2
  <1>5. ASSUME NEW r \in Requests, Cancel(r) PROVE DrainEmptiesQueue'
    <2>1. /\ draining' = draining /\ jobs' = jobs /\ queue' = queue /\ r \in Callers
          /\ stage[r] # "idle" => budget[r] # 0
      BY <1>5, ZenonT(30) DEF Cancel, waiting, node, Callers, Places, Wakes
    <2>2. \A d \in Callers \ {r} : stage'[d] = stage[d] /\ budget'[d] = budget[d]
      BY <1>5 DEF Cancel, EndWake, TypeOK
    <2> QED BY <1>3, <2>1, <2>2
  <1>6. ASSUME MaintenanceTick PROVE DrainEmptiesQueue'
    <2>1. /\ draining' = draining /\ jobs' = jobs /\ queue' = queue
          /\ Maintenance \in Callers /\ stage[Maintenance] = "idle"
      BY <1>6 DEF MaintenanceTick, waiting, node, Callers
    <2>2. \A d \in Callers \ {Maintenance} : stage'[d] = stage[d] /\ budget'[d] = budget[d]
      BY <1>6 DEF MaintenanceTick, StartWake, TypeOK
    <2> QED BY <1>3, <2>1, <2>2, ZenonT(30)
  <1>7. ASSUME NEW t \in Tasks, RunJob(t) PROVE DrainEmptiesQueue'
    <2>1. PICK kind \in {"one", "all"} :
              /\ jobs[kind] > 0 /\ jobs' = [jobs EXCEPT ![kind] = @ - 1]
              /\ StartWake(t, IF kind = "all" THEN 0 ELSE 1)
      BY <1>7, ZenonT(30) DEF RunJob
    <2>2. t \in Callers /\ draining' = draining /\ queue' = queue /\ stage[t] = "idle"
      BY <1>7 DEF RunJob, Callers, waiting, node
    <2>3. \A d \in Callers \ {t} : stage'[d] = stage[d] /\ budget'[d] = budget[d]
      BY <2>1 DEF StartWake, TypeOK
    <2>4. CASE kind = "all"
      <3>1. stage'[t] = "pop" /\ budget'[t] = 0
        BY <2>1, <2>2, <2>4 DEF StartWake, TypeOK
      <3>2. ~NoWakeAll'
        BY <2>2, <3>1, ZenonT(30) DEF NoWakeAll
      <3> QED BY <2>2, <3>2, DrainKept
    <2>5. CASE kind = "one"
      <3>1. jobs'["all"] = jobs["all"]
        BY <2>1, <2>5 DEF TypeOK
      <3>2. NoWakeAll' => NoWakeAll
        BY <2>2, <2>3, <3>1 DEF NoWakeAll
      <3> QED BY <2>2, <3>2, DrainKept
    <2> QED BY <2>4, <2>5
  <1>8. ASSUME NEW c \in Callers, Pop(c) PROVE DrainEmptiesQueue'
    <2>1. draining' = draining /\ jobs' = jobs /\ stage[c] = "pop"
      BY <1>8 DEF Pop, node
    <2>2. CASE queue = << >>
      BY <1>8, <2>2 DEF Pop, DrainEmptiesQueue
    <2>3. CASE queue # << >>
      <3>1. stage' = [stage EXCEPT ![c] = "promote"] /\ budget' = budget
        BY <1>8, <2>3 DEF Pop
      <3>2. \A d \in Callers : stage[d] # "idle" => stage'[d] # "idle"
        BY <3>1 DEF TypeOK
      <3>3. NoWakeAll' => NoWakeAll
        BY <2>1, <3>1, <3>2 DEF NoWakeAll
      <3> QED BY <2>1, <2>3, <3>3, DrainKept
    <2> QED BY <2>2, <2>3
  <1>9. ASSUME NEW c \in Callers, Promote(c) PROVE DrainEmptiesQueue'
    <2>1. /\ draining' = draining /\ jobs' = jobs /\ queue' = queue
          /\ stage[c] = "promote" /\ budget[c] \in Nat
      BY <1>9 DEF Promote, node, TypeOK
    <2>2. CASE stage' = [stage EXCEPT ![c] = "release"] /\ budget' = budget
      <3>1. \A d \in Callers : stage[d] # "idle" => stage'[d] # "idle"
        BY <2>2 DEF TypeOK
      <3>2. NoWakeAll' => NoWakeAll
        BY <2>1, <2>2, <3>1 DEF NoWakeAll
      <3> QED BY <2>1, <3>2, DrainKept
    <2>3. CASE AfterNotify(c)
      <3>1. \A d \in Callers \ {c} : stage'[d] = stage[d] /\ budget'[d] = budget[d]
        BY <2>3 DEF AfterNotify, StartWake, EndWake, TypeOK
      <3>2. CASE budget[c] # 0
        BY <1>3, <2>1, <3>1, <3>2
      <3>3. CASE budget[c] = 0 /\ draining
        <4>1. StartWake(c, 0)
          BY <2>3, <3>3 DEF AfterNotify
        <4>2. stage'[c] = "pop" /\ budget'[c] = 0
          BY <4>1 DEF StartWake, TypeOK
        <4>3. ~NoWakeAll'
          BY <4>2 DEF NoWakeAll
        <4> QED BY <2>1, <4>3, DrainKept
      <3>4. CASE ~draining
        BY <2>1, <3>4 DEF DrainEmptiesQueue
      <3> QED BY <3>2, <3>3, <3>4
    <2> QED BY <1>9, <2>2, <2>3 DEF Promote
  <1>10. ASSUME NEW c \in Callers, ReleaseReturned(c) PROVE DrainEmptiesQueue'
    <2>1. /\ draining' = draining /\ jobs' = jobs /\ queue' = queue /\ budget' = budget
          /\ stage[c] = "release" /\ stage' = [stage EXCEPT ![c] = "pop"]
      BY <1>10 DEF ReleaseReturned, node
    <2>2. \A d \in Callers : stage[d] # "idle" => stage'[d] # "idle"
      BY <2>1 DEF TypeOK
    <2>3. NoWakeAll' => NoWakeAll
      BY <2>1, <2>2, ZenonT(30) DEF NoWakeAll
    <2> QED BY <2>1, <2>3, DrainKept
  <1>11. ASSUME NEW r \in Requests, Enqueue(r) PROVE DrainEmptiesQueue'
    <2>1. draining => queue' = queue
      BY <1>11 DEF Enqueue, MayEnqueue
    <2> QED BY <1>1, <1>11, <2>1 DEF Enqueue, wakers, node
  <1>12. ASSUME NEW r \in Requests, RemoveOwnEntry(r) \/ DropEntry(r)
         PROVE  DrainEmptiesQueue'
    BY <1>0, <1>1, <1>12 DEF RemoveOwnEntry, DropEntry, wakers, node
  <1>13. ASSUME NEW r \in Requests, \/ WakeReturns(r) \/ ReceivePermit(r) \/ SenderGone(r)
                                    \/ Expire(r) \/ DropPermit(r)
         PROVE  DrainEmptiesQueue'
    BY <1>1, <1>13 DEF WakeReturns, ReceivePermit, SenderGone, Expire, DropPermit,
                       waiting, wakers, node
  <1>14. ASSUME ReleaseSlot PROVE DrainEmptiesQueue'
    <2>1. \E kind \in {"one", "all"} : jobs' = [jobs EXCEPT ![kind] = @ + 1]
      BY <1>14, Zenon DEF ReleaseSlot, Spawn
    <2>2. jobs'["all"] = 0 => jobs["all"] = 0
      BY <2>1 DEF TypeOK
    <2> QED BY <1>1, <1>14, <2>2 DEF ReleaseSlot, waiting, wakers, node
  <1>15. ASSUME BeginShutdownDrain \/ ReloadCookbook \/ RetireDrained
         PROVE  DrainEmptiesQueue'
    <2>1. jobs'["all"] = jobs["all"] + 1 /\ jobs["all"] \in Nat
      BY <1>15 DEF BeginShutdownDrain, ReloadCookbook, RetireDrained, Spawn, TypeOK
    <2>2. jobs'["all"] # 0
      BY <2>1
    <2> QED BY <2>2 DEF DrainEmptiesQueue
  <1>16. ASSUME UNCHANGED vars PROVE DrainEmptiesQueue'
    BY <1>1, <1>16 DEF vars
  <1> QED BY <1>2, <1>4, <1>5, <1>6, <1>7, <1>8, <1>9, <1>10, <1>11, <1>12, <1>13, <1>14,
             <1>15, <1>16 DEF Next, Acquire, Notify, Walks, AllAnswered

----------------------------------------------------------------------------
(* The theorems.                                                           *)

LEMMA IInvInit == Init => IInv
  <1> SUFFICES ASSUME Init PROVE IInv
    OBVIOUS
  <1>1. TypeOK
    <2>1. limit.queue \in Nat /\ queue \in Seq(Requests) /\ Len(queue) = 0
      BY LimitsAssumption DEF Init
    <2>2. /\ pc \in [Requests -> PCs] /\ token \in [Requests -> BOOLEAN]
          /\ chan \in [Requests -> {"idle", "open", "permit", "closed"}]
      BY DEF Init, PCs
    <2>3. /\ stage \in [Callers -> Stages] /\ hand \in [Callers -> Requests \cup {NoOne}]
          /\ budget \in [Callers -> Nat] /\ jobs \in [{"one", "all"} -> Nat]
      BY DEF Init, Stages
    <2>4. limit.queue # 0 => Len(queue) <= limit.queue
      BY <2>1
    <2> QED BY <2>1, <2>2, <2>3, <2>4, Zenon DEF Init, TypeOK
  <1>2. Queued = {} /\ InHand = {} /\ Once(queue)
    BY DEF Init, Queued, InHand, Once
  <1>3. Places
    <2>1. Channels /\ Drops /\ SleepersAreReachable
      BY DEF Init, Channels, Drops, SleepersAreReachable, RxAlive
    <2>2. Wakes
      BY DEF Init, Wakes, Callers
    <2>3. OnePlace
      BY <1>2 DEF Init, OnePlace
    <2> QED BY <2>1, <2>2, <2>3 DEF Places
  <1>4. SlotsAreAccounted /\ Gone
    <2>1. Users = {}
      BY DEF Init, Users
    <2>2. Cardinality(Users) = 0
      BY <2>1, FS_EmptySet
    <2>3. in_flight = 0 /\ releases = 0 /\ 0 <= Slots
      BY LimitsAssumption DEF Init
    <2> QED BY <2>2, <2>3 DEF SlotsAreAccounted, Gone, Users
  <1>5. PendingTokensAreOwned /\ DrainEmptiesQueue
    BY DEF Init, PendingTokensAreOwned, DrainEmptiesQueue
  <1> QED BY <1>1, <1>3, <1>4, <1>5 DEF IInv, QueueIsConsistent

LEMMA IInvStep == IInv /\ [Next]_vars => IInv'
  <1> SUFFICES ASSUME IInv, [Next]_vars PROVE IInv'
    OBVIOUS
  <1>1. TypeOK /\ Places /\ Slotted /\ PendingTokensAreOwned /\ DrainEmptiesQueue
    BY DEF IInv, QueueIsConsistent, Slotted
  <1>2. TypeOK'
    <2>1. CASE Next
      BY <1>1, <2>1, TypeMove, TypeOthers DEF Slotted
    <2>2. CASE UNCHANGED vars
      BY <1>1, <2>2 DEF vars, TypeOK
    <2> QED BY <2>1, <2>2
  <1>3. Places' /\ Slotted' /\ PendingTokensAreOwned' /\ DrainEmptiesQueue'
    BY <1>1, PlacesStep, SlotsStep, OwnersStep, DrainStep
  <1> QED BY <1>2, <1>3 DEF IInv, QueueIsConsistent, Slotted

\* get_instance_for_model, notify_queue_by_key and the guards of node_state/mod.rs: for any
\* number of requests, threads and slots and any limits, every token has an owner that
\* releases it, in_flight_requests counts the users and the scheduled releases and stays
\* within the slots, the queue stays within its limit, and shutdown's wake leaves it empty.
THEOREM QueueConsistency == Spec => []QueueIsConsistent
  <1>1. IInv => QueueIsConsistent
    BY DEF IInv
  <1> QED BY <1>1, IInvInit, IInvStep, PTL DEF Spec

\* The wake path and the guards lose no sleeper: the entry of a request that waits on an
\* open channel is in the queue or in the hand of a wake, whoever is pruned, times out or
\* is cancelled around it.
THEOREM SleepersReachable == Spec => []SleepersAreReachable
  <1>1. IInv => SleepersAreReachable
    BY DEF IInv, Places
  <1> QED BY <1>1, IInvInit, IInvStep, PTL DEF Spec

=============================================================================
