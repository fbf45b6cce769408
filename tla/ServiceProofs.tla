---------------------------- MODULE ServiceProofs ----------------------------
(***************************************************************************)
(* What two parts of every server guarantee: the queue of stations         *)
(* (mqueue) and the service thread (thread_svc).  Each has its own         *)
(* specification and variables.                                            *)
(***************************************************************************)
EXTENDS MQueue, ThreadSvc, FiniteSetTheorems, TLAPS

(***************************************************************************)
(* mqueue for any number of queues, entries, numbers and threads.  The     *)
(* streaming servers use one of its queues and ask for room for every      *)
(* station: then that queue never overflows, and holds each station that   *)
(* is marked exactly once.  The reason is that its entries are different   *)
(* stations, so that one that is not queued leaves room for itself.        *)
(***************************************************************************)
\* The slot k places after f, without the division.
Slot(f, k) == IF f + k < count THEN f + k ELSE f + k - count

LEMMA Wraps ==
  ASSUME NEW n \in Nat \ {0}, NEW i \in 0 .. 2 * n - 1
  PROVE  i % n = IF i < n THEN i ELSE i - n
OBVIOUS

\* Where the code divides, for the indexes that occur.
LEMMA SlotIs ==
  ASSUME NEW f \in 0 .. N, NEW k \in 0 .. N
  PROVE  (f + k) % count = Slot(f, k) /\ Slot(f, k) \in 0 .. N
<1>1. count \in Nat \ {0} /\ f + k \in 0 .. 2 * count - 1
  BY NAssumption DEF count
<1> DEFINE i == f + k
<1> HIDE DEF i
<1>2. i % count = IF i < count THEN i ELSE i - count BY <1>1, Wraps, Zenon DEF i
<1> QED BY <1>2, NAssumption DEF i, Slot, count

LEMMA SuccIs ==
  ASSUME NEW f \in 0 .. N
  PROVE  Succ(f) = Slot(f, 1) /\ Succ(f) \in 0 .. N
<1>1. 1 \in 0 .. N BY NAssumption
<1> QED BY <1>1, SlotIs, Zenon DEF Succ

\* Different places within the array are different slots.
LEMMA SlotsDiffer ==
  ASSUME NEW f \in 0 .. N, NEW u \in 0 .. N, NEW k \in 0 .. u - 1
  PROVE  Slot(f, k) \in 0 .. N /\ Slot(f, k) # Slot(f, u)
BY NAssumption DEF Slot, count

LEMMA SlotAfter ==
  ASSUME NEW f \in 0 .. N, NEW k \in 0 .. N - 1
  PROVE  Slot(Slot(f, 1), k) = Slot(f, k + 1)
BY NAssumption DEF Slot, count

-----------------------------------------------------------------------------
\* What the operations do, case by case.
Stores(n, q) ==
    LET i == location[n].q IN
    /\ queue' = [(IF i > q THEN ClearOld(n, i) ELSE queue) EXCEPT ![q][rear[q]] = n]
    /\ location' = [location EXCEPT ![n] = [q |-> q, i |-> rear[q]]]
    /\ rear' = [rear EXCEPT ![q] = Slot(@, 1)]
    /\ use_cnt' = [use_cnt EXCEPT ![q] = @ + 1]
    /\ inqueue_cnt' = inqueue_cnt + 1
    /\ SignalOne /\ UNCHANGED front

Overflows(n, q) ==
    /\ location' = [location EXCEPT ![n].q = q]
    /\ UNCHANGED <<queue, front, rear, use_cnt, inqueue_cnt, pc>>

Sleeps(d) ==
    /\ inqueue_cnt = 0 /\ pc' = [pc EXCEPT ![d] = "asleep"]
    /\ UNCHANGED <<queue, front, rear, use_cnt, inqueue_cnt, location>>

Takes(d, i) ==
    LET rc == queue[i][front[i]] IN
    /\ use_cnt[i] > 0 /\ inqueue_cnt # 0
    /\ location' = Unmarked(rc)
    /\ pc' = [pc EXCEPT ![d] = IF rc >= 0 THEN "idle" ELSE "awake"]
    /\ front' = [front EXCEPT ![i] = Slot(@, 1)]
    /\ use_cnt' = [use_cnt EXCEPT ![i] = @ - 1]
    /\ inqueue_cnt' = inqueue_cnt - 1
    /\ UNCHANGED <<queue, rear>>

LEMMA EnqueueCases ==
  ASSUME TypeOK, NEW n \in Values, NEW q \in EnqTo, mq_enqueue(n, q)
  PROVE  /\ q \in Queues /\ q \in Nat
         /\ location[n].q < 0 \/ location[n].q > q
         /\ \/ use_cnt[q] < N /\ Stores(n, q)
            \/ use_cnt[q] = N /\ Overflows(n, q)
<1>1. q \in Queues /\ q \in Nat BY QueuesAssumption, Zenon
<1>2. use_cnt[q] \in 0 .. N /\ count - 1 = N /\ N \in Nat BY <1>1, NAssumption DEF TypeOK, count
<1>3. Succ(rear[q]) = Slot(rear[q], 1) BY <1>1, SuccIs, Zenon DEF TypeOK
<1>4. location[n].q < 0 \/ location[n].q > q BY Zenon DEF mq_enqueue
<1>5. CASE use_cnt[q] < N
  <2>1. rear' = [rear EXCEPT ![q] = Succ(rear[q])] BY <1>2, <1>5 DEF mq_enqueue
  <2>2. rear' = [rear EXCEPT ![q] = Slot(rear[q], 1)] BY <1>3, <2>1, Zenon
  <2>3. use_cnt[q] < count - 1 /\ ~(use_cnt[q] >= count - 1) BY <1>2, <1>5
  <2>4. Stores(n, q) BY <2>2, <2>3, Zenon DEF mq_enqueue, Stores
  <2> QED BY <1>1, <1>4, <1>5, <2>4, Zenon
<1>6. CASE use_cnt[q] = N
  <2>1. Overflows(n, q) BY <1>2, <1>6 DEF mq_enqueue, Overflows
  <2> QED BY <1>1, <1>4, <1>6, <2>1, Zenon
<1> QED BY <1>2, <1>5, <1>6

LEMMA DequeueCases ==
  ASSUME TypeOK, NEW d \in Dequeuers, mq_dequeue(d)
  PROVE  Sleeps(d) \/ \E i \in Queues : Takes(d, i)
<1>1. CASE inqueue_cnt = 0 BY <1>1, Zenon DEF mq_dequeue, Sleeps
<1>2. CASE inqueue_cnt # 0
  <2>1. \A i \in Queues : Succ(front[i]) = Slot(front[i], 1) BY SuccIs, Zenon DEF TypeOK
  <2> QED BY <1>2, <2>1, Zenon DEF mq_dequeue, Takes
<1> QED BY <1>1, <1>2, Zenon

-----------------------------------------------------------------------------
Arrays == [Queues -> [0 .. N -> Values \cup {0, Hole}]]
Locations == [Values -> [q : Queues \cup {-1}, i : -1 .. N]]

\* Every step keeps the types.
LEMMA StepTyped ==
  ASSUME TypeOK, [Next]_vars
  PROVE  TypeOK'
<1> USE NAssumption, ValuesAssumption, QueuesAssumption DEF Arrays, Locations
<1>1. ASSUME NEW n \in Values, NEW q \in EnqTo, mq_enqueue(n, q) PROVE TypeOK'
  <2>1. /\ q \in Queues /\ rear[q] \in 0 .. N /\ use_cnt[q] \in 0 .. N
        /\ location[n].q \in Queues \cup {-1}
    BY Zenon DEF TypeOK
  <2>2. CASE use_cnt[q] < N /\ Stores(n, q)
    <3>1. (IF location[n].q > q THEN ClearOld(n, location[n].q) ELSE queue) \in Arrays
      BY <2>1, Zenon DEF TypeOK, ClearOld
    <3>2. queue' \in Arrays BY <2>1, <2>2, <3>1, Zenon DEF Stores
    <3>3. location' \in Locations
      <4>1. [q |-> q, i |-> rear[q]] \in [q : Queues \cup {-1}, i : -1 .. N] BY <2>1
      <4>2. location \in Locations BY Zenon DEF TypeOK
      <4>3. location' = [location EXCEPT ![n] = [q |-> q, i |-> rear[q]]] BY <2>2, Zenon DEF Stores
      <4> QED BY <4>1, <4>2, <4>3, Zenon
    <3>4. rear' \in [Queues -> 0 .. N] /\ front' = front
      BY <2>1, <2>2, SuccIs, Zenon DEF Stores, TypeOK
    <3>5. use_cnt[q] + 1 \in 0 .. N BY <2>1, <2>2
    <3>6. use_cnt' \in [Queues -> 0 .. N] /\ inqueue_cnt' \in Nat
      BY <2>2, <3>5 DEF Stores, TypeOK
    <3>7. pc' \in [Dequeuers -> {"idle", "asleep", "awake"}]
      BY <2>2, Zenon DEF Stores, TypeOK, SignalOne
    <3> QED BY <3>2, <3>3, <3>4, <3>6, <3>7, Zenon DEF TypeOK
  <2>3. CASE Overflows(n, q) BY <2>1, <2>3, Zenon DEF Overflows, TypeOK
  <2> QED BY <1>1, <2>2, <2>3, EnqueueCases, Zenon
<1>2. ASSUME NEW d \in Dequeuers, Sleeps(d) PROVE TypeOK'
  BY <1>2, Zenon DEF Sleeps, TypeOK
<1>3. ASSUME NEW d \in Dequeuers, NEW i \in Queues, Takes(d, i) PROVE TypeOK'
  <2>1. location' \in Locations
    <3> DEFINE rc == queue[i][front[i]]
               L == [q : Queues \cup {-1}, i : -1 .. N]
    <3>1. location' = Unmarked(rc) BY <1>3, Zenon DEF Takes
    <3>2. location \in [Values -> L] BY Zenon DEF TypeOK
    <3>3. ASSUME NEW x \in L PROVE [x EXCEPT !.q = -1] \in L BY Zenon
    <3> HIDE DEF rc, L
    <3>4. Unmarked(rc) \in [Values -> L] BY <3>2, <3>3, Zenon DEF Unmarked
    <3> QED BY <3>1, <3>4, Zenon DEF L
  <2>2. front' \in [Queues -> 0 .. N] BY <1>3, SuccIs, Zenon DEF Takes, TypeOK
  <2>3. use_cnt' \in [Queues -> 0 .. N] /\ inqueue_cnt' \in Nat BY <1>3 DEF Takes, TypeOK
  <2> QED BY <1>3, <2>1, <2>2, <2>3, Zenon DEF Takes, TypeOK
<1>4. CASE UNCHANGED vars BY <1>4, Zenon DEF vars, TypeOK
<1> QED BY <1>1, <1>2, <1>3, <1>4, DequeueCases, Zenon DEF Next

-----------------------------------------------------------------------------
\* rear is use_cnt slots after front.
InStep == \A q \in Queues : rear[q] = Slot(front[q], use_cnt[q])

LEMMA StepInStep ==
  ASSUME TypeOK, InStep, [Next]_vars
  PROVE  InStep'
<1> USE NAssumption, QueuesAssumption
<1>1. ASSUME NEW n \in Values, NEW q \in EnqTo, mq_enqueue(n, q) PROVE InStep'
  <2>1. CASE use_cnt[q] < N /\ Stores(n, q)
    <3>1. /\ q \in Queues /\ front[q] \in 0 .. N /\ use_cnt[q] \in 0 .. N
          /\ rear[q] = Slot(front[q], use_cnt[q])
      BY Zenon DEF TypeOK, InStep
    <3>2. Slot(rear[q], 1) = Slot(front[q], use_cnt[q] + 1) BY <2>1, <3>1 DEF Slot, count
    <3> QED BY <2>1, <3>1, <3>2, Zenon DEF Stores, TypeOK, InStep
  <2>2. CASE Overflows(n, q) BY <2>2, Zenon DEF Overflows, InStep
  <2> QED BY <1>1, <2>1, <2>2, EnqueueCases, Zenon
<1>2. ASSUME NEW d \in Dequeuers, Sleeps(d) PROVE InStep'
  BY <1>2, Zenon DEF Sleeps, InStep
<1>3. ASSUME NEW d \in Dequeuers, NEW i \in Queues, Takes(d, i) PROVE InStep'
  <2>1. /\ front[i] \in 0 .. N /\ use_cnt[i] \in 1 .. N
        /\ rear[i] = Slot(front[i], use_cnt[i])
    BY <1>3 DEF TypeOK, InStep, Takes
  <2>2. Slot(Slot(front[i], 1), use_cnt[i] - 1) = rear[i] BY <2>1 DEF Slot, count
  <2> QED BY <1>3, <2>1, <2>2, Zenon DEF Takes, TypeOK, InStep
<1>4. CASE UNCHANGED vars BY <1>4, Zenon DEF vars, InStep
<1> QED BY <1>1, <1>2, <1>3, <1>4, DequeueCases, Zenon DEF Next

-----------------------------------------------------------------------------
Awake == {d \in Dequeuers : pc[d] = "awake"}

LEMMA AwakeCounted == IsFiniteSet(Awake) /\ Cardinality(Awake) \in Nat
BY DequeuersAssumption, FS_Subset, FS_CardinalityType, Zenon DEF Awake

\* A signal gives each new entry a dequeuer; one that leaves takes an entry with it.
LEMMA StepWakes ==
  ASSUME TypeOK, NoLostWakeup, [Next]_vars
  PROVE  NoLostWakeup'
<1>0. NoLostWakeup <=> ((\E d \in Dequeuers : pc[d] = "asleep") => inqueue_cnt <= Cardinality(Awake))
  BY Zenon DEF NoLostWakeup, Awake
<1>1. NoLostWakeup' <=> ((\E d \in Dequeuers : pc'[d] = "asleep") =>
                            inqueue_cnt' <= Cardinality(Awake'))
  BY Zenon DEF NoLostWakeup, Awake
<1>2. ASSUME NEW n \in Values, NEW q \in EnqTo, mq_enqueue(n, q) PROVE NoLostWakeup'
  <2>1. CASE Stores(n, q)
    <3>1. ASSUME NEW d \in Dequeuers, pc[d] = "asleep", pc' = [pc EXCEPT ![d] = "awake"]
          PROVE  NoLostWakeup'
      <4>1. Awake' = Awake \cup {d} /\ d \notin Awake BY <3>1, Zenon DEF Awake, TypeOK
      <4>2. Cardinality(Awake') = Cardinality(Awake) + 1
        BY <4>1, AwakeCounted, FS_AddElement, Zenon
      <4> QED BY <1>0, <1>1, <2>1, <3>1, <4>2, AwakeCounted DEF Stores, TypeOK
    <3> QED BY <1>1, <2>1, <3>1, Zenon DEF Stores, SignalOne
  <2>2. CASE Overflows(n, q) BY <2>2, Zenon DEF Overflows, NoLostWakeup
  <2> QED BY <1>2, <2>1, <2>2, EnqueueCases, Zenon
<1>3. ASSUME NEW d \in Dequeuers, Sleeps(d) PROVE NoLostWakeup'
  <2>1. Awake' \in SUBSET Dequeuers BY Zenon DEF Awake
  <2>2. Cardinality(Awake') \in Nat BY <2>1, DequeuersAssumption, FS_Subset, FS_CardinalityType, Zenon
  <2> QED BY <1>1, <1>3, <2>2 DEF Sleeps
<1>4. ASSUME NEW d \in Dequeuers, NEW i \in Queues, Takes(d, i) PROVE NoLostWakeup'
  <2>1. Awake \ {d} \subseteq Awake' /\ Awake' \in SUBSET Dequeuers
    BY <1>4, Zenon DEF Takes, Awake, TypeOK
  <2>2. IsFiniteSet(Awake') /\ Cardinality(Awake') \in Nat
    BY <2>1, DequeuersAssumption, FS_Subset, FS_CardinalityType, Zenon
  <2>3. Cardinality(Awake \ {d}) <= Cardinality(Awake') BY <2>1, <2>2, FS_Subset, Zenon
  <2>4. Cardinality(Awake \ {d}) \in {Cardinality(Awake), Cardinality(Awake) - 1}
    BY AwakeCounted, FS_RemoveElement, Zenon
  <2>5. (\E e \in Dequeuers : pc'[e] = "asleep") => \E e \in Dequeuers : pc[e] = "asleep"
    BY <1>4, Zenon DEF Takes, TypeOK
  <2>6. inqueue_cnt' = inqueue_cnt - 1 /\ inqueue_cnt \in Nat BY <1>4, Zenon DEF Takes, TypeOK
  <2> QED BY <1>0, <1>1, <2>2, <2>3, <2>4, <2>5, <2>6, AwakeCounted
<1>5. CASE UNCHANGED vars BY <1>5, Zenon DEF vars, NoLostWakeup
<1> QED BY <1>2, <1>3, <1>4, <1>5, DequeueCases, Zenon DEF Next

-----------------------------------------------------------------------------
(* One queue in use, with room for every number.                           *)

At(q, k) == queue[q][Slot(front[q], k)]
Held(q) == 0 .. use_cnt[q] - 1

Alone(q) ==
    /\ \A k \in Held(q) : At(q, k) \in Values
    /\ \A j, k \in Held(q) : At(q, j) = At(q, k) => j = k
    /\ \A n \in Values : location[n].q = q <=> \E k \in Held(q) : At(q, k) = n
    /\ \A n \in Values : location[n].q \in {-1, q}
    /\ \A p \in Queues \ {q} : use_cnt[p] = 0

Roomy(q) == q \in Queues /\ EnqTo = {q} /\ IsFiniteSet(Values) /\ Cardinality(Values) <= N

\* The entries are different numbers, and n is not among them.
LEMMA RoomForOne ==
  ASSUME NEW q, Roomy(q), TypeOK, Alone(q), NEW n \in Values, location[n].q # q
  PROVE  use_cnt[q] < N
<1> DEFINE entries == [k \in Held(q) |-> At(q, k)]
<1>1. entries \in Injection(Held(q), Values \ {n})
  BY Zenon DEF Alone, Injection, IsInjective
<1>2. IsFiniteSet(Values \ {n}) /\ Cardinality(Values \ {n}) = Cardinality(Values) - 1
  BY FS_RemoveElement, Zenon DEF Roomy
<1>3. Cardinality(Held(q)) <= Cardinality(Values) - 1
  BY <1>1, <1>2, FS_Injection
<1>4. use_cnt[q] \in 0 .. N /\ N \in Nat BY NAssumption, Zenon DEF TypeOK, Roomy
<1>5. Cardinality(Held(q)) = use_cnt[q]
  <2>1. 0 \in Int /\ use_cnt[q] - 1 \in Int BY <1>4
  <2>2. Cardinality(0 .. use_cnt[q] - 1) = IF 0 > use_cnt[q] - 1 THEN 0 ELSE use_cnt[q] - 1 - 0 + 1
    BY <2>1, FS_Interval, Zenon
  <2> QED BY <1>4, <2>2 DEF Held
<1>6. Cardinality(Values) \in Nat BY FS_CardinalityType, Zenon DEF Roomy
<1> QED BY <1>3, <1>4, <1>5, <1>6 DEF Roomy

LEMMA StepAlone ==
  ASSUME NEW q, Roomy(q), TypeOK, InStep, Alone(q), [Next]_vars
  PROVE  Alone(q)'
<1> USE NAssumption, ValuesAssumption, QueuesAssumption
<1>0. /\ q \in Queues /\ q \in Nat /\ front[q] \in 0 .. N /\ use_cnt[q] \in 0 .. N
      /\ queue[q] \in [0 .. N -> Values \cup {0, Hole}] /\ rear[q] = Slot(front[q], use_cnt[q])
      /\ rear[q] \in 0 .. N
  BY Zenon DEF Roomy, TypeOK, InStep
<1>1. ASSUME NEW n \in Values, mq_enqueue(n, q) PROVE Alone(q)'
  <2>0. q \in EnqTo /\ location[n].q \in {-1, q} BY Zenon DEF Roomy, Alone
  <2>1. location[n].q = -1 /\ location[n].q # q /\ ~(location[n].q > q)
    <3>1. location[n].q < 0 \/ location[n].q > q BY <1>1, <2>0, EnqueueCases, Zenon
    <3>2. q \in Nat BY <1>0, Zenon
    <3>3. CASE location[n].q = q BY <3>1, <3>2, <3>3
    <3>4. CASE location[n].q = -1 BY <3>2, <3>4
    <3> QED BY <2>0, <3>3, <3>4, Zenon
  <2>2. use_cnt[q] < N /\ use_cnt[q] # N
    <3>1. use_cnt[q] < N BY <2>1, RoomForOne, Zenon
    <3>2. use_cnt[q] \in Int /\ N \in Int BY <1>0
    <3> QED BY <3>1, <3>2
  <2>3. Stores(n, q) BY <1>1, <2>0, <2>2, EnqueueCases, Zenon
  <2>4. queue' = [queue EXCEPT ![q][rear[q]] = n] BY <1>0, <2>1, <2>3, Zenon DEF Stores
  <2>5. front' = front /\ use_cnt' = [use_cnt EXCEPT ![q] = @ + 1] BY <2>3, Zenon DEF Stores
  <2>6. Held(q)' = Held(q) \cup {use_cnt[q]} /\ use_cnt[q] \notin Held(q)
    BY <1>0, <2>5 DEF Held, TypeOK
  <2>7. \A k \in Held(q) : Slot(front[q], k) \in 0 .. N /\ Slot(front[q], k) # rear[q]
    <3>1. ASSUME NEW k \in 0 .. use_cnt[q] - 1
          PROVE  Slot(front[q], k) \in 0 .. N /\ Slot(front[q], k) # Slot(front[q], use_cnt[q])
      BY <1>0, <3>1, SlotsDiffer, Zenon
    <3> QED BY <1>0, <3>1, Zenon DEF Held
  <2>8. \A k \in Held(q) : At(q, k)' = At(q, k)
    BY <1>0, <2>4, <2>5, <2>7, Zenon DEF At, TypeOK
  <2>9. queue'[q][Slot(front'[q], use_cnt[q])] = n
    BY <1>0, <2>4, <2>5, Zenon DEF At, TypeOK
  <2>10. location' = [location EXCEPT ![n] = [q |-> q, i |-> rear[q]]] BY <2>3, Zenon DEF Stores
  <2>11. \A k \in Held(q) : At(q, k) # n BY <2>1, Zenon DEF Alone
  <2>12. \A k \in Held(q)' : At(q, k)' = IF k \in Held(q) THEN At(q, k) ELSE n
    BY <2>6, <2>8, <2>9, Zenon DEF At
  <2>13. (\A k \in Held(q) : At(q, k) \in Values)' BY <2>12 DEF Alone
  <2>14. (\A j, k \in Held(q) : At(q, j) = At(q, k) => j = k)' BY <2>6, <2>11, <2>12 DEF Alone
  <2>15. \A m \in Values : location'[m].q = IF m = n THEN q ELSE location[m].q
    BY <2>10, Zenon DEF TypeOK
  <2>16. \A m \in Values : (\E k \in Held(q)' : At(q, k)' = m) <=>
                              (m = n \/ \E k \in Held(q) : At(q, k) = m)
    BY <2>6, <2>12, Zenon
  <2>17. \A p \in Queues \ {q} : use_cnt'[p] = 0 BY <2>5, Zenon DEF Alone, TypeOK
  <2> QED BY <2>13, <2>14, <2>15, <2>16, <2>17, Zenon DEF Alone
<1>2. ASSUME NEW d \in Dequeuers, Sleeps(d) PROVE Alone(q)'
  BY <1>2, Zenon DEF Sleeps, Alone, At, Held
<1>3. ASSUME NEW d \in Dequeuers, NEW i \in Queues, Takes(d, i) PROVE Alone(q)'
  <2>0. use_cnt[i] > 0 BY <1>3, Zenon DEF Takes
  <2>1. i = q
    <3>1. i # q => use_cnt[i] = 0 BY Zenon DEF Alone
    <3> QED BY <2>0, <3>1
  <2>2. 0 \in Held(q) /\ At(q, 0) = queue[q][front[q]]
    BY <1>0, <1>3, <2>1 DEF Takes, Held, At, Slot, count
  <2>3. location' = [location EXCEPT ![At(q, 0)].q = -1] /\ At(q, 0) \in Values
    <3>1. At(q, 0) \in Values BY <2>2, Zenon DEF Alone
    <3>2. \A n \in Values : n >= 0 OBVIOUS
    <3> QED BY <1>3, <2>1, <2>2, <3>1, <3>2, Zenon DEF Takes, Unmarked
  <2>4. queue' = queue /\ front'[q] = Slot(front[q], 1) /\ use_cnt' = [use_cnt EXCEPT ![q] = @ - 1]
    BY <1>0, <1>3, <2>1, Zenon DEF Takes, TypeOK
  <2>5. \A k \in Held(q)' : k + 1 \in Held(q) /\ k \in Nat
    BY <1>0, <2>4 DEF Held, TypeOK
  <2>6. \A k \in Held(q)' : Slot(Slot(front[q], 1), k) = Slot(front[q], k + 1)
    <3>1. \A k \in Held(q)' : k \in 0 .. N - 1 BY <1>0, <2>5 DEF Held
    <3> QED BY <1>0, <3>1, SlotAfter, Zenon
  <2>7. \A k \in Held(q)' : At(q, k)' = At(q, k + 1) BY <2>4, <2>6, Zenon DEF At
  <2>8. \A k \in Held(q) : k = 0 \/ k - 1 \in Held(q)' BY <1>0, <2>4 DEF Held, TypeOK
  <2>9. (\A k \in Held(q) : At(q, k) \in Values)' BY <2>5, <2>7 DEF Alone
  <2>10. (\A j, k \in Held(q) : At(q, j) = At(q, k) => j = k)'
    BY <2>5, <2>7 DEF Alone
  <2>11. \A n \in Values : (\E k \in Held(q)' : At(q, k)' = n) <=>
                              (n # At(q, 0) /\ \E k \in Held(q) : At(q, k) = n)
    BY <1>0, <2>2, <2>5, <2>7, <2>8 DEF Alone, Held
  <2>12. \A n \in Values : location'[n].q = IF n = At(q, 0) THEN -1 ELSE location[n].q
    BY <2>3, Zenon DEF TypeOK
  <2>13. \A p \in Queues \ {q} : use_cnt'[p] = 0 BY <2>4, Zenon DEF Alone, TypeOK
  <2>14. \A n \in Values : location'[n].q = q <=> (\E k \in Held(q)' : At(q, k)' = n)
    <3>1. -1 # q BY <1>0
    <3> QED BY <2>11, <2>12, <3>1, Zenon DEF Alone
  <2>15. \A n \in Values : location'[n].q \in {-1, q} BY <2>12, Zenon DEF Alone
  <2> QED BY <2>9, <2>10, <2>13, <2>14, <2>15, Zenon DEF Alone
<1>4. CASE UNCHANGED vars BY <1>4, Zenon DEF vars, Alone, At, Held
<1> QED BY <1>1, <1>2, <1>3, <1>4, DequeueCases, Zenon DEF Next, Roomy

-----------------------------------------------------------------------------
LEMMA Initially == Init => TypeOK /\ InStep /\ NoLostWakeup
<1> SUFFICES ASSUME Init PROVE TypeOK /\ InStep /\ NoLostWakeup BY Zenon
<1>1. TypeOK BY NAssumption DEF Init, TypeOK
<1>2. InStep BY NAssumption DEF Init, InStep, Slot, count
<1>3. NoLostWakeup BY Zenon DEF Init, NoLostWakeup
<1> QED BY <1>1, <1>2, <1>3, Zenon

\* Every variable keeps its type, whatever is enqueued where: the indexes stay in
\* the arrays, although a number may be marked and not queued after an overflow.
THEOREM TypeCorrect == Spec => []TypeOK
<1>1. TypeOK /\ [Next]_vars => TypeOK' BY StepTyped, Zenon
<1> QED BY <1>1, Initially, PTL DEF Spec

\* front, rear and use_cnt of every queue agree, through holes and overflows.
THEOREM IndexesInStep == Spec => []IndexesAgree
<1>1. TypeOK /\ InStep /\ [Next]_vars => InStep' BY StepInStep, Zenon
<1>2. ASSUME TypeOK, InStep PROVE IndexesAgree
  BY <1>2, SlotIs DEF TypeOK, InStep, IndexesAgree
<1> QED BY <1>1, <1>2, Initially, TypeCorrect, PTL DEF Spec

\* No dequeuer sleeps while there is an entry that no other has been woken for,
\* for any number of dequeuers, one signal for each entry.
THEOREM WakeupsKept == Spec => []NoLostWakeup
<1>1. TypeOK /\ NoLostWakeup /\ [Next]_vars => NoLostWakeup' BY StepWakes
<1> QED BY <1>1, Initially, TypeCorrect, PTL DEF Spec

\* As the streaming servers use mqueue, with one queue and room for every
\* station: a station is marked if and only if it is in the queue, where it is
\* once, and a station that is not there finds room.
THEOREM StationsOnce ==
  ASSUME NEW CONSTANT q \in Queues, EnqTo = {q}, IsFiniteSet(Values), Cardinality(Values) <= N
  PROVE  Spec => [](EachOnce(q) /\ RoomLeft(q))
<1>1. Roomy(q) BY Zenon DEF Roomy
<1>2. Init => Alone(q)
  BY QueuesAssumption DEF Init, Alone, Held
<1>3. TypeOK /\ InStep /\ Alone(q) /\ [Next]_vars => Alone(q)' BY <1>1, StepAlone, Zenon
<1>4. TypeOK /\ InStep /\ [Next]_vars => InStep' BY StepInStep, Zenon
<1>5. ASSUME TypeOK, Alone(q) PROVE EachOnce(q) /\ RoomLeft(q)
  <2>1. \A k \in Held(q) : Entry(q, k) = At(q, k)
    <3>1. front[q] \in 0 .. N /\ \A k \in Held(q) : k \in 0 .. N
      BY <1>5, NAssumption DEF TypeOK, Held
    <3> QED BY <3>1, SlotIs, Zenon DEF Entry, At
  <2>2. EachOnce(q) BY <1>5, <2>1 DEF EachOnce, Alone, Held
  <2>3. ASSUME NEW n \in Values, location[n].q < 0 PROVE use_cnt[q] < count - 1
    <3>1. location[n].q # q BY <2>3, QueuesAssumption
    <3>2. use_cnt[q] < N BY <1>1, <1>5, <3>1, RoomForOne, Zenon
    <3> QED BY <3>2, NAssumption DEF count
  <2> QED BY <2>2, <2>3, Zenon DEF RoomLeft
<1> QED BY <1>2, <1>3, <1>4, <1>5, Initially, TypeCorrect, PTL DEF Spec

-----------------------------------------------------------------------------
(***************************************************************************)
(* The service thread is created, joined and freed once each.  The flags   *)
(* the owner reads lag behind the thread, so the inductive invariant ties  *)
(* them to where the thread really is: have_thr is set from create until   *)
(* the last store of the thread, and need_join is set for exactly the      *)
(* threads that have begun and that nobody is joining.                     *)
(***************************************************************************)
Joining == owner \in {"start_join", "stop_join"}
Begun == thr \notin {"none", "created"}

SvcInv ==
    /\ SvcTypes
    /\ have_thr = 1 <=> thr \notin {"none", "exiting", "dead"}
    /\ need_join = 1 <=> Begun /\ ~Joining
    /\ Joining => Begun
    /\ owner \in {"create", "start_join"} => have_thr = 0
    /\ owner = "create" => thr = "none"
    /\ (disposing = 1 /\ owner \in {"conti", "signal", "test"}) => thr # "created"
    /\ freed = 1 => thr = "none" /\ owner = "idle"

LEMMA SvcInitially == SvcInit => SvcInv
BY DEF SvcInit, SvcInv, SvcTypes, Joining, Begun

LEMMA ThreadIInv == SvcInv /\ (Thread \/ SpuriousWakeup) => SvcInv'
<1> USE DEF SvcInv, SvcTypes, Joining, Begun, flags, call
<1>1. SvcInv /\ ThrBegin => SvcInv'
  BY Zenon DEF ThrBegin
<1>2. ASSUME NEW from, NEW to, SvcInv, ThrGoto(from, to),
             from \in {"began", "tested", "asleep", "loop", "handler", "exiting"},
             to \in {"began", "tested", "asleep", "loop", "handler", "leaving", "dead"},
             from = "exiting" <=> to = "dead"
      PROVE  SvcInv'
  BY <1>2 DEF ThrGoto
<1>3. SvcInv /\ ThrTestWait => SvcInv'
  BY <1>2, Zenon DEF ThrTestWait
<1>4. SvcInv /\ (ThrSleep \/ SpuriousWakeup \/ ThrExit) => SvcInv'
  BY <1>2, Zenon DEF ThrSleep, SpuriousWakeup, ThrExit
<1>5. SvcInv /\ (ThrLoop \/ HandlerReturns) => SvcInv'
  BY <1>2, Zenon DEF ThrLoop, HandlerReturns
<1>6. SvcInv /\ ThrLeave => SvcInv'
  BY Zenon DEF ThrLeave
<1> QED BY <1>1, <1>3, <1>4, <1>5, <1>6, Zenon DEF Thread

LEMMA OwnerIInv ==
  SvcInv /\ (\/ thrsvc_start \/ thrsvc_stop \/ thrsvc_dispose \/ Finish
           \/ thrsvc_pause \/ thrsvc_conti \/ thrsvc_set_handler) => SvcInv'
<1> USE DEF SvcInv, SvcTypes, Joining, Begun, flags, call, thread, Calls, Wake
<1>1. SvcInv /\ thrsvc_start => SvcInv'
  BY DEF thrsvc_start
<1>2. SvcInv /\ thrsvc_stop => SvcInv'
  BY Zenon DEF thrsvc_stop
<1>3. SvcInv /\ thrsvc_dispose => SvcInv'
  BY DEF thrsvc_dispose
<1>4. SvcInv /\ StartJoin => SvcInv'
  BY Zenon DEF StartJoin
<1>5. SvcInv /\ StartCreate => SvcInv'
  BY Zenon DEF StartCreate
<1>6. SvcInv /\ StopConti => SvcInv'
  BY DEF StopConti
<1>7. SvcInv /\ StopSignal => SvcInv'
  BY Zenon DEF StopSignal
<1>8. SvcInv /\ StopTestJoin => SvcInv'
  BY Zenon DEF StopTestJoin
<1>9. SvcInv /\ StopJoin => SvcInv'
  BY Zenon DEF StopJoin
<1>10. SvcInv /\ thrsvc_pause => SvcInv'
  BY Zenon DEF thrsvc_pause
<1>11. SvcInv /\ thrsvc_conti => SvcInv'
  BY Zenon DEF thrsvc_conti
<1>12. SvcInv /\ thrsvc_set_handler => SvcInv'
  BY Zenon DEF thrsvc_set_handler
<1> QED BY <1>1, <1>2, <1>3, <1>4, <1>5, <1>6, <1>7, <1>8, <1>9, <1>10, <1>11, <1>12, Zenon DEF Finish

-----------------------------------------------------------------------------
\* The invariant holds of every behaviour, whether the owner pauses or not.
THEOREM SvcInductive == SvcSpec => []SvcInv
<1>1. SvcInv /\ UNCHANGED svcVars => SvcInv'
  BY DEF SvcInv, SvcTypes, Joining, Begun, svcVars, flags, call, thread
<1>2. SvcInv /\ [SvcNext]_svcVars => SvcInv'
  BY <1>1, ThreadIInv, OwnerIInv, Zenon DEF SvcNext
<1> QED BY SvcInitially, <1>2, PTL DEF SvcSpec

\* start never creates a second thread and never forgets an unjoined one.
THEOREM OneThreadHolds == SvcSpec => []OneThread
<1>1. SvcInv => OneThread
  BY Zenon DEF SvcInv, OneThread
<1> QED BY SvcInductive, <1>1, PTL

\* No thread is joined twice, and none before it exists.
THEOREM JoinsOnceHolds == SvcSpec => []JoinsOnce
<1>1. SvcInv => JoinsOnce
  BY Zenon DEF SvcInv, JoinsOnce, Joining, Begun
<1> QED BY SvcInductive, <1>1, PTL

\* Nothing runs on a freed structure.
THEOREM FreedIsQuietHolds == SvcSpec => []FreedIsQuiet
<1>1. SvcInv => FreedIsQuiet
  BY Zenon DEF SvcInv, FreedIsQuiet
<1> QED BY SvcInductive, <1>1, PTL
=============================================================================
