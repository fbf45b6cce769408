----------------------------- MODULE RingProofs -----------------------------
(***************************************************************************)
(* The two rings of the library.                                           *)
(*                                                                         *)
(* For any number of buffers, any data and any arguments of setbuf: the    *)
(* ring of BufferCache keeps its invariants, and implements FifoChannel.   *)
(* The inductive invariant IInv says where the two counters put the        *)
(* buffers: the ready ones start at rear, the one being filled follows     *)
(* them, the next free one is front, and the one being used is just before *)
(* rear.  PeekInStep alone is not inductive: top must be right also when   *)
(* everything ready was peeked.                                            *)
(*                                                                         *)
(* For any length and any elements: the ring of xlist.c is a double-ended  *)
(* queue.  The mapping reads the elements from front on; what makes it     *)
(* work is that rear is always usecnt slots after front, the invariant     *)
(* ListInStep, without which pop and push would touch another element.     *)
(***************************************************************************)
EXTENDS BufferCache, XList, TLAPS

-----------------------------------------------------------------------------
(* The ring of buffers.                                                    *)

Filling == IF Producing THEN 1 ELSE 0

\* Where each held buffer is, relative to rear.
Places ==
    /\ cpc # "clean" => /\ front < num /\ rear < num
                        /\ front = Ahead(buf_ready + Filling)
    /\ (cpc # "clean" /\ peeking = "on") => top = Ahead(top_used)
    /\ Producing => pslot = Ahead(buf_ready)
    /\ Consuming => cslot = IF rear = 0 THEN num - 1 ELSE rear - 1

\* How far a setbuf has got, and that the producer keeps out of it.
Resizing ==
    /\ resize_to # 0 => ppc = "idle" /\ cpc \in {"flush", "drop", "resize", "clean"}
    /\ cpc \in {"resize", "clean"} => resize_to # 0 /\ buf_ready = 0

IInv == TypeOK /\ Accounted /\ NoLostWakeup /\ PeekInStep /\ Places /\ Resizing

-----------------------------------------------------------------------------
\* Succ steps to the next slot of the ring and wraps at num.
LEMMA SuccWraps ==
  ASSUME NEW n \in Nat \ {0}, NEW i \in 0 .. n - 1
  PROVE  (i + 1) % n = IF i + 1 = n THEN 0 ELSE i + 1
OBVIOUS

\* What the counters say about held buffers keeps threads out of each
\* other's buffer.
LEMMA PlacesExclude == IInv => ExclusiveBuffers
<1> SUFFICES ASSUME IInv PROVE ExclusiveBuffers
  BY Zenon
<1> USE AllocatedAssumption DEF IInv, TypeOK, Accounted, Places, Resizing, Producing, Consuming, Filling, Slots
<1>1. (Producing /\ Consuming) => pslot # cslot
  BY DEF Ahead
<1>2. ASSUME Producing, NEW k \in 0 .. buf_ready - 1 PROVE pslot # Ahead(k)
  BY <1>2 DEF Ahead
<1>3. ASSUME Consuming, NEW k \in 0 .. buf_ready - 1 PROVE cslot # Ahead(k)
  BY <1>3 DEF Ahead
<1> QED BY <1>1, <1>2, <1>3, Zenon DEF ExclusiveBuffers, ReadySlots

LEMMA InitIInv == Init => IInv
  BY AllocatedAssumption DEF Init, IInv, TypeOK, Accounted, NoLostWakeup, PeekInStep, Places,
     Resizing, Ahead, Producing, Consuming, Filling, Slots, NoSlot

USE AllocatedAssumption, NBufAssumption DEF Producing, Consuming, Filling, Slots, NoSlot, Signal,
    ring, tops, prod, cons

LEMMA TakeFreeIInv ==
  ASSUME IInv, TakeFree, ppc \in {"idle", "woken"}, resize_to = 0, buf_free # 0
  PROVE  IInv'
<1>1. /\ cpc # "clean" /\ num \in Nat \ {0} /\ front \in 0 .. num - 1
  BY DEF IInv, TypeOK, Places, Resizing
<1>2. front' = IF front + 1 = num THEN 0 ELSE front + 1
  BY <1>1, SuccWraps, Zenon DEF TakeFree, Succ
<1>3. TypeOK'
  BY <1>1, <1>2 DEF IInv, TypeOK, TakeFree
<1>4. Accounted' /\ NoLostWakeup' /\ PeekInStep' /\ Resizing'
  BY <1>1 DEF IInv, TypeOK, TakeFree, Accounted, NoLostWakeup, PeekInStep, Resizing, Ahead
<1>5. Places'
  BY <1>1, <1>2 DEF IInv, TypeOK, TakeFree, Accounted, Places, Ahead
<1> QED BY <1>3, <1>4, <1>5, Zenon DEF IInv

LEMMA TakeReadyIInv ==
  ASSUME IInv, NEW pc \in {"use", "drop"}, TakeReady(pc), buf_ready # 0,
         \/ cpc \in {"idle", "woken"} /\ pc = "use"
         \/ cpc = "flush" /\ pc = "drop"
  PROVE  IInv'
<1>1. /\ cpc # "clean" /\ num \in Nat \ {0} /\ rear \in 0 .. num - 1
  BY DEF IInv, TypeOK, Places, Resizing
<1>2. rear' = IF rear + 1 = num THEN 0 ELSE rear + 1
  BY <1>1, SuccWraps, Zenon DEF TakeReady, Succ
<1>3. TypeOK'
  BY <1>1, <1>2 DEF IInv, TypeOK, TakeReady
<1>4. Accounted' /\ NoLostWakeup' /\ PeekInStep' /\ Resizing'
  BY <1>1 DEF IInv, TypeOK, TakeReady, Accounted, NoLostWakeup, PeekInStep, Resizing
<1>5. Places'
  BY <1>1, <1>2 DEF IInv, TypeOK, TakeReady, Accounted, Places, Ahead
<1> QED BY <1>3, <1>4, <1>5, Zenon DEF IInv

LEMMA ReleaseIInv ==
  ASSUME IInv, NEW pc \in {"idle", "flush"}, ReleaseTo(pc),
         \/ cpc = "use" /\ pc = "idle"
         \/ cpc = "drop" /\ pc = "flush"
  PROVE  IInv'
<1>1. TypeOK'
  BY DEF IInv, TypeOK, ReleaseTo, Accounted
<1>2. Accounted' /\ NoLostWakeup' /\ Resizing'
  BY DEF IInv, TypeOK, ReleaseTo, Accounted, NoLostWakeup, Resizing
<1>3. PeekInStep' /\ Places'
  BY Zenon DEF IInv, TypeOK, ReleaseTo, Accounted, PeekInStep, Places, Ahead
<1> QED BY <1>1, <1>2, <1>3, Zenon DEF IInv

\* Every step of the producer keeps the invariant.
LEMMA ProducerIInv == IInv /\ Producer => IInv'
<1> SUFFICES ASSUME IInv, Producer PROVE IInv'
  BY Zenon
<1>1. CASE bc_producer_request
  <2>1. CASE buf_free # 0 /\ TakeFree
    BY <1>1, <2>1, TakeFreeIInv, Zenon DEF bc_producer_request
  <2>2. CASE buf_free = 0 /\ ppc' = "asleep" /\ UNCHANGED <<ring, tops, dkbuf, pslot, cons>>
    BY <1>1, <2>2 DEF bc_producer_request, IInv, TypeOK, Accounted, NoLostWakeup, PeekInStep,
       Places, Resizing, Ahead
  <2> QED BY <1>1, <2>1, <2>2, Zenon DEF bc_producer_request
<1>2. CASE bc_producer_try_request
  BY <1>2, TakeFreeIInv, Zenon DEF bc_producer_try_request
<1>3. ASSUME NEW d \in Data, FillBuffer(d) PROVE IInv'
  BY <1>3 DEF FillBuffer, IInv, TypeOK, Accounted, NoLostWakeup, PeekInStep, Places, Resizing, Ahead
<1>4. CASE bc_producer_ready
  <2>1. TypeOK'
    BY <1>4 DEF bc_producer_ready, IInv, TypeOK, Accounted, Resizing
  <2>2. Accounted' /\ NoLostWakeup' /\ Resizing'
    BY <1>4 DEF bc_producer_ready, IInv, TypeOK, Accounted, NoLostWakeup, Resizing
  <2>3. cpc # "clean" /\ cpc' # "clean" /\ buf_ready < num
    BY <1>4 DEF bc_producer_ready, IInv, TypeOK, Accounted, Resizing
  <2>4. PeekInStep'
    BY <1>4, <2>3 DEF bc_producer_ready, IInv, TypeOK, Accounted, PeekInStep, Places, Ahead
  <2>5. Places'
    BY <1>4, <2>3 DEF bc_producer_ready, IInv, TypeOK, Accounted, Places, Ahead
  <2> QED BY <2>1, <2>2, <2>4, <2>5, Zenon DEF IInv
<1> QED BY <1>1, <1>2, <1>3, <1>4, Zenon DEF Producer

\* Every step of the consumer keeps the invariant, the ones inside a flush
\* or a resize included.
LEMMA ConsumerIInv == IInv /\ Consumer => IInv'
<1> SUFFICES ASSUME IInv, Consumer PROVE IInv'
  OBVIOUS
<1>1. CASE bc_consumer_request
  <2>1. CASE buf_ready # 0 /\ TakeReady("use")
    BY <1>1, <2>1, TakeReadyIInv, Zenon DEF bc_consumer_request
  <2>2. CASE buf_ready = 0 /\ cpc' = "asleep"
             /\ UNCHANGED <<ring, tops, dkbuf, prod, cslot, resize_to>>
    BY <1>1, <2>2 DEF bc_consumer_request, IInv, TypeOK, Accounted, NoLostWakeup, PeekInStep,
       Places, Resizing, Ahead
  <2> QED BY <1>1, <2>1, <2>2, Zenon DEF bc_consumer_request
<1>2. CASE bc_consumer_try_request
  BY <1>2, TakeReadyIInv, Zenon DEF bc_consumer_try_request
<1>3. CASE bc_consumer_release
  BY <1>3, ReleaseIInv, Zenon DEF bc_consumer_release
<1>4. CASE FlushTake
  BY <1>4, TakeReadyIInv, Zenon DEF FlushTake
<1>5. CASE FlushRelease
  BY <1>5, ReleaseIInv, Zenon DEF FlushRelease
<1>6. CASE StartFlush \/ bc_flush
  BY <1>6, Zenon DEF StartFlush, bc_flush, IInv, TypeOK, Accounted, NoLostWakeup, PeekInStep,
     Places, Resizing, Ahead
<1>7. ASSUME NEW nbuf \in NBuf, bc_setbuffer(nbuf) PROVE IInv'
  BY <1>7 DEF bc_setbuffer, IInv, TypeOK, Accounted, NoLostWakeup, PeekInStep, Places, Resizing, Ahead
<1>8. CASE bc_cleanup
  BY <1>8 DEF bc_cleanup, IInv, TypeOK, Accounted, NoLostWakeup, PeekInStep, Places, Resizing, Ahead
<1>9. CASE bc_top_reset
  BY <1>9 DEF bc_top_reset, IInv, TypeOK, Accounted, NoLostWakeup, PeekInStep, Places, Resizing, Ahead
<1>10. CASE bc_top_try_request
  <2>1. /\ cpc # "clean" /\ num \in Nat \ {0} /\ rear \in 0 .. num - 1 /\ top \in 0 .. num - 1
    BY <1>10 DEF bc_top_try_request, IInv, TypeOK, Places, PeekInStep, Accounted, Ahead
  <2>2. top' = IF top + 1 = num THEN 0 ELSE top + 1
    BY <1>10, <2>1, SuccWraps, Zenon DEF bc_top_try_request, Succ
  <2> QED BY <1>10, <2>1, <2>2 DEF bc_top_try_request, IInv, TypeOK, Accounted, NoLostWakeup,
             PeekInStep, Places, Resizing, Ahead
<1>11. CASE SetNum
  <2>1. TypeOK' /\ Accounted' /\ NoLostWakeup' /\ Resizing'
    BY <1>11 DEF SetNum, IInv, TypeOK, Accounted, NoLostWakeup, Resizing
  <2>2. PeekInStep' /\ Places'
    BY <1>11 DEF SetNum, IInv, TypeOK, PeekInStep, Places, Resizing, Ahead
  <2> QED BY <2>1, <2>2, Zenon DEF IInv
<1> QED BY <1>1, <1>2, <1>3, <1>4, <1>5, <1>6, <1>7, <1>8, <1>9, <1>10, <1>11, Zenon DEF Consumer

-----------------------------------------------------------------------------
\* IInv is inductive.
THEOREM Inductive == Spec => []IInv
<1>1. IInv /\ UNCHANGED vars => IInv'
  BY DEF vars, IInv, TypeOK, Accounted, NoLostWakeup, PeekInStep, Places, Resizing, Ahead
<1>2. IInv /\ [Next]_vars => IInv'
  BY <1>1, ProducerIInv, ConsumerIInv, Zenon DEF Next
<1> QED BY InitIInv, <1>2, PTL DEF Spec

\* Every variable of the ring keeps its type: front, rear and top never leave
\* the allocated buffers, whatever setbuf is asked for.
THEOREM TypeCorrect == Spec => []TypeOK
BY Inductive, PTL DEF IInv

\* Producer and consumer never share a buffer.
THEOREM BuffersExclusive == Spec => []ExclusiveBuffers
BY Inductive, PlacesExclude, PTL

\* No buffer leaks and none is counted twice.
THEOREM BuffersAccounted == Spec => []Accounted
BY Inductive, PTL DEF IInv

\* No thread sleeps on a condition that holds.
THEOREM WakeupsKept == Spec => []NoLostWakeup
BY Inductive, PTL DEF IInv

\* t_tryreq hands out ready buffers in the order the consumer gets them.
THEOREM PeeksInStep == Spec => []PeekInStep
BY Inductive, PTL DEF IInv
-----------------------------------------------------------------------------
(* The ring implements the first-in first-out channel: the items of the      *)
(* channel are what the ready buffers hold, from rear on.                     *)

qBar == [k \in 1 .. buf_ready |-> dkbuf[Ahead(k - 1)]]
takenBar == IF Consuming THEN <<dkbuf[cslot]>> ELSE <<>>

\* A sequence that grows at its end.
LEMMA GrowsByAppend ==
  ASSUME NEW S, NEW n \in Nat, NEW q \in [1 .. n -> S], NEW r \in [1 .. n + 1 -> S],
         \A k \in 1 .. n : r[k] = q[k]
  PROVE  r = Append(q, r[n + 1])
<1>1. q \in Seq(S) /\ r \in Seq(S) /\ Len(q) = n /\ Len(r) = n + 1
  OBVIOUS
<1>2. Append(q, r[n + 1]) \in Seq(S) /\ Len(Append(q, r[n + 1])) = n + 1
  BY <1>1
<1>3. \A k \in 1 .. n + 1 : Append(q, r[n + 1])[k] = r[k]
  BY <1>1
<1> QED BY <1>1, <1>2, <1>3

\* A sequence that loses its head.
LEMMA ShrinksByTail ==
  ASSUME NEW S, NEW n \in Nat \ {0}, NEW q \in [1 .. n -> S], NEW r \in [1 .. n - 1 -> S],
         \A k \in 1 .. n - 1 : r[k] = q[k + 1]
  PROVE  q # <<>> /\ Head(q) = q[1] /\ r = Tail(q)
<1>1. q \in Seq(S) /\ r \in Seq(S) /\ Len(q) = n /\ Len(r) = n - 1
  OBVIOUS
<1>2. q # <<>> /\ Head(q) = q[1]
  BY <1>1
<1>3. Tail(q) \in Seq(S) /\ Len(Tail(q)) = n - 1
  BY <1>1, <1>2
<1>4. \A k \in 1 .. n - 1 : Tail(q)[k] = r[k]
  BY <1>1, <1>2
<1> QED BY <1>1, <1>2, <1>3, <1>4

\* Outside a resize, the ready buffers are buffers of the ring.
LEMMA AheadIsSlot ==
  ASSUME IInv, NEW k \in 0 .. buf_ready - 1
  PROVE  Ahead(k) \in Slots
BY DEF IInv, TypeOK, Accounted, Places, Resizing, Ahead

\* The channel's items are data, and there are buf_ready of them.
ItemsOK ==
    /\ buf_ready \in Nat
    /\ qBar \in [1 .. buf_ready -> Data]
    /\ qBar \in Seq(Data) /\ Len(qBar) = buf_ready

LEMMA ItemsTyped == IInv => ItemsOK
<1> SUFFICES ASSUME IInv PROVE ItemsOK
  BY Zenon
<1>1. buf_ready \in Nat /\ dkbuf \in [Slots -> Data]
  BY DEF IInv, TypeOK
<1>2. \A k \in 1 .. buf_ready : Ahead(k - 1) \in Slots
  BY <1>1, AheadIsSlot
<1>3. \A k \in 1 .. buf_ready : dkbuf[Ahead(k - 1)] \in Data
  BY <1>1, <1>2, Zenon
<1>4. qBar \in [1 .. buf_ready -> Data]
  BY <1>1, <1>3, Zenon DEF qBar
<1> QED BY <1>1, <1>4 DEF ItemsOK

\* The same after a step.
LEMMA NextItemsTyped == IInv' => ItemsOK'
BY ItemsTyped, PTL

\* p_request and p_tryreq reserve a place: one is left, as one buffer is free.
LEMMA TakeFreeReserves ==
  ASSUME IInv, TakeFree, ppc \in {"idle", "woken"}, resize_to = 0, buf_free # 0
  PROVE  Fifo!Reserve
<1>1. cpc # "clean" /\ Len(takenBar) = (IF Consuming THEN 1 ELSE 0)
  BY Zenon DEF IInv, Resizing, TypeOK, takenBar
<1>2. Len(qBar) + Len(takenBar) < num
  BY <1>1, ItemsTyped DEF ItemsOK, IInv, TypeOK, Accounted
<1>3. qBar' = qBar /\ takenBar' = takenBar /\ num' = num
  BY Zenon DEF TakeFree, qBar, takenBar, Ahead
<1> QED BY <1>2, <1>3, Zenon DEF Fifo!Reserve, TakeFree, qBar, takenBar

\* p_ready puts what was filled in behind the other items.
LEMMA ReadyPuts ==
  ASSUME IInv, ItemsOK', bc_producer_ready
  PROVE  \E d \in Data : Fifo!Put(d)
<1>1. /\ buf_ready' = buf_ready + 1 /\ \A k \in Nat : Ahead(k)' = Ahead(k)
      /\ dkbuf' = dkbuf /\ pslot = Ahead(buf_ready) /\ buf_ready \in Nat
  BY DEF bc_producer_ready, Ahead, IInv, Places, TypeOK
<1>2. \A k \in 1 .. buf_ready : qBar'[k] = qBar[k]
  BY <1>1 DEF qBar
<1>3. qBar'[buf_ready + 1] = dkbuf[pslot]
  BY <1>1 DEF qBar
<1>4. qBar \in [1 .. buf_ready -> Data] /\ qBar' \in [1 .. buf_ready + 1 -> Data]
  BY <1>1, ItemsTyped, Zenon DEF ItemsOK
<1>5. qBar' = Append(qBar, dkbuf[pslot])
  BY <1>1, <1>2, <1>3, <1>4, GrowsByAppend
<1>6. dkbuf[pslot] \in Data
  BY Zenon DEF IInv, TypeOK, bc_producer_ready
<1>7. takenBar' = takenBar /\ num' = num /\ Producing /\ Producing' = FALSE
  BY DEF bc_producer_ready, takenBar
<1>8. Fifo!Put(dkbuf[pslot])
  BY <1>5, <1>7, Zenon DEF Fifo!Put, qBar, takenBar
<1> QED BY <1>6, <1>8, Zenon

\* c_request, c_tryreq and the flush take the oldest item.
LEMMA TakeReadyTakes ==
  ASSUME IInv, ItemsOK', NEW pc \in {"use", "drop"}, TakeReady(pc), buf_ready # 0,
         cpc \in {"idle", "woken", "flush"}
  PROVE  Fifo!Take
<1>1. /\ cpc # "clean" /\ num \in Nat \ {0} /\ rear \in 0 .. num - 1 /\ buf_ready \in Nat
      /\ buf_ready <= num
  <2>1. cpc # "clean" /\ num \in Nat \ {0} /\ buf_ready \in Nat /\ buf_free \in Nat
    BY DEF IInv, TypeOK
  <2>2. rear \in 0 .. num - 1
    BY <2>1 DEF IInv, TypeOK, Places
  <2>3. buf_ready <= num
    BY <2>1 DEF IInv, Accounted
  <2> QED BY <2>1, <2>2, <2>3, Zenon
<1>2. rear' = IF rear + 1 = num THEN 0 ELSE rear + 1
  BY <1>1, SuccWraps, Zenon DEF TakeReady, Succ
<1>3. buf_ready' = buf_ready - 1 /\ dkbuf' = dkbuf /\ num' = num /\ cslot' = rear
  BY Zenon DEF TakeReady
<1>4. \A k \in 1 .. buf_ready - 1 : Ahead(k - 1)' = Ahead(k)
  BY <1>1, <1>2, <1>3 DEF Ahead
<1>5. \A k \in 1 .. buf_ready - 1 : qBar'[k] = qBar[k + 1]
  BY <1>1, <1>3, <1>4 DEF qBar
<1>6. qBar \in [1 .. buf_ready -> Data] /\ qBar' \in [1 .. buf_ready - 1 -> Data]
  BY <1>3, ItemsTyped, Zenon DEF ItemsOK
<1>7. qBar # <<>> /\ Head(qBar) = qBar[1] /\ qBar' = Tail(qBar)
  BY <1>1, <1>5, <1>6, ShrinksByTail
<1>8. qBar[1] = dkbuf[rear]
  BY <1>1 DEF qBar, Ahead
<1>9. takenBar = <<>> /\ takenBar' = <<dkbuf[rear]>>
  BY <1>3, Zenon DEF takenBar, TakeReady
<1>10. Producing' = Producing
  BY Zenon DEF TakeReady
<1> QED BY <1>3, <1>7, <1>8, <1>9, <1>10, Zenon DEF Fifo!Take, qBar, takenBar

\* c_release gives the item up.
LEMMA ReleaseIsDone ==
  ASSUME IInv, NEW pc \in {"idle", "flush"}, ReleaseTo(pc), Consuming
  PROVE  Fifo!Done
<1>1. qBar' = qBar /\ num' = num /\ Producing' = Producing
  BY DEF ReleaseTo, qBar, Ahead
<1>2. takenBar # <<>> /\ takenBar' = <<>>
  BY Zenon DEF ReleaseTo, takenBar
<1> QED BY <1>1, <1>2, Zenon DEF Fifo!Done, qBar, takenBar

\* The new size and the cleanup empty the channel while nobody holds a place.
LEMMA EmptyingResets ==
  ASSUME IInv, SetNum \/ bc_cleanup
  PROVE  Fifo!Reset
<1>1. ~Producing /\ ~Consuming /\ ~Producing' /\ ~Consuming'
  BY Zenon DEF IInv, Resizing, SetNum, bc_cleanup
<1>2. buf_ready' = 0 /\ num' \in Nat
  BY DEF IInv, TypeOK, Resizing, SetNum, bc_cleanup
<1>3. qBar' = <<>> /\ takenBar = <<>> /\ takenBar' = <<>>
  BY <1>1, <1>2 DEF qBar, takenBar
<1> QED BY <1>1, <1>2, <1>3 DEF Fifo!Reset, qBar, takenBar

\* Filling the buffer is invisible: it is neither ready nor in use.
LEMMA FillIsInvisible ==
  ASSUME IInv, NEW d \in Data, FillBuffer(d)
  PROVE  UNCHANGED Fifo!vars
<1>1. ExclusiveBuffers
  BY PlacesExclude, Zenon
<1>2. \A k \in 1 .. buf_ready : Ahead(k - 1) \in Slots /\ Ahead(k - 1) # pslot
  BY <1>1, AheadIsSlot DEF ExclusiveBuffers, ReadySlots, FillBuffer, IInv, TypeOK
<1>3. \A k \in 1 .. buf_ready : dkbuf'[Ahead(k - 1)] = dkbuf[Ahead(k - 1)]
  BY <1>2, Zenon DEF FillBuffer, IInv, TypeOK
<1>4. buf_ready' = buf_ready /\ num' = num /\ \A k \in Int : Ahead(k)' = Ahead(k)
  BY Zenon DEF FillBuffer, Ahead
<1>5. qBar' = qBar
  BY <1>3, <1>4 DEF qBar, IInv, TypeOK
<1>6. takenBar' = takenBar
  BY <1>1, Zenon DEF takenBar, FillBuffer, ExclusiveBuffers, IInv, TypeOK
<1>7. Producing' = Producing
  BY DEF FillBuffer
<1> QED BY <1>4, <1>5, <1>6, <1>7, Zenon DEF Fifo!vars, qBar, takenBar

\* Steps that move no buffer, or only the peeking index, are invisible.
LEMMA OthersInvisible ==
  ASSUME UNCHANGED <<num, buf_ready, rear, dkbuf, cslot>>, Producing' = Producing,
         Consuming' = Consuming
  PROVE  UNCHANGED Fifo!vars
<1>1. qBar' = qBar /\ takenBar' = takenBar
  BY Zenon DEF qBar, takenBar, Ahead
<1> QED BY <1>1, Zenon DEF Fifo!vars, qBar, takenBar

\* Every step of the ring is a step of the channel, or none.
LEMMA StepImplementsFifo == IInv /\ IInv' /\ [Next]_vars => [Fifo!Next]_Fifo!vars
<1> SUFFICES ASSUME IInv, ItemsOK', [Next]_vars PROVE [Fifo!Next]_Fifo!vars
  BY NextItemsTyped, Zenon
<1>1. CASE bc_producer_request
  <2>1. CASE buf_free # 0 /\ TakeFree
    BY <1>1, <2>1, TakeFreeReserves, Zenon DEF bc_producer_request, Fifo!Next
  <2>2. CASE buf_free = 0 /\ ppc' = "asleep" /\ UNCHANGED <<ring, tops, dkbuf, pslot, cons>>
    <3>1. UNCHANGED <<num, buf_ready, rear, dkbuf, cslot>> /\ Producing' = Producing
          /\ Consuming' = Consuming
      BY <1>1, <2>2 DEF bc_producer_request
    <3> QED BY <3>1, OthersInvisible, Zenon
  <2> QED BY <1>1, <2>1, <2>2, Zenon DEF bc_producer_request
<1>2. CASE bc_producer_try_request
  BY <1>2, TakeFreeReserves, Zenon DEF bc_producer_try_request, Fifo!Next
<1>3. ASSUME NEW d \in Data, FillBuffer(d) PROVE [Fifo!Next]_Fifo!vars
  BY <1>3, FillIsInvisible, Zenon
<1>4. CASE bc_producer_ready
  BY <1>4, ReadyPuts, Zenon DEF Fifo!Next
<1>5. CASE bc_consumer_request
  <2>1. CASE buf_ready # 0 /\ TakeReady("use")
    BY <1>5, <2>1, TakeReadyTakes, Zenon DEF bc_consumer_request, Fifo!Next
  <2>2. CASE buf_ready = 0 /\ cpc' = "asleep"
             /\ UNCHANGED <<ring, tops, dkbuf, prod, cslot, resize_to>>
    <3>1. UNCHANGED <<num, buf_ready, rear, dkbuf, cslot>> /\ Producing' = Producing
          /\ Consuming' = Consuming
      BY <1>5, <2>2 DEF bc_consumer_request
    <3> QED BY <3>1, OthersInvisible
  <2> QED BY <1>5, <2>1, <2>2, Zenon DEF bc_consumer_request
<1>6. CASE bc_consumer_try_request
  BY <1>6, TakeReadyTakes, Zenon DEF bc_consumer_try_request, Fifo!Next
<1>7. CASE FlushTake
  BY <1>7, TakeReadyTakes, Zenon DEF FlushTake, Fifo!Next
<1>8. CASE bc_consumer_release
  BY <1>8, ReleaseIsDone, Zenon DEF bc_consumer_release, Fifo!Next
<1>9. CASE FlushRelease
  BY <1>9, ReleaseIsDone, Zenon DEF FlushRelease, Fifo!Next
<1>10. CASE SetNum \/ bc_cleanup
  BY <1>10, EmptyingResets, Zenon DEF Fifo!Next
<1>11. CASE StartFlush \/ bc_flush \/ (\E nbuf \in NBuf : bc_setbuffer(nbuf))
            \/ bc_top_reset \/ bc_top_try_request \/ UNCHANGED vars
  <2>1. UNCHANGED <<num, buf_ready, rear, dkbuf, cslot>> /\ Producing' = Producing
        /\ Consuming' = Consuming
    BY <1>11 DEF StartFlush, bc_flush, bc_setbuffer, bc_top_reset, bc_top_try_request, vars
  <2> QED BY <2>1, OthersInvisible
<1> QED BY <1>1, <1>2, <1>3, <1>4, <1>5, <1>6, <1>7, <1>8, <1>9, <1>10, <1>11, Zenon
       DEF Next, Producer, Consumer

\* The consumer gets what the producer filled in, in order, each item once and
\* unaltered while it uses it, through flushes and resizes.
THEOREM RingImplementsFifo == Spec => ImplementsFifo
<1>1. Init => Fifo!Init
  <2> SUFFICES ASSUME Init PROVE Fifo!Init
    BY Zenon
  <2>1. qBar = <<>> /\ takenBar = <<>>
    BY DEF Init, qBar, takenBar
  <2> QED BY <2>1 DEF Init, Fifo!Init, qBar, takenBar
<1> QED BY <1>1, StepImplementsFifo, Inductive, PTL DEF Spec, ImplementsFifo, Fifo!Spec

-----------------------------------------------------------------------------
(* The ring of a list.                                                     *)

USE LengthAssumption

\* The slot k places after f, without the division.
Slot(f, k) == IF f + k < XLen THEN f + k ELSE f + k - XLen

Item == XData \cup {Zero}

ListInStep ==
    /\ linked \in BOOLEAN /\ xhung \in BOOLEAN
    /\ xfront \in 0 .. XLen - 1 /\ xrear \in 0 .. XLen - 1 /\ usecnt \in 0 .. XLen
    /\ xslots \in [0 .. XLen - 1 -> Item]
    /\ xrear = Slot(xfront, usecnt)
    /\ linked => usecnt = 0

\* An index of the ring never runs further than one length past its end.
LEMMA SlotWraps ==
  ASSUME NEW n \in Nat \ {0}, NEW i \in 0 .. 2 * n - 1
  PROVE  i % n = IF i < n THEN i ELSE i - n
OBVIOUS

\* One slot further, and one slot back.
LEMMA AheadOne ==
  ASSUME NEW n \in Nat \ {0}, NEW i \in 0 .. n - 1
  PROVE  (i + 1) % n = IF i + 1 < n THEN i + 1 ELSE 0
OBVIOUS

LEMMA BehindOne ==
  ASSUME NEW n \in Nat \ {0}, NEW i \in 0 .. n - 1
  PROVE  (i + n - 1) % n = IF i = 0 THEN n - 1 ELSE i - 1
<1>1. i + n - 1 \in 0 .. 2 * n - 1 OBVIOUS
<1> DEFINE j == i + n - 1
<1> HIDE DEF j
<1>2. j % n = IF j < n THEN j ELSE j - n BY <1>1, SlotWraps, Zenon DEF j
<1> QED BY <1>2 DEF j

\* push, pop, shift and unshift keep rear usecnt slots after front.
LEMMA ListStepInStep ==
  ASSUME ListInStep, [XlNext]_xlvars
  PROVE  ListInStep'
<1> USE DEF ListInStep, Slot
<1>0. XData \subseteq Item BY Zenon DEF Item
<1>1. ASSUME NEW d \in XData, xlv1_push(d) PROVE ListInStep'
  <2>1. xrear' = IF xrear + 1 < XLen THEN xrear + 1 ELSE 0
    BY <1>1, AheadOne, Zenon DEF xlv1_push
  <2> QED BY <1>0, <1>1, <2>1 DEF xlv1_push, Ring, HasRoom
<1>2. ASSUME NEW d \in XData, xlv1_unshift(d) PROVE ListInStep'
  <2>1. xfront' = IF xfront = 0 THEN XLen - 1 ELSE xfront - 1
    BY <1>2, BehindOne, Zenon DEF xlv1_unshift
  <2> QED BY <1>0, <1>2, <2>1 DEF xlv1_unshift, Ring, HasRoom
<1>3. CASE xlv1_pop
  <2>1. xrear' = IF xrear = 0 THEN XLen - 1 ELSE xrear - 1
    BY <1>3, BehindOne, Zenon DEF xlv1_pop
  <2> QED BY <1>3, <2>1 DEF xlv1_pop, Ring
<1>4. CASE xlv1_shift
  <2>1. xfront' = IF xfront + 1 < XLen THEN xfront + 1 ELSE 0
    BY <1>4, AheadOne, Zenon DEF xlv1_shift
  <2> QED BY <1>4, <2>1 DEF xlv1_shift, Ring
<1>5. CASE Full \/ xlv1_front \/ xlv1_rear \/ Empty \/ xl_count \/ xlv2_malloc \/ FindsNone
      \/ UNCHANGED xlvars
  <2>1. UNCHANGED <<linked, xslots, xfront, xrear, usecnt>> /\ (xhung' = xhung \/ xhung' = TRUE)
    BY <1>5, Zenon DEF Full, xlv1_front, xlv1_rear, Empty, xl_count, xlv2_malloc, FindsNone, xlvars
  <2> QED BY <2>1, Zenon
<1> QED BY <1>1, <1>2, <1>3, <1>4, <1>5, Zenon
     DEF XlNext, xlv2_push, xlv2_unshift, xlv2_pop, xlv2_shift, xlv2_front

-----------------------------------------------------------------------------
\* The mapped queue as a function of the three fields it is read from.
Elements(slots, f, u) == [k \in 1 .. u |-> slots[(f + k) % XLen]]

\* The mapped queue: u elements, the k-th of them k slots after front.
LEMMA Mapped ==
  ASSUME NEW f \in 0 .. XLen - 1, NEW u \in 0 .. XLen,
         NEW slots \in [0 .. XLen - 1 -> Item]
  PROVE  /\ Elements(slots, f, u) \in Seq(Item) /\ Len(Elements(slots, f, u)) = u
         /\ \A k \in 1 .. u : Elements(slots, f, u)[k] = slots[Slot(f, k)]
<1>1. ASSUME NEW k \in 1 .. u PROVE (f + k) % XLen = Slot(f, k)
  <2>1. f + k \in 0 .. 2 * XLen - 1 BY <1>1
  <2> DEFINE i == f + k
  <2> HIDE DEF i
  <2>2. i % XLen = IF i < XLen THEN i ELSE i - XLen BY <2>1, SlotWraps, Zenon DEF i
  <2> QED BY <2>2 DEF Slot, i
<1>2. \A k \in 1 .. u : Slot(f, k) \in 0 .. XLen - 1 BY DEF Slot
<1>3. Elements(slots, f, u) = [k \in 1 .. u |-> slots[Slot(f, k)]] BY <1>1, Zenon DEF Elements
<1>4. \A k \in 1 .. u : slots[Slot(f, k)] \in Item BY <1>2, Zenon
<1>5. u \in Nat OBVIOUS
<1> QED BY <1>3, <1>4, <1>5

\* Two queues of the same length are equal if they agree at every place.
LEMMA SameElements ==
  ASSUME NEW S, NEW a \in Seq(S), NEW b \in Seq(S), Len(a) = Len(b),
         \A k \in 1 .. Len(a) : a[k] = b[k]
  PROVE  a = b
OBVIOUS

\* What is mapped, before a step and after it.
LEMMA MappedBefore ==
  ASSUME ListInStep
  PROVE  /\ Contents \in Seq(Item) /\ Len(Contents) = usecnt
         /\ \A k \in 1 .. usecnt : Contents[k] = xslots[Slot(xfront, k)]
<1>1. xfront \in 0 .. XLen - 1 /\ usecnt \in 0 .. XLen /\ xslots \in [0 .. XLen - 1 -> Item]
  BY Zenon DEF ListInStep
<1>2. Contents = Elements(xslots, xfront, usecnt) BY Zenon DEF Contents, Elements
<1> DEFINE e == Elements(xslots, xfront, usecnt)
<1>3. /\ e \in Seq(Item) /\ Len(e) = usecnt
      /\ \A k \in 1 .. usecnt : e[k] = xslots[Slot(xfront, k)]
  BY ONLY LengthAssumption, <1>1, Mapped, Zenon
<1> QED BY <1>2, <1>3, Zenon

LEMMA MappedAfter ==
  ASSUME ListInStep'
  PROVE  /\ Contents' \in Seq(Item) /\ Len(Contents') = usecnt'
         /\ \A k \in 1 .. usecnt' : Contents'[k] = xslots'[Slot(xfront', k)]
<1>1. xfront' \in 0 .. XLen - 1 /\ usecnt' \in 0 .. XLen /\ xslots' \in [0 .. XLen - 1 -> Item]
  BY Zenon DEF ListInStep
<1>2. Contents' = Elements(xslots', xfront', usecnt') BY Zenon DEF Contents, Elements
<1> DEFINE e == Elements(xslots', xfront', usecnt')
<1>3. /\ e \in Seq(Item) /\ Len(e) = usecnt'
      /\ \A k \in 1 .. usecnt' : e[k] = xslots'[Slot(xfront', k)]
  BY ONLY LengthAssumption, <1>1, Mapped, Zenon
<1> QED BY <1>2, <1>3, Zenon

LEMMA PushRefines ==
  ASSUME ListInStep, ListInStep', NEW d \in XData, xlv1_push(d)
  PROVE  D!Pushed
<1>1. /\ Contents \in Seq(Item) /\ Len(Contents) = usecnt
      /\ \A k \in 1 .. usecnt : Contents[k] = xslots[Slot(xfront, k)]
  BY MappedBefore, Zenon
<1>2. /\ Contents' \in Seq(Item) /\ Len(Contents') = usecnt'
      /\ \A k \in 1 .. usecnt' : Contents'[k] = xslots'[Slot(xfront', k)]
  BY MappedAfter, Zenon
<1>3. usecnt' = usecnt + 1 /\ usecnt < XLen /\ usecnt \in Nat
  BY DEF xlv1_push, HasRoom, ListInStep
<1>4. ASSUME NEW k \in 1 .. usecnt
      PROVE  Slot(xfront', k) = Slot(xfront, k) /\ Slot(xfront, k) \in (0 .. XLen - 1) \ {xrear'}
  <2>1. xrear' = Slot(xfront, usecnt + 1) BY <1>3, Zenon DEF xlv1_push, ListInStep
  <2> QED BY <2>1, <1>3 DEF xlv1_push, Slot, ListInStep
<1>5. ASSUME NEW k \in 1 .. usecnt PROVE Contents'[k] = Contents[k]
  BY <1>1, <1>2, <1>3, <1>4 DEF xlv1_push, ListInStep
<1>6. Contents'[usecnt + 1] = d
  <2>1. Slot(xfront', usecnt') = xrear' /\ xrear' \in 0 .. XLen - 1
    BY Zenon DEF ListInStep
  <2>2. xslots'[xrear'] = d BY <2>1, Zenon DEF xlv1_push, ListInStep
  <2>3. usecnt' \in 1 .. usecnt' BY <1>3
  <2> QED BY <1>2, <1>3, <2>1, <2>2, <2>3, Zenon
<1>7. Contents' = Append(Contents, d)
  <2>1. Append(Contents, d) \in Seq(Item) /\ Len(Append(Contents, d)) = usecnt + 1 BY <1>1 DEF Item
  <2>2. ASSUME NEW k \in 1 .. usecnt + 1 PROVE Contents'[k] = Append(Contents, d)[k]
    BY <1>1, <1>3, <1>5, <1>6
  <2> QED BY <1>2, <1>3, <2>1, <2>2, SameElements, Zenon
<1> QED BY <1>1, <1>3, <1>7, Zenon DEF xlv1_push, Returns, D!Pushed, D!Yields

LEMMA UnshiftRefines ==
  ASSUME ListInStep, ListInStep', NEW d \in XData, xlv1_unshift(d)
  PROVE  D!Unshifted
<1>1. /\ Contents \in Seq(Item) /\ Len(Contents) = usecnt
      /\ \A k \in 1 .. usecnt : Contents[k] = xslots[Slot(xfront, k)]
  BY MappedBefore
<1>2. /\ Contents' \in Seq(Item) /\ Len(Contents') = usecnt'
      /\ \A k \in 1 .. usecnt' : Contents'[k] = xslots'[Slot(xfront', k)]
  BY MappedAfter
<1>3. usecnt' = usecnt + 1 /\ usecnt < XLen /\ usecnt \in Nat
  BY DEF xlv1_unshift, HasRoom, ListInStep
<1>4. xfront' = IF xfront = 0 THEN XLen - 1 ELSE xfront - 1
  BY BehindOne, Zenon DEF xlv1_unshift, ListInStep
<1>5. ASSUME NEW k \in 1 .. usecnt
      PROVE  Slot(xfront', k + 1) = Slot(xfront, k) /\ Slot(xfront, k) \in (0 .. XLen - 1) \ {xfront}
  BY <1>3, <1>4 DEF Slot, ListInStep
<1>6. ASSUME NEW k \in 1 .. usecnt PROVE Contents'[k + 1] = Contents[k]
  <2>1. k + 1 \in 1 .. usecnt' BY <1>3
  <2>2. xslots'[Slot(xfront, k)] = xslots[Slot(xfront, k)] BY <1>5, Zenon DEF xlv1_unshift, ListInStep
  <2> QED BY <1>1, <1>2, <1>5, <2>1, <2>2, Zenon
<1>7. Contents'[1] = d
  <2>1. Slot(xfront', 1) = xfront BY <1>4 DEF Slot, ListInStep
  <2>2. xslots'[xfront] = d BY Zenon DEF xlv1_unshift, ListInStep
  <2>3. 1 \in 1 .. usecnt' BY <1>3
  <2> QED BY <1>2, <2>1, <2>2, <2>3, Zenon
<1>8. Contents' = <<d>> \o Contents
  <2>1. <<d>> \o Contents \in Seq(Item) /\ Len(<<d>> \o Contents) = usecnt + 1
    BY <1>1 DEF Item
  <2>2. ASSUME NEW k \in 1 .. usecnt + 1 PROVE Contents'[k] = (<<d>> \o Contents)[k]
    <3>1. CASE k = 1 BY <1>1, <1>7, <3>1
    <3>2. CASE k # 1
      <4>1. k - 1 \in 1 .. usecnt BY <1>3, <3>2
      <4>2. Contents'[k] = Contents[k - 1] BY <1>6, <4>1
      <4> QED BY <1>1, <4>1, <4>2
    <3> QED BY <3>1, <3>2, Zenon
  <2> QED BY <1>2, <1>3, <2>1, <2>2, SameElements, Zenon
<1> QED BY <1>1, <1>3, <1>8, Zenon DEF xlv1_unshift, Returns, D!Unshifted, D!Yields

LEMMA PopRefines ==
  ASSUME ListInStep, ListInStep', xlv1_pop
  PROVE  D!Popped
<1>1. /\ Contents \in Seq(Item) /\ Len(Contents) = usecnt
      /\ \A k \in 1 .. usecnt : Contents[k] = xslots[Slot(xfront, k)]
  BY MappedBefore, Zenon
<1>2. /\ Contents' \in Seq(Item) /\ Len(Contents') = usecnt'
      /\ \A k \in 1 .. usecnt' : Contents'[k] = xslots'[Slot(xfront', k)]
  BY MappedAfter, Zenon
<1>3. usecnt' = usecnt - 1 /\ usecnt > 0 /\ usecnt \in Nat
  BY DEF xlv1_pop, ListInStep
<1>4. \A k \in 1 .. usecnt' : Contents'[k] = Contents[k]
  <2>1. xslots' = xslots /\ xfront' = xfront BY Zenon DEF xlv1_pop
  <2>2. ASSUME NEW k \in 1 .. usecnt' PROVE Contents'[k] = Contents[k]
    <3>1. k \in 1 .. usecnt BY <1>3
    <3> QED BY <1>1, <1>2, <2>1, <3>1, Zenon
  <2> QED BY <2>2, Zenon
<1>5. Contents' = [k \in 1 .. Len(Contents) - 1 |-> Contents[k]]
  <2> DEFINE r == [k \in 1 .. Len(Contents) - 1 |-> Contents[k]]
  <2>1. r \in Seq(Item) /\ Len(r) = usecnt - 1 /\ \A k \in 1 .. usecnt - 1 : r[k] = Contents[k]
    BY <1>1, <1>3
  <2> HIDE DEF r
  <2>2. Contents' = r BY <1>2, <1>3, <1>4, <2>1, SameElements, Zenon
  <2> QED BY <2>2, Zenon DEF r
<1>6. Contents[Len(Contents)] = xslots[xrear]
  <2>1. usecnt \in 1 .. usecnt BY <1>3
  <2> QED BY <1>1, <2>1, Zenon DEF ListInStep
<1>7. Contents # <<>> BY <1>1, <1>3
<1> QED BY <1>5, <1>6, <1>7, Zenon DEF xlv1_pop, Returns, D!Popped, D!Yields

LEMMA ShiftRefines ==
  ASSUME ListInStep, ListInStep', xlv1_shift
  PROVE  D!Shifted
<1>1. /\ Contents \in Seq(Item) /\ Len(Contents) = usecnt
      /\ \A k \in 1 .. usecnt : Contents[k] = xslots[Slot(xfront, k)]
  BY MappedBefore
<1>2. /\ Contents' \in Seq(Item) /\ Len(Contents') = usecnt'
      /\ \A k \in 1 .. usecnt' : Contents'[k] = xslots'[Slot(xfront', k)]
  BY MappedAfter
<1>3. usecnt' = usecnt - 1 /\ usecnt > 0 /\ usecnt \in Nat
  BY DEF xlv1_shift, ListInStep
<1>4. xfront' = IF xfront + 1 < XLen THEN xfront + 1 ELSE 0
  BY AheadOne, Zenon DEF xlv1_shift, ListInStep
<1>5. ASSUME NEW k \in 1 .. usecnt' PROVE Contents'[k] = Contents[k + 1]
  <2>1. k + 1 \in 1 .. usecnt BY <1>3
  <2>2. Slot(xfront', k) = Slot(xfront, k + 1) BY <1>3, <1>4 DEF Slot, ListInStep
  <2> QED BY <1>1, <1>2, <2>1, <2>2 DEF xlv1_shift
<1>6. Contents' = Tail(Contents)
  <2>1. Tail(Contents) \in Seq(Item) /\ Len(Tail(Contents)) = usecnt - 1 BY <1>1, <1>3
  <2>2. ASSUME NEW k \in 1 .. usecnt - 1 PROVE Contents'[k] = Tail(Contents)[k]
    BY <1>1, <1>3, <1>5
  <2> QED BY <1>2, <1>3, <2>1, <2>2, SameElements, Zenon
<1>7. Head(Contents) = xslots[xfront']
  <2>1. 1 \in 1 .. usecnt BY <1>3
  <2>2. Slot(xfront, 1) = xfront' BY <1>4 DEF Slot, ListInStep
  <2> QED BY <1>1, <2>1, <2>2
<1>8. Contents # <<>> BY <1>1, <1>3
<1> QED BY <1>6, <1>7, <1>8, Zenon DEF xlv1_shift, Returns, D!Shifted, D!Yields

\* The other calls leave the elements alone and report what is there.
LEMMA QueryRefines ==
  ASSUME ListInStep,
         Full \/ xlv1_front \/ xlv1_rear \/ Empty \/ xl_count \/ xlv2_malloc \/ FindsNone
           \/ UNCHANGED xlvars
  PROVE  D!Looked \/ D!Refused \/ D!Counted \/ UNCHANGED <<Contents, xret>>
<1>1. /\ Contents \in Seq(Item) /\ Len(Contents) = usecnt
      /\ \A k \in 1 .. usecnt : Contents[k] = xslots[Slot(xfront, k)]
  BY MappedBefore, Zenon
<1>2. usecnt \in 0 .. XLen /\ xrear = Slot(xfront, usecnt) BY Zenon DEF ListInStep
<1>3. UNCHANGED Contents
  BY Zenon DEF Full, xlv1_front, xlv1_rear, Empty, xl_count, xlv2_malloc, FindsNone, xlvars, Contents
<1>4. ASSUME usecnt > 0
      PROVE  /\ Contents # <<>> /\ Contents[Len(Contents)] = xslots[xrear]
             /\ Head(Contents) = xslots[(xfront + 1) % XLen]
  <2>1. 1 \in 1 .. usecnt /\ usecnt \in 1 .. usecnt BY <1>2, <1>4
  <2>2. (xfront + 1) % XLen = Slot(xfront, 1)
    <3>1. (xfront + 1) % XLen = IF xfront + 1 < XLen THEN xfront + 1 ELSE 0
      BY AheadOne, Zenon DEF ListInStep
    <3> QED BY <3>1 DEF Slot, ListInStep
  <2> QED BY <1>1, <1>2, <2>1, <2>2
<1>5. CASE Full \/ Empty
  BY <1>1, <1>2, <1>3, <1>5 DEF Full, Empty, Returns, D!Refused, D!Yields
<1>6. CASE xlv1_front \/ xlv1_rear
  BY <1>3, <1>4, <1>6, Zenon DEF xlv1_front, xlv1_rear, Returns, D!Looked, D!Yields
<1>7. CASE xl_count
  <2>1. PICK n \in IF linked THEN {0} ELSE {XLen, XLen - usecnt, usecnt} : xret' = <<n, <<>>>>
    BY <1>7, Zenon DEF xl_count, Returns
  <2>2. n \in {XLen, XLen - usecnt, usecnt} BY <2>1, Zenon DEF ListInStep
  <2> QED BY <1>1, <1>3, <2>1, <2>2, Zenon DEF D!Counted, D!Yields
<1>8. CASE FindsNone
  BY <1>1, <1>3, <1>8, Zenon DEF FindsNone, Returns, ListInStep, D!Refused, D!Yields
<1>9. CASE xlv2_malloc \/ UNCHANGED xlvars
  BY <1>3, <1>9, Zenon DEF xlv2_malloc, xlvars
<1> QED BY <1>5, <1>6, <1>7, <1>8, <1>9, Zenon

\* The list of xlist.c, of any length and with any elements, is a
\* double-ended queue: every call that returns does to the mapped queue what
\* its name says, and returns the element at that end of it.
THEOREM ListIsDeque == XlSpec => ImplementsDeque
<1>1. XlInit => ListInStep
  <2> SUFFICES ASSUME XlInit PROVE ListInStep
    BY Zenon
  <2>1. 0 = Slot(0, 0) /\ 0 \in 0 .. XLen - 1 /\ 0 \in 0 .. XLen BY DEF Slot
  <2>2. xslots \in [0 .. XLen - 1 -> Item] BY Zenon DEF XlInit, Item
  <2>3. linked \in BOOLEAN /\ xhung \in BOOLEAN BY Zenon DEF XlInit
  <2> QED BY <2>1, <2>2, <2>3, Zenon DEF XlInit, ListInStep
<1>2. ListInStep /\ [XlNext]_xlvars => ListInStep'
  BY ListStepInStep, Zenon
<1>3. XlInit => D!DequeInit
  BY DEF XlInit, D!DequeInit, Contents
<1>4. ListInStep /\ ListInStep' /\ [XlNext]_xlvars => [D!DequeNext]_(D!dequevars)
  <2> SUFFICES ASSUME ListInStep, ListInStep', [XlNext]_xlvars PROVE [D!DequeNext]_(D!dequevars)
    BY Zenon
  <2>1. ASSUME NEW d \in XData, xlv1_push(d) PROVE D!DequeNext
    BY <2>1, PushRefines, Zenon DEF D!DequeNext
  <2>2. ASSUME NEW d \in XData, xlv1_unshift(d) PROVE D!DequeNext
    BY <2>2, UnshiftRefines, Zenon DEF D!DequeNext
  <2>3. CASE xlv1_pop BY <2>3, PopRefines, Zenon DEF D!DequeNext
  <2>4. CASE xlv1_shift BY <2>4, ShiftRefines, Zenon DEF D!DequeNext
  <2>5. CASE Full \/ xlv1_front \/ xlv1_rear \/ Empty \/ xl_count \/ xlv2_malloc \/ FindsNone
             \/ UNCHANGED xlvars
    BY <2>5, QueryRefines, Zenon DEF D!DequeNext, D!dequevars
  <2> QED BY <2>1, <2>2, <2>3, <2>4, <2>5, Zenon
     DEF XlNext, xlv2_push, xlv2_unshift, xlv2_pop, xlv2_shift, xlv2_front
<1> QED BY <1>1, <1>2, <1>3, <1>4, PTL DEF XlSpec, ImplementsDeque, D!DequeSpec
=============================================================================
