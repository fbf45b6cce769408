---------------------------- MODULE BufferCache ----------------------------
(***************************************************************************)
(* buffer_cache/buffer_cache.c: the ring of disk buffers between one       *)
(* producer thread (prefetch_main) and one consumer (pre_read).  Every     *)
(* operation runs under the cache's mutex and is one action, except        *)
(* bc_flush and bc_setbuffer, which take the mutex once per buffer and are *)
(* modelled step by step.                                                  *)
(*                                                                         *)
(* The contract of the callers is part of the model: the consumer thread   *)
(* itself flushes, and it resizes or cleans up only while the producer is  *)
(* idle (set_buffer refuses while a prefetch runs).  Module Prefetch       *)
(* models the callers that do not keep to it.                              *)
(***************************************************************************)
EXTENDS Integers, Sequences

CONSTANTS
    Allocated,  \* number of buffers given to new_buffer_cache
    Data,       \* what a buffer can hold
    NBuf        \* arguments passed to setbuf

ASSUME AllocatedAssumption == Allocated \in Nat \ {0}
ASSUME NBufAssumption == NBuf \subseteq Int

Slots == 0 .. Allocated - 1
NoSlot == -1

VARIABLES
    num, buf_free, buf_ready, front, rear, top, top_used, dkbuf,
    ppc,        \* the producer: idle, asleep, woken, fill, filled
    pslot,      \* the buffer p_request or p_tryreq returned, until p_ready
    cpc,        \* the consumer: idle, asleep, woken, use, flush, drop, resize, clean
    cslot,      \* the buffer c_request or c_tryreq returned, until c_release
    resize_to,  \* the size setbuf is about to install, 0 if none
    peeking     \* on from t_reset until a buffer is taken or the ring is reset

ring == <<num, buf_free, buf_ready, front, rear>>
tops == <<top, top_used, peeking>>
prod == <<ppc, pslot>>
cons == <<cpc, cslot, resize_to>>
vars == <<ring, tops, dkbuf, prod, cons>>

\* new_buffer_cache: the buffers, top and top_used hold whatever malloc left.
Init ==
    /\ num = Allocated /\ buf_free = Allocated /\ buf_ready = 0
    /\ front = 0 /\ rear = 0
    /\ top \in Slots /\ top_used = 0 /\ peeking = "off"
    /\ dkbuf \in [Slots -> Data]
    /\ ppc = "idle" /\ pslot = NoSlot
    /\ cpc = "idle" /\ cslot = NoSlot /\ resize_to = 0

Succ(i) == (i + 1) % num

\* pthread_cond_signal: a thread that is asleep on the condition gets up.
Signal(pc) == IF pc = "asleep" THEN "woken" ELSE pc

-----------------------------------------------------------------------------
(* The producer. *)

TakeFree ==
    /\ buf_free' = buf_free - 1
    /\ pslot' = front
    /\ front' = Succ(front)
    /\ ppc' = "fill"
    /\ UNCHANGED <<num, buf_ready, rear, tops, dkbuf, cons>>

bc_producer_request ==
    /\ ppc \in {"idle", "woken"}
    /\ resize_to = 0
    /\ \/ buf_free # 0 /\ TakeFree
       \/ /\ buf_free = 0
          /\ ppc' = "asleep"
          /\ UNCHANGED <<ring, tops, dkbuf, pslot, cons>>

\* When nothing is free p_tryreq returns NULL and changes nothing.
bc_producer_try_request ==
    /\ ppc = "idle" /\ resize_to = 0
    /\ buf_free # 0
    /\ TakeFree

\* The producer writes into the buffer it owns, outside the mutex.
FillBuffer(d) ==
    /\ ppc = "fill"
    /\ dkbuf' = [dkbuf EXCEPT ![pslot] = d]
    /\ ppc' = "filled"
    /\ UNCHANGED <<ring, tops, pslot, cons>>

\* Mutant: ready_condi is not signalled.
ReadyUnsignalled ==
    /\ ppc = "filled"
    /\ buf_ready' = buf_ready + 1
    /\ ppc' = "idle" /\ pslot' = NoSlot
    /\ UNCHANGED <<num, buf_free, front, rear, tops, dkbuf, cons>>

bc_producer_ready ==
    /\ ppc = "filled"
    /\ buf_ready' = buf_ready + 1
    /\ cpc' = Signal(cpc)
    /\ ppc' = "idle" /\ pslot' = NoSlot
    /\ UNCHANGED <<num, buf_free, front, rear, tops, dkbuf, cslot, resize_to>>

-----------------------------------------------------------------------------
(* The consumer. *)

\* Mutant: the consumer is given the buffer at the wrong end of the ring.
TakeAtFront(pc) ==
    /\ buf_ready' = buf_ready - 1
    /\ cslot' = front
    /\ rear' = Succ(rear)
    /\ cpc' = pc
    /\ peeking' = "off"
    /\ UNCHANGED <<num, buf_free, front, top, top_used, dkbuf, prod, resize_to>>

TakeReady(pc) ==
    /\ buf_ready' = buf_ready - 1
    /\ cslot' = rear
    /\ rear' = Succ(rear)
    /\ cpc' = pc
    /\ peeking' = "off"
    /\ UNCHANGED <<num, buf_free, front, top, top_used, dkbuf, prod, resize_to>>

bc_consumer_request ==
    /\ cpc \in {"idle", "woken"}
    /\ \/ buf_ready # 0 /\ TakeReady("use")
       \/ /\ buf_ready = 0
          /\ cpc' = "asleep"
          /\ UNCHANGED <<ring, tops, dkbuf, prod, cslot, resize_to>>

\* When nothing is ready c_tryreq returns NULL and changes nothing.
bc_consumer_try_request ==
    /\ cpc = "idle"
    /\ buf_ready # 0
    /\ TakeReady("use")

ReleaseTo(pc) ==
    /\ buf_free' = buf_free + 1
    /\ ppc' = Signal(ppc)
    /\ cpc' = pc /\ cslot' = NoSlot
    /\ UNCHANGED <<num, buf_ready, front, rear, tops, dkbuf, pslot, resize_to>>

bc_consumer_release ==
    /\ cpc = "use"
    /\ ReleaseTo("idle")

-----------------------------------------------------------------------------
(* Flushing, resizing, cleaning up. *)

StartFlush ==
    /\ cpc = "idle"
    /\ cpc' = "flush"
    /\ UNCHANGED <<ring, tops, dkbuf, prod, cslot, resize_to>>

\* One iteration of the loop of bc_flush: c_tryreq, then c_release.
FlushTake ==
    /\ cpc = "flush"
    /\ buf_ready # 0
    /\ TakeReady("drop")

FlushRelease ==
    /\ cpc = "drop"
    /\ ReleaseTo("flush")

bc_flush ==
    /\ cpc = "flush"
    /\ buf_ready = 0
    /\ cpc' = IF resize_to = 0 THEN "idle" ELSE "resize"
    /\ UNCHANGED <<ring, tops, dkbuf, prod, cslot, resize_to>>

bc_setbuffer(nbuf) ==
    /\ cpc = "idle" /\ ppc = "idle"
    /\ LET n == IF nbuf <= 0 \/ nbuf > Allocated THEN Allocated ELSE nbuf
       IN  resize_to' = IF num # n /\ n > 3 THEN n ELSE 0
    /\ cpc' = "flush"
    /\ UNCHANGED <<ring, tops, dkbuf, prod, cslot>>

\* self->num = n, between the flush and the cleanup of bc_setbuffer.
SetNum ==
    /\ cpc = "resize"
    /\ num' = resize_to
    /\ cpc' = "clean"
    /\ UNCHANGED <<buf_free, buf_ready, front, rear, tops, dkbuf, prod, cslot, resize_to>>

\* Mutant: the read index survives the cleanup.
CleanupKeepsRear ==
    /\ cpc = "clean" \/ (cpc = "idle" /\ ppc = "idle")
    /\ buf_free' = num
    /\ buf_ready' = 0
    /\ front' = 0
    /\ cpc' = "idle" /\ resize_to' = 0
    /\ peeking' = "off"
    /\ UNCHANGED <<num, rear, top, top_used, dkbuf, prod, cslot>>

bc_cleanup ==
    /\ cpc = "clean" \/ (cpc = "idle" /\ ppc = "idle")
    /\ buf_free' = num
    /\ buf_ready' = 0
    /\ front' = 0 /\ rear' = 0
    /\ cpc' = "idle" /\ resize_to' = 0
    /\ peeking' = "off"
    /\ UNCHANGED <<num, top, top_used, dkbuf, prod, cslot>>

-----------------------------------------------------------------------------
(* Reading ahead without consuming. *)

bc_top_reset ==
    /\ cpc = "idle"
    /\ top' = rear /\ top_used' = 0 /\ peeking' = "on"
    /\ UNCHANGED <<ring, dkbuf, prod, cons>>

bc_top_try_request ==
    /\ cpc = "idle" /\ peeking = "on"
    /\ top_used < buf_ready
    /\ top' = Succ(top)
    /\ top_used' = top_used + 1
    /\ UNCHANGED <<ring, peeking, dkbuf, prod, cons>>

-----------------------------------------------------------------------------
Producer ==
    \/ bc_producer_request
    \/ bc_producer_try_request
    \/ \E d \in Data : FillBuffer(d)
    \/ bc_producer_ready

Consumer ==
    \/ bc_consumer_request
    \/ bc_consumer_try_request
    \/ bc_consumer_release
    \/ StartFlush \/ FlushTake \/ FlushRelease \/ bc_flush
    \/ \E nbuf \in NBuf : bc_setbuffer(nbuf)
    \/ SetNum
    \/ bc_cleanup
    \/ bc_top_reset
    \/ bc_top_try_request

Next == Producer \/ Consumer

Spec == Init /\ [][Next]_vars

(* The producer thread loops until the end of the file, and a consumer that *)
(* has been woken, or that holds or drops a buffer, goes on.                *)
Fairness ==
    /\ WF_vars(Producer)
    /\ WF_vars(cpc = "woken" /\ bc_consumer_request)
    /\ WF_vars(bc_consumer_release)
    /\ WF_vars(FlushTake \/ FlushRelease \/ bc_flush \/ SetNum)
    /\ WF_vars(cpc = "clean" /\ bc_cleanup)

FairSpec == Spec /\ Fairness

-----------------------------------------------------------------------------
(* Properties. *)

Producing == ppc \in {"fill", "filled"}
Consuming == cpc \in {"use", "drop"}

\* Every variable keeps its type.
TypeOK ==
    /\ num \in 1 .. Allocated
    /\ buf_free \in 0 .. Allocated /\ buf_ready \in 0 .. Allocated
    /\ front \in Slots /\ rear \in Slots
    /\ top \in Slots /\ top_used \in 0 .. Allocated /\ peeking \in {"on", "off"}
    /\ dkbuf \in [Slots -> Data]
    /\ ppc \in {"idle", "asleep", "woken", "fill", "filled"}
    /\ pslot \in Slots \cup {NoSlot} /\ (Producing => pslot \in Slots)
    /\ cpc \in {"idle", "asleep", "woken", "use", "flush", "drop", "resize", "clean"}
    /\ cslot \in Slots \cup {NoSlot} /\ (Consuming => cslot \in Slots)
    /\ resize_to \in 0 .. Allocated

\* The slots whose data is waiting for the consumer: buf_ready of them from rear.
Ahead(k) == IF rear + k < num THEN rear + k ELSE rear + k - num
ReadySlots == {Ahead(k) : k \in 0 .. buf_ready - 1}

\* The buffer the producer writes into is neither the one the consumer reads
\* nor one whose data is ready: two threads never share a buffer, although
\* bc_producer_ready and bc_consumer_release only move counters.
ExclusiveBuffers ==
    /\ (Producing /\ Consuming) => pslot # cslot
    /\ Producing => pslot \notin ReadySlots
    /\ Consuming => cslot \notin ReadySlots

\* Every buffer is free, ready, being filled or being used: none leaks and
\* none is counted twice, except between the two halves of a resize.
Accounted ==
    cpc # "clean" =>
      num = buf_free + buf_ready + (IF Producing THEN 1 ELSE 0)
                                 + (IF Consuming THEN 1 ELSE 0)

\* No lost wakeup: a thread is asleep on available_condi or ready_condi only
\* while what it waits for is missing.
NoLostWakeup ==
    /\ ppc = "asleep" => buf_free = 0
    /\ cpc = "asleep" => buf_ready = 0

\* t_tryreq walks over ready buffers only: what it hands out next is the
\* top_used-th buffer the consumer would get.
PeekInStep ==
    peeking = "on" =>
               /\ top_used <= buf_ready
               /\ top_used < buf_ready => top = Ahead(top_used)

\* A consumer asleep in c_request gets a buffer, as long as the producer works.
ConsumerServed == cpc = "asleep" ~> cpc = "use"

(* The ring implements the first-in first-out channel. *)
Fifo == INSTANCE FifoChannel WITH
    q        <- [k \in 1 .. buf_ready |-> dkbuf[Ahead(k - 1)]],
    taken    <- IF Consuming THEN <<dkbuf[cslot]>> ELSE <<>>,
    reserved <- Producing,
    cap      <- num

\* The consumer gets what the producer filled in, in order, each item once,
\* unaltered while it uses it.
ImplementsFifo == Fifo!Spec
=============================================================================
