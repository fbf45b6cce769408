------------------------------ MODULE MCQueues ------------------------------
(***************************************************************************)
(* The queues side by side, one under test in each behaviour: mqueue with  *)
(* both of its queues in use ("levels", one dequeuer at a time), mqueue    *)
(* the way streamio_v3/stb_table.c uses it ("v3": only the second queue is *)
(* written, and there is room for every station), pqueue ("pq") and xlist  *)
(* ("list").                                                               *)
(***************************************************************************)
EXTENDS MQueue, XList, SequencesExt

CONSTANTS PValues   \* the numbers callers put into pqueue

VARIABLES
    under,          \* the queue under test
    pq_queue, pq_front, pq_rear, pq_use_cnt, pq_callback, pq_pc, pq_accepted

PQ == INSTANCE PQueue WITH
    N <- 2, Values <- PValues,
    queue <- pq_queue, front <- pq_front, rear <- pq_rear, use_cnt <- pq_use_cnt,
    callback <- pq_callback, pc <- pq_pc, accepted <- pq_accepted

pqvars == <<pq_queue, pq_front, pq_rear, pq_use_cnt, pq_callback, pq_pc, pq_accepted>>
listvars == <<linked, xslots, xfront, xrear, usecnt, xret, xhung>>
all == <<under, vars, pqvars, listvars>>

MCInit ==
    /\ under \in {"levels", "v3", "pq", "list"}
    /\ Init /\ PQ!Init /\ XlInit
    /\ under # "pq" => ~pq_callback
    /\ under # "list" => ~linked

MNext ==
    /\ under \in {"levels", "v3"}
    /\ Next
    /\ under = "v3" => use_cnt'[0] = 0
    /\ under = "levels" => Cardinality({d \in Dequeuers : pc'[d] # "idle"}) <= 1
    /\ UNCHANGED <<under, pqvars, listvars>>

PNext == under = "pq" /\ PQ!Next /\ UNCHANGED <<under, vars, listvars>>

LNext == under = "list" /\ XlNext /\ UNCHANGED <<under, vars, pqvars>>

\* The list without a length has hung in its first push, and whoever calls it hangs too.
Hangs == under = "list" /\ xhung /\ UNCHANGED all

Serves(d) ==
    \/ under = "v3" /\ mq_dequeue(d) /\ UNCHANGED <<under, pqvars, listvars>>
    \/ under = "pq" /\ PQ!pq_dequeue(d) /\ UNCHANGED <<under, vars, listvars>>

MCSpec == MCInit /\ [][MNext \/ PNext \/ LNext \/ Hangs]_all
          /\ \A d \in Dequeuers : WF_all(Serves(d))

-----------------------------------------------------------------------------
\* n is in the queue under test: mqueue as the streaming server uses it, or
\* pqueue without a callback.
Queued(n) ==
    \/ under = "v3" /\ n \in Values /\ location[n].q >= 0
    \/ under = "pq" /\ ~pq_callback /\ n \in ToSet(pq_accepted)

\* What is queued is dequeued, however often the others are queued again.
QueuedIsServed == \A n \in Values \cup PValues : Queued(n) ~> ~Queued(n)
=============================================================================
