------------------------------- MODULE MQueue -------------------------------
(***************************************************************************)
(* mqueue/mqueue.c: several first-in first-out queues of small numbers,    *)
(* lower queue first, each number in at most one of them.  A number that   *)
(* is enqueued again at a better queue "jumps": its old entry becomes a    *)
(* hole (-1) that dequeue skips.  Both operations run under the mutex;     *)
(* dequeue(wait = 1) gives it up while it sleeps and between two holes.    *)
(***************************************************************************)
EXTENDS Integers, FiniteSets

CONSTANTS
    N,          \* entries a queue can hold; its array has N + 1
    Queues,     \* 0 .. number_of_queue - 1
    Values,     \* the numbers callers enqueue
    EnqTo,      \* the queues callers enqueue to
    Dequeuers   \* threads that call dequeue

ASSUME NAssumption == N \in Nat \ {0}
ASSUME ValuesAssumption == Values \subseteq Nat
ASSUME QueuesAssumption == EnqTo \subseteq Queues /\ Queues \subseteq Nat
ASSUME DequeuersAssumption == IsFiniteSet(Dequeuers)

Hole == -1
count == N + 1

VARIABLES
    queue, front, rear, use_cnt, inqueue_cnt,
    location,   \* location[n] = [q, i]: queue and index, -1 when not queued
    pc          \* each dequeuer: idle, asleep on condi, or awake inside dequeue

vars == <<queue, front, rear, use_cnt, inqueue_cnt, location, pc>>

\* new_multiple_queue: the arrays come from calloc.
Init ==
    /\ queue = [q \in Queues |-> [i \in 0 .. N |-> 0]]
    /\ front = [q \in Queues |-> 0] /\ rear = [q \in Queues |-> 0]
    /\ use_cnt = [q \in Queues |-> 0] /\ inqueue_cnt = 0
    /\ location = [n \in Values |-> [q |-> -1, i |-> -1]]
    /\ pc = [d \in Dequeuers |-> "idle"]

Succ(i) == (i + 1) % count

\* Mutant: nobody is woken.
SignalNobody == UNCHANGED pc

\* pthread_cond_signal wakes one of the sleepers, if there is one.
SignalOne ==
    \/ \E d \in Dequeuers : pc[d] = "asleep" /\ pc' = [pc EXCEPT ![d] = "awake"]
    \/ (\A d \in Dequeuers : pc[d] # "asleep") /\ UNCHANGED pc

\* The entry left behind is cleared at location[n].i, which is stale if an
\* earlier enqueue of n found its queue full: there the index may be -1,
\* which is in front of the array.
ClearOld(n, i) ==
    IF location[n].i \in 0 .. N
    THEN [queue EXCEPT ![i][location[n].i] = Hole]
    ELSE queue

mq_enqueue(n, q) ==
    LET i == location[n].q IN
    /\ i < 0 \/ i > q
    /\ \/ /\ use_cnt[q] < count - 1
          /\ LET cleared == IF i > q THEN ClearOld(n, i) ELSE queue
             IN  queue' = [cleared EXCEPT ![q][rear[q]] = n]
          /\ location' = [location EXCEPT ![n] = [q |-> q, i |-> rear[q]]]
          /\ rear' = [rear EXCEPT ![q] = Succ(@)]
          /\ use_cnt' = [use_cnt EXCEPT ![q] = @ + 1]
          /\ inqueue_cnt' = inqueue_cnt + 1
          /\ SignalOne
          /\ UNCHANGED front
       \/ /\ use_cnt[q] >= count - 1    \* "ENQUEUE: full on queue"
          /\ location' = [location EXCEPT ![n].q = q]
          /\ UNCHANGED <<queue, front, rear, use_cnt, inqueue_cnt, pc>>

Unmarked(rc) == IF rc >= 0 THEN [location EXCEPT ![rc].q = -1] ELSE location

mq_dequeue(d) ==
    /\ pc[d] \in {"idle", "awake"}
    /\ \/ /\ inqueue_cnt = 0
          /\ pc' = [pc EXCEPT ![d] = "asleep"]
          /\ UNCHANGED <<queue, front, rear, use_cnt, inqueue_cnt, location>>
       \/ /\ inqueue_cnt # 0
          /\ \E i \in Queues :
               /\ use_cnt[i] > 0
               /\ \A j \in Queues : j < i => use_cnt[j] = 0
               /\ LET rc == queue[i][front[i]] IN
                  /\ location' = Unmarked(rc)
                  /\ pc' = [pc EXCEPT ![d] = IF rc >= 0 THEN "idle" ELSE "awake"]
               /\ front' = [front EXCEPT ![i] = Succ(@)]
               /\ use_cnt' = [use_cnt EXCEPT ![i] = @ - 1]
          /\ inqueue_cnt' = inqueue_cnt - 1
          /\ UNCHANGED <<queue, rear>>

Next ==
    \/ \E n \in Values, q \in EnqTo : mq_enqueue(n, q)
    \/ \E d \in Dequeuers : mq_dequeue(d)

(* The threads that serve the queue loop around dequeue. *)
Fairness == \A d \in Dequeuers : WF_vars(mq_dequeue(d))

Spec == Init /\ [][Next]_vars /\ Fairness

-----------------------------------------------------------------------------
\* mq_is_empty
mq_is_empty == inqueue_cnt = 0

\* Every variable keeps its type.
TypeOK ==
    /\ queue \in [Queues -> [0 .. N -> Values \cup {0, Hole}]]
    /\ front \in [Queues -> 0 .. N] /\ rear \in [Queues -> 0 .. N]
    /\ use_cnt \in [Queues -> 0 .. N]
    /\ inqueue_cnt \in Nat
    /\ location \in [Values -> [q : Queues \cup {-1}, i : -1 .. N]]
    /\ pc \in [Dequeuers -> {"idle", "asleep", "awake"}]

\* The indexes of every queue and its count tell the same story, holes included.
IndexesAgree == \A q \in Queues : rear[q] = (front[q] + use_cnt[q]) % count

\* No lost wakeup: while a dequeuer sleeps, every entry has an awake dequeuer.
NoLostWakeup ==
    (\E d \in Dequeuers : pc[d] = "asleep") =>
        inqueue_cnt <= Cardinality({d \in Dequeuers : pc[d] = "awake"})

\* The k-th of the entries of queue q that dequeue has yet to reach.
Entry(q, k) == queue[q][(front[q] + k) % count]

\* Queue q holds each number that location puts there once, and no other.
EachOnce(q) ==
    /\ \A n \in Values :
         location[n].q = q <=> \E k \in 0 .. use_cnt[q] - 1 : Entry(q, k) = n
    /\ \A j, k \in 0 .. use_cnt[q] - 1 : Entry(q, j) = Entry(q, k) => j = k

\* A number that is not queued finds room in queue q: "ENQUEUE: full" does not happen.
RoomLeft(q) == \A n \in Values : location[n].q < 0 => use_cnt[q] < count - 1
=============================================================================
