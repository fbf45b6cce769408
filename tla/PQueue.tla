------------------------------- MODULE PQueue -------------------------------
(***************************************************************************)
(* pqueue/pqueue.c: a queue of distinct numbers, first-in first-out without*)
(* a callback, ordered by the callback otherwise.  Every operation runs    *)
(* under the mutex; a dequeuer that waits sleeps on condi.                 *)
(***************************************************************************)
EXTENDS Integers, Sequences, SequencesExt

CONSTANTS
    N,            \* entries asked of new_priority_queue; the array has N + 1
    Values,       \* the numbers callers enqueue, compared by the callback as numbers
    Dequeuers

count == N + 1

VARIABLES
    queue, front, rear, use_cnt,
    callback,   \* TRUE if new_priority_queue was given a priority_callback
    pc,         \* each dequeuer: idle, asleep or awake
    accepted    \* what enqueue stored and dequeue has not returned, oldest first

vars == <<queue, front, rear, use_cnt, callback, pc, accepted>>

Init ==
    /\ queue = [i \in 0 .. N |-> 0]
    /\ front = 0 /\ rear = 0 /\ use_cnt = 0
    /\ callback \in BOOLEAN
    /\ pc = [d \in Dequeuers |-> "idle"]
    /\ accepted = <<>>

SignalOne ==
    \/ \E d \in Dequeuers : pc[d] = "asleep" /\ pc' = [pc EXCEPT ![d] = "awake"]
    \/ (\A d \in Dequeuers : pc[d] # "asleep") /\ UNCHANGED pc

\* The indexes the duplicate scan of the ring visits.
Scanned == {(front + k) % count : k \in 0 .. ((rear - front) % count) - 1}

EnqueueFifo(n) ==
    /\ front = rear \/ (/\ \A i \in Scanned : queue[i] # n
                        /\ use_cnt < count - 1)
    /\ queue' = [queue EXCEPT ![rear] = n]
    /\ rear' = (rear + 1) % count
    /\ use_cnt' = use_cnt + 1
    /\ UNCHANGED front

\* qsort of the first k entries.
Sorted(a, k) ==
    LET s == SortSeq([i \in 1 .. k |-> a[i - 1]], <)
    IN  [i \in 0 .. N |-> IF i < k THEN s[i + 1] ELSE a[i]]

EnqueuePriority(n) ==
    /\ \A i \in 0 .. use_cnt - 1 : queue[i] # n
    /\ \/ use_cnt = 0 /\ queue' = [queue EXCEPT ![0] = n]
       \/ /\ use_cnt > 0 /\ use_cnt < count - 1
          /\ queue' = Sorted([queue EXCEPT ![use_cnt + 1] = n], use_cnt + 1)
    /\ use_cnt' = use_cnt + 1
    /\ UNCHANGED <<front, rear>>

\* A duplicate, and a full queue, change nothing.
pq_enqueue(n) ==
    /\ IF callback THEN EnqueuePriority(n) ELSE EnqueueFifo(n)
    /\ accepted' = IF n \in ToSet(accepted) THEN accepted ELSE Append(accepted, n)
    /\ SignalOne
    /\ UNCHANGED callback

pq_dequeue(d) ==
    /\ pc[d] \in {"idle", "awake"}
    /\ \/ /\ use_cnt = 0
          /\ pc' = [pc EXCEPT ![d] = "asleep"]
          /\ UNCHANGED <<queue, front, rear, use_cnt, callback, accepted>>
       \/ /\ use_cnt # 0
          /\ LET rc == IF callback THEN queue[use_cnt - 1] ELSE queue[front]
             IN  accepted' = SelectSeq(accepted, LAMBDA n : n # rc)
          /\ front' = IF callback THEN front ELSE (front + 1) % count
          /\ use_cnt' = use_cnt - 1
          /\ pc' = [pc EXCEPT ![d] = "idle"]
          /\ UNCHANGED <<queue, rear, callback>>

Next == (\E n \in Values : pq_enqueue(n)) \/ (\E d \in Dequeuers : pq_dequeue(d))

Spec == Init /\ [][Next]_vars /\ \A d \in Dequeuers : WF_vars(pq_dequeue(d))

-----------------------------------------------------------------------------
\* pqueue.c calls itself a priority queue: with a callback it holds what was
\* accepted, and dequeue takes the greatest of it.
PriorityOrder ==
    callback /\ use_cnt > 0 =>
        /\ {queue[i] : i \in 0 .. use_cnt - 1} = ToSet(accepted)
        /\ \A n \in ToSet(accepted) : n <= queue[use_cnt - 1]
=============================================================================
