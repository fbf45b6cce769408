---------------------------- MODULE FifoChannel ----------------------------
(***************************************************************************)
(* What a buffer cache promises its two users: a bounded first-in          *)
(* first-out channel.  The producer reserves a place before it knows what  *)
(* it will put there, the consumer keeps the item it took until it is done *)
(* with it, and both the reserved place and the item being used count      *)
(* against the capacity.                                                   *)
(***************************************************************************)
EXTENDS Naturals, Sequences

CONSTANT Data      \* what a place can hold

VARIABLES
    q,          \* the items put and not yet taken, oldest first
    taken,      \* <<>>, or <<d>> while the consumer uses item d
    reserved,   \* TRUE while the producer owns an unfilled place
    cap         \* the present capacity

vars == <<q, taken, reserved, cap>>

Init == q = <<>> /\ taken = <<>> /\ reserved = FALSE /\ cap \in Nat

Reserve ==
    /\ ~reserved
    /\ Len(q) + Len(taken) < cap
    /\ reserved' = TRUE
    /\ UNCHANGED <<q, taken, cap>>

Put(d) ==
    /\ reserved
    /\ q' = Append(q, d)
    /\ reserved' = FALSE
    /\ UNCHANGED <<taken, cap>>

Take ==
    /\ taken = <<>>
    /\ q # <<>>
    /\ taken' = <<Head(q)>>
    /\ q' = Tail(q)
    /\ UNCHANGED <<reserved, cap>>

Done ==
    /\ taken # <<>>
    /\ taken' = <<>>
    /\ UNCHANGED <<q, reserved, cap>>

\* Emptying and resizing, while nobody holds a place.
Reset ==
    /\ ~reserved
    /\ taken = <<>>
    /\ q' = <<>>
    /\ cap' \in Nat
    /\ UNCHANGED <<taken, reserved>>

Next == Reserve \/ (\E d \in Data : Put(d)) \/ Take \/ Done \/ Reset

Spec == Init /\ [][Next]_vars
=============================================================================
