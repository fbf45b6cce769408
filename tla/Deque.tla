------------------------------- MODULE Deque -------------------------------
(***************************************************************************)
(* What a list of xlist.h promises ("push [======] <--", "shift <--        *)
(* [======]"): a double-ended queue of bounded length.  A call that finds  *)
(* no place, or no element, says so and changes nothing.                   *)
(***************************************************************************)
EXTENDS Naturals, Sequences

CONSTANTS Data, Cap

VARIABLES q,    \* the elements, front first
          ret   \* what the last call returned: a flag or number, and the element

dequevars == <<q, ret>>

Yields(rc, data) == ret' = <<rc, data>>

Pushed == Len(q) < Cap /\ \E d \in Data : q' = Append(q, d) /\ Yields(1, <<>>)
Unshifted == Len(q) < Cap /\ \E d \in Data : q' = <<d>> \o q /\ Yields(1, <<>>)
Popped == /\ q # <<>> /\ Yields(1, <<q[Len(q)]>>)
          /\ q' = [k \in 1 .. Len(q) - 1 |-> q[k]]
Shifted == q # <<>> /\ q' = Tail(q) /\ Yields(1, <<Head(q)>>)
Looked == /\ q # <<>> /\ UNCHANGED q
          /\ Yields(1, <<Head(q)>>) \/ Yields(1, <<q[Len(q)]>>)
Refused == Len(q) \in {0, Cap} /\ Yields(0, <<>>) /\ UNCHANGED q
Counted == UNCHANGED q /\ \E n \in {Cap, Cap - Len(q), Len(q)} : Yields(n, <<>>)

DequeInit == q = <<>> /\ ret = <<0, <<>>>>
DequeNext == Pushed \/ Unshifted \/ Popped \/ Shifted \/ Looked \/ Refused \/ Counted
DequeSpec == DequeInit /\ [][DequeNext]_dequevars
=============================================================================
