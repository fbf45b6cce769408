------------------------------- MODULE XList -------------------------------
(***************************************************************************)
(* The list of xlist/xlist.c.  Given a length XLen, new_xlist makes a ring *)
(* of XLen elements: front is the slot before the first element, rear that *)
(* of the last, and usecnt tells full from empty.  Given 0 it makes a      *)
(* linked list.  Every call holds the mutex from its beginning to its end. *)
(***************************************************************************)
EXTENDS Naturals, Sequences

CONSTANTS XLen, XData, Zero

ASSUME LengthAssumption == XLen \in Nat \ {0}

VARIABLES linked,       \* made with length 0
          xslots, xfront, xrear, usecnt,
          xret,         \* what the last call returned
          xhung         \* a call waits for the mutex that it holds itself

xlvars == <<linked, xslots, xfront, xrear, usecnt, xret, xhung>>

Returns(rc, data) == xret' = <<rc, data>>
Ring == ~linked /\ ~xhung

\* Mutant: a full ring takes one more.
NeverFull == TRUE

HasRoom == usecnt < XLen

xlv1_push(d) ==
    /\ Ring /\ HasRoom
    /\ xrear' = (xrear + 1) % XLen
    /\ xslots' = [xslots EXCEPT ![xrear'] = d]
    /\ usecnt' = usecnt + 1 /\ Returns(1, <<>>)
    /\ UNCHANGED <<linked, xfront, xhung>>

xlv1_unshift(d) ==
    /\ Ring /\ HasRoom
    /\ xslots' = [xslots EXCEPT ![xfront] = d]
    /\ xfront' = (xfront + XLen - 1) % XLen
    /\ usecnt' = usecnt + 1 /\ Returns(1, <<>>)
    /\ UNCHANGED <<linked, xrear, xhung>>

Full ==
    /\ Ring /\ usecnt >= XLen /\ Returns(0, <<>>)
    /\ UNCHANGED <<linked, xslots, xfront, xrear, usecnt, xhung>>

xlv1_pop ==
    /\ Ring /\ usecnt > 0
    /\ Returns(1, <<xslots[xrear]>>)
    /\ xrear' = (xrear + XLen - 1) % XLen
    /\ usecnt' = usecnt - 1
    /\ UNCHANGED <<linked, xslots, xfront, xhung>>

xlv1_shift ==
    /\ Ring /\ usecnt > 0
    /\ xfront' = (xfront + 1) % XLen
    /\ Returns(1, <<xslots[xfront']>>)
    /\ usecnt' = usecnt - 1
    /\ UNCHANGED <<linked, xslots, xrear, xhung>>

xlv1_front ==
    /\ Ring /\ usecnt > 0 /\ Returns(1, <<xslots[(xfront + 1) % XLen]>>)
    /\ UNCHANGED <<linked, xslots, xfront, xrear, usecnt, xhung>>
xlv1_rear ==
    /\ Ring /\ usecnt > 0 /\ Returns(1, <<xslots[xrear]>>)
    /\ UNCHANGED <<linked, xslots, xfront, xrear, usecnt, xhung>>
Empty ==
    /\ Ring /\ usecnt = 0 /\ Returns(0, <<>>)
    /\ UNCHANGED <<linked, xslots, xfront, xrear, usecnt, xhung>>

\* count, freebuf and usedbuf, which take no mutex.
xl_count ==
    /\ \E n \in IF linked THEN {0} ELSE {XLen, XLen - usecnt, usecnt} : Returns(n, <<>>)
    /\ UNCHANGED <<linked, xslots, xfront, xrear, usecnt, xhung>>

\* The linked list.  xlv2_malloc locks the mutex that its caller holds: the call
\* never returns, and no later one gets the mutex.
xlv2_malloc ==
    /\ linked /\ ~xhung /\ xhung' = TRUE
    /\ UNCHANGED <<linked, xslots, xfront, xrear, usecnt, xret>>
xlv2_push == xlv2_malloc
xlv2_unshift == xlv2_malloc

\* So the others only ever find it empty.
FindsNone ==
    /\ linked /\ ~xhung /\ Returns(0, <<>>)
    /\ UNCHANGED <<linked, xslots, xfront, xrear, usecnt, xhung>>
xlv2_pop == FindsNone
xlv2_shift == FindsNone
xlv2_front == FindsNone

XlInit ==
    /\ linked \in BOOLEAN
    /\ xslots = [i \in 0 .. XLen - 1 |-> Zero] /\ xfront = 0 /\ xrear = 0 /\ usecnt = 0
    /\ xret = <<0, <<>>>> /\ xhung = FALSE

XlNext ==
    \/ \E d \in XData : xlv1_push(d) \/ xlv1_unshift(d)
    \/ Full \/ xlv1_pop \/ xlv1_shift \/ xlv1_front \/ xlv1_rear \/ Empty \/ xl_count
    \/ xlv2_push \/ xlv2_unshift \/ xlv2_pop \/ xlv2_shift \/ xlv2_front

XlSpec == XlInit /\ [][XlNext]_xlvars

----------------------------------------------------------------------------
\* The elements in order.
Contents == [k \in 1 .. usecnt |-> xslots[(xfront + k) % XLen]]

D == INSTANCE Deque WITH Data <- XData, Cap <- XLen, q <- Contents, ret <- xret

\* The list is a double-ended queue of XLen elements (the picture in xlist.h).
ImplementsDeque == D!DequeSpec
=============================================================================
