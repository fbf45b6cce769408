------------------------------ MODULE XObject ------------------------------
(***************************************************************************)
(* The dynamic objects of x_object/x_object.c: a number, a string, a list  *)
(* of strings, a list of objects or a hash.  Lists and hashes are chains   *)
(* of nodes on the heap, with a tail, a count, a cursor for reading and a  *)
(* cached array of their strings.  `want' is what a caller expects an      *)
(* object to hold.  Several calls do not keep the chain in order; they     *)
(* break the object here, and the property speaks of the others.           *)
(***************************************************************************)
EXTENDS Integers, Sequences

CONSTANTS Objs,         \* two or more objects
          Words,        \* strings: sequences of characters
          Keys,
          NNodes,       \* bound on the nodes ever allocated
          MaxXCalls     \* bound on the calls

VARIABLES obj,          \* struct x_object_t of each object
          node,         \* the nodes: key, val, next, prev
          heap,         \* of each node: "new", "live" or "freed"
          want,         \* history: what each object should hold, a sequence of <<key, val>>
          broken,       \* history: objects whose chain a call has broken
          xcalls

xovars == <<obj, node, heap, want, broken, xcalls>>

NULL == 0
NoKey == "no key"
Lists == {"STRING_LIST", "LIST"}
Chained == Lists \cup {"STRING_HASH"}

Alloc == CHOOSE n \in 1 .. NNodes : heap[n] = "new" /\ \A m \in 1 .. n - 1 : heap[m] # "new"
HasNode == \E n \in 1 .. NNodes : heap[n] = "new"

Call == xcalls < MaxXCalls /\ xcalls' = xcalls + 1
Now(o, r) == obj' = [obj EXCEPT ![o] = r]
Wants(o, s) == want' = [want EXCEPT ![o] = s]
Breaks(o, bad) == broken' = IF bad THEN broken \cup {o} ELSE broken
Front(s) == SubSeq(s, 1, Len(s) - 1)

\* The k-th node of the chain, counted from 0.
Chain(o) ==
    LET at[k \in 0 .. NNodes] ==
            IF k = 0 THEN obj[o].list
            ELSE IF at[k - 1] = NULL THEN NULL ELSE node[at[k - 1]].next
    IN at
Nodes(o) == {Chain(o)[k] : k \in 0 .. NNodes} \ {NULL}

----------------------------------------------------------------------------
\* A node at the end of the chain.
Linked(o, n, kind) ==
    LET r == obj[o] IN
    IF r.type = "EMPTY"
    THEN Now(o, [r EXCEPT !.type = kind, !.list = n, !.tail = n, !.count = 1, !.sok = FALSE,
                          !.rptr = IF kind = "STRING_HASH" THEN NULL ELSE @])
    ELSE Now(o, [r EXCEPT !.tail = n, !.count = @ + 1, !.sok = FALSE,
                          !.rptr = IF kind = "LIST" THEN @ ELSE NULL])
Entered(o, n, key, val, back) ==
    LET r == obj[o]
        e == [key |-> key, val |-> val, next |-> NULL, prev |-> IF r.type = "EMPTY" THEN NULL ELSE back]
    IN /\ node' = [m \in DOMAIN node |->
                      IF m = n THEN e
                      ELSE IF r.type # "EMPTY" /\ m = r.tail THEN [node[m] EXCEPT !.next = n]
                      ELSE node[m]]
       /\ heap' = [heap EXCEPT ![n] = "live"]

\* push and str_push.  After a pop of the last element the tail is a freed node.
xobj_internal_push(o, kind, v) ==
    LET r == obj[o] IN
    /\ Call /\ HasNode /\ r.type \in {"EMPTY", kind}
    /\ Linked(o, Alloc, kind) /\ Entered(o, Alloc, NoKey, v, r.tail)
    /\ Wants(o, (IF r.type = "EMPTY" THEN <<>> ELSE want[o]) \o <<<<NoKey, v>>>>)
    /\ Breaks(o, r.type = kind /\ r.count = 0)

\* unshift takes lists of objects; on one that has been emptied it follows NULL.
xobj_internal_unshift(o, v) ==
    LET r == obj[o]
        n == Alloc
        e == [key |-> NoKey, val |-> v, prev |-> NULL,
              next |-> IF r.type = "EMPTY" THEN NULL ELSE r.list]
    IN
    /\ Call /\ HasNode /\ r.type \in {"EMPTY", "LIST"} /\ (r.type = "LIST" => r.count > 0)
    /\ IF r.type = "EMPTY"
       THEN Now(o, [r EXCEPT !.type = "LIST", !.list = n, !.tail = n, !.count = 1, !.sok = FALSE])
       ELSE Now(o, [r EXCEPT !.list = n, !.count = @ + 1, !.sok = FALSE])
    /\ node' = [m \in DOMAIN node |->
                   IF m = n THEN e
                   ELSE IF r.type = "LIST" /\ m = r.list THEN [node[m] EXCEPT !.prev = n]
                   ELSE node[m]]
    /\ heap' = [heap EXCEPT ![n] = "live"]
    /\ Wants(o, <<<<NoKey, v>>>> \o IF r.type = "EMPTY" THEN <<>> ELSE want[o])
    /\ UNCHANGED broken

\* A call that is refused, or finds no memory.
Refused(o) ==
    /\ Call /\ Now(o, [obj[o] EXCEPT !.sok = FALSE])
    /\ UNCHANGED <<node, heap, want, broken>>

\* pop and str_pop.  The call after the one that took the last element makes the
\* object empty.
xobj_pop(o) ==
    LET r == obj[o]
        n == IF r.count = 1 THEN r.list ELSE r.tail
        p == node[n].prev
    IN
    /\ Call /\ r.type \in Lists /\ UNCHANGED broken
    /\ \/ /\ r.count = 0 /\ Now(o, [r EXCEPT !.type = "EMPTY", !.sok = FALSE])
          /\ UNCHANGED <<node, heap, want>>
       \/ /\ r.count > 0 /\ heap' = [heap EXCEPT ![n] = "freed"]
          /\ Wants(o, Front(want[o]))
          /\ IF r.count = 1
             THEN /\ Now(o, [r EXCEPT !.list = NULL, !.count = 0, !.sok = FALSE])
                  /\ UNCHANGED node
             ELSE /\ Now(o, [r EXCEPT !.tail = p, !.count = @ - 1, !.sok = FALSE])
                  /\ node' = [node EXCEPT ![p].next = NULL]

\* shift takes the last element, and leaves tail at it.
xobj_shift(o) ==
    LET r == obj[o]
        n == IF r.count = 1 THEN r.list ELSE r.tail
    IN
    /\ Call /\ r.type = "LIST"
    /\ \/ /\ r.count = 0 /\ Now(o, [r EXCEPT !.type = "EMPTY", !.sok = FALSE])
          /\ UNCHANGED <<node, heap, want, broken>>
       \/ /\ r.count > 0 /\ heap' = [heap EXCEPT ![n] = "freed"]
          /\ Wants(o, Tail(want[o])) /\ Breaks(o, r.count > 1)
          /\ IF r.count = 1
             THEN /\ Now(o, [r EXCEPT !.list = NULL, !.count = 0, !.sok = FALSE])
                  /\ UNCHANGED node
             ELSE /\ Now(o, [r EXCEPT !.count = @ - 1, !.sok = FALSE])
                  /\ node' = [node EXCEPT ![node[n].prev].next = NULL]

----------------------------------------------------------------------------
(* The hash.                                                               *)

xobj_internal_get(o, key) ==
    LET at == Chain(o)
        hits == {k \in 0 .. NNodes : at[k] # NULL /\ node[at[k]].key = key}
    IN IF obj[o].type # "STRING_HASH" \/ hits = {} THEN NULL
       ELSE at[CHOOSE k \in hits : \A j \in hits : k <= j]

\* The value of a key is replaced, or the key is appended.  prev of a new node is
\* the node itself; a hash whose only key was deleted has no tail to append to.
xobj_put(o, key, v) ==
    LET r == obj[o]
        n == xobj_internal_get(o, key)
        i == CHOOSE i \in DOMAIN want[o] : want[o][i][1] = key
    IN
    /\ Call /\ r.type \in {"EMPTY", "STRING_HASH"} /\ UNCHANGED broken
    /\ \/ /\ n # NULL /\ node' = [node EXCEPT ![n].val = v]
          /\ Now(o, [r EXCEPT !.sok = FALSE])
          /\ Wants(o, [want[o] EXCEPT ![i] = <<key, v>>]) /\ UNCHANGED heap
       \/ /\ n = NULL /\ HasNode /\ (r.type = "STRING_HASH" => r.count > 0)
          /\ Linked(o, Alloc, "STRING_HASH") /\ Entered(o, Alloc, key, v, Alloc)
          /\ Wants(o, (IF r.type = "EMPTY" THEN <<>> ELSE want[o]) \o <<<<key, v>>>>)

Without(s, key) == SelectSeq(s, LAMBDA e : e[1] # key)

\* Only the first of several nodes is taken out of the chain properly.
xobj_del(o, key) ==
    LET r == obj[o]
        n == xobj_internal_get(o, key)
        cursor == IF r.rptr = n THEN NULL ELSE r.rptr
    IN
    /\ Call /\ r.type = "STRING_HASH" /\ n # NULL
    /\ Wants(o, Without(want[o], key))
    /\ \/ /\ r.count = 1
          /\ Now(o, [r EXCEPT !.list = NULL, !.tail = NULL, !.count = 0, !.rptr = cursor])
          /\ UNCHANGED <<node, heap, broken>>
       \/ /\ r.count > 1 /\ r.list = n
          /\ Now(o, [r EXCEPT !.list = node[n].next, !.count = @ - 1, !.rptr = cursor])
          /\ node' = [node EXCEPT ![node[n].next].prev = NULL]
          /\ heap' = [heap EXCEPT ![n] = "freed"] /\ UNCHANGED broken
       \/ /\ r.count > 1 /\ r.list # n
          /\ Now(o, [r EXCEPT !.tail = IF @ = n THEN node[n].prev ELSE @, !.count = @ - 1,
                              !.rptr = cursor])
          /\ node' = IF r.tail = n THEN [node EXCEPT ![node[n].prev].next = NULL] ELSE node
          /\ heap' = [heap EXCEPT ![n] = "freed"] /\ Breaks(o, TRUE)

\* get_first and get_next.
xobj_get_first(o) ==
    LET r == obj[o] IN
    /\ Call /\ r.type = "STRING_HASH"
    /\ Now(o, [r EXCEPT !.rptr = IF r.list = NULL THEN NULL ELSE node[r.list].next])
    /\ UNCHANGED <<node, heap, want, broken>>
xobj_get_next(o) ==
    LET r == obj[o] IN
    /\ Call /\ r.type = "STRING_HASH" /\ r.rptr # NULL
    /\ Now(o, [r EXCEPT !.rptr = node[r.rptr].next])
    /\ UNCHANGED <<node, heap, want, broken>>

----------------------------------------------------------------------------
\* What xobj_empty leaves.
Emptied(r) ==
    IF r.type \in Chained THEN [r EXCEPT !.type = "EMPTY", !.sok = FALSE, !.scnt = 0, !.slist = <<>>]
    ELSE [r EXCEPT !.type = "EMPTY"]
Frees(o) ==
    heap' = [n \in DOMAIN heap |->
        IF obj[o].type \in Chained /\ n \in Nodes(o) THEN "freed" ELSE heap[n]]

xobj_empty(o) ==
    /\ Call /\ Now(o, Emptied(obj[o])) /\ Frees(o) /\ Wants(o, <<>>)
    /\ UNCHANGED <<node, broken>>

\* setint and setreal.
xobj_setint(o) ==
    /\ Call /\ Now(o, [Emptied(obj[o]) EXCEPT !.type = "NUMBER"]) /\ Frees(o) /\ Wants(o, <<>>)
    /\ UNCHANGED <<node, broken>>

\* A string that fits is copied over the old one; list_count is what fits.
xobj_setstr(o, s) ==
    LET r == obj[o] IN
    /\ Call /\ Wants(o, <<<<NoKey, s>>>>) /\ UNCHANGED <<node, broken>>
    /\ IF r.type = "STRING" /\ Len(s) <= r.count
       THEN Now(o, [r EXCEPT !.str = s]) /\ UNCHANGED heap
       ELSE /\ Now(o, [Emptied(r) EXCEPT !.type = "STRING", !.str = s, !.size = Len(s),
                                          !.count = Len(s)])
            /\ Frees(o)

\* Mutant: the copy of a string keeps the room of the original.
CopiedKeeps(r, s) == [s EXCEPT !.slist = <<>>, !.scnt = 0, !.size = Len(s.str)]

\* memcpy of the structure, a new array, and a string of its own.
Copied(r, s) ==
    [s EXCEPT !.slist = <<>>, !.scnt = 0,
              !.size = IF s.type = "STRING" THEN Len(s.str) ELSE @,
              !.count = IF s.type = "STRING" THEN Len(s.str) ELSE @]

\* A list of strings or a hash is copied with its nodes: both objects have them.
xobj_copy(o, src) ==
    /\ Call /\ o # src /\ obj[src].type # "LIST"
    /\ Frees(o) /\ Now(o, Copied(obj[o], obj[src]))
    /\ want' = [want EXCEPT ![o] = want[src]]
    /\ broken' = IF obj[src].type \in Chained /\ obj[src].list # NULL
                 THEN broken \cup {o, src} ELSE broken
    /\ UNCHANGED node

\* str_array: the cached array, made anew when a call has changed the list.
internal_gen_strlist(o) ==
    LET r == obj[o]
        grown == r.count > r.scnt
        fill == [i \in 1 .. r.count |-> node[Chain(o)[i - 1]].val]
    IN
    /\ Call /\ r.type \in Lists
    /\ Now(o, IF r.sok /\ ~grown THEN r
              ELSE [r EXCEPT !.slist = fill, !.sok = TRUE, !.scnt = r.count])
    /\ UNCHANGED <<node, heap, want, broken>>

----------------------------------------------------------------------------
XoInit ==
    /\ obj = [o \in Objs |-> [type |-> "EMPTY", list |-> NULL, tail |-> NULL, count |-> 0,
                              rptr |-> NULL, slist |-> <<>>, sok |-> FALSE, scnt |-> 0,
                              str |-> <<>>, size |-> 0]]
    /\ node = [n \in 1 .. NNodes |-> [key |-> NoKey, val |-> <<>>, next |-> NULL, prev |-> NULL]]
    /\ heap = [n \in 1 .. NNodes |-> "new"]
    /\ want = [o \in Objs |-> <<>>] /\ broken = {} /\ xcalls = 0

\* The calls on an object that is not broken.
XoNext ==
    \E o \in Objs \ broken :
        \/ \E v \in Words : \/ xobj_internal_push(o, "STRING_LIST", v)
                            \/ xobj_internal_push(o, "LIST", v)
                            \/ xobj_internal_unshift(o, v) \/ xobj_setstr(o, v)
                            \/ \E k \in Keys : xobj_put(o, k, v)
        \/ Refused(o) \/ xobj_pop(o) \/ xobj_shift(o) \/ \E k \in Keys : xobj_del(o, k)
        \/ xobj_get_first(o) \/ xobj_get_next(o) \/ xobj_empty(o) \/ xobj_setint(o)
        \/ \E src \in Objs \ broken : xobj_copy(o, src)
        \/ internal_gen_strlist(o)

----------------------------------------------------------------------------
\* A chain in order: count live nodes from the list to the tail that hold what the
\* object should hold, each list node knowing the one before it, and the cursor at
\* one of them.
InOrder(o) ==
    LET r == obj[o]
        at == Chain(o)
    IN
    /\ r.count = Len(want[o]) /\ at[r.count] = NULL
    /\ \A i \in 1 .. r.count : /\ at[i - 1] # NULL /\ heap[at[i - 1]] = "live"
                               /\ <<node[at[i - 1]].key, node[at[i - 1]].val>> = want[o][i]
                               /\ r.type \in Lists =>
                                      node[at[i - 1]].prev = IF i = 1 THEN NULL ELSE at[i - 2]
    /\ r.count > 0 => r.tail = at[r.count - 1]
    /\ r.type = "STRING_HASH" => r.rptr \in Nodes(o) \cup {NULL}

\* An object that no call has broken holds what its calls have put into it: its
\* chain is in order, the array that str_array returns without looking is that of
\* its strings, and its string fits into the room it has.
Holds == \A o \in Objs \ broken :
    /\ obj[o].type \in Chained => InOrder(o)
    /\ (obj[o].type \in Lists /\ obj[o].sok /\ obj[o].count <= obj[o].scnt) =>
           obj[o].slist = [i \in 1 .. Len(want[o]) |-> want[o][i][2]]
    /\ obj[o].type = "STRING" => /\ want[o] = <<<<NoKey, obj[o].str>>>>
                                 /\ Len(obj[o].str) <= obj[o].size /\ obj[o].count = obj[o].size
=============================================================================
