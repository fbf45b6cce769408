------------------------------ MODULE SysTree -------------------------------
(***************************************************************************)
(* The two trees of rb_tree/sys-tree.h, which share nothing but their      *)
(* form.                                                                   *)
(***************************************************************************)
EXTENDS Integers, Sequences, FiniteSets, SequencesExt

-----------------------------------------------------------------------------
(***************************************************************************)
(* The red-black tree of rb_tree/sys-tree.h.  The elements are the numbers *)
(* 1 .. NElms, compared by cmp as numbers, and 0 is NULL.  The macros that *)
(* the header writes once for each hand take the side d here.              *)
(***************************************************************************)
CONSTANTS NElms

VARIABLES rb,           \* [root, kid, up, color]
          members,      \* history: the elements inserted and not removed
          rbret         \* what the last call returned

rbvars == <<rb, members, rbret>>

Elms == 1 .. NElms
NULL == 0
Other(d) == IF d = "left" THEN "right" ELSE "left"
SideOf(t, p, e) == IF t.kid["left"][p] = e THEN "left" ELSE "right"

\* The link of p that holds e, or the root when p is NULL, is given x.
Relink(t, p, e, x) ==
    IF p = NULL THEN [t EXCEPT !.root = x] ELSE [t EXCEPT !.kid[SideOf(t, p, e)][p] = x]

IsRed(t, e) == e # NULL /\ t.color[e] = "red"

----------------------------------------------------------------------------
\* RB_ROTATE_LEFT and RB_ROTATE_RIGHT.
RB_ROTATE(t, elm, d) ==
    LET o == Other(d)
        tmp == t.kid[o][elm]
        in == t.kid[d][tmp]
        t1 == [t EXCEPT !.kid[o][elm] = in, !.up = IF in # NULL THEN [@ EXCEPT ![in] = elm] ELSE @]
        t2 == Relink([t1 EXCEPT !.up[tmp] = t1.up[elm]], t1.up[elm], elm, tmp)
    IN  [t2 EXCEPT !.kid[d][tmp] = elm, !.up[elm] = tmp]

RB_SET_BLACKRED(t, black, red) == [t EXCEPT !.color[black] = "black", !.color[red] = "red"]

RECURSIVE RB_INSERT_COLOR(_, _)
RB_INSERT_COLOR(t, elm) ==
    LET parent == t.up[elm]
        gparent == t.up[parent]
        d == SideOf(t, gparent, parent)
        uncle == t.kid[Other(d)][gparent]
        inner == t.kid[Other(d)][parent] = elm
        t1 == IF inner THEN RB_ROTATE(t, parent, d) ELSE t
        p == IF inner THEN elm ELSE parent
        e == IF inner THEN parent ELSE elm
    IN  IF ~IsRed(t, parent) THEN [t EXCEPT !.color[t.root] = "black"]
        ELSE IF IsRed(t, uncle)
        THEN RB_INSERT_COLOR(RB_SET_BLACKRED([t EXCEPT !.color[uncle] = "black"], parent, gparent),
                             gparent)
        ELSE RB_INSERT_COLOR(RB_ROTATE(RB_SET_BLACKRED(t1, p, gparent), gparent, Other(d)), e)

\* Mutant: the black of the sibling's far child is left as it is.
FarStaysRed(t, far) == t

\* The far child of the sibling turns black before the last rotation.
FarBlack(t, far) == IF far # NULL THEN [t EXCEPT !.color[far] = "black"] ELSE t

RECURSIVE RB_REMOVE_COLOR(_, _, _)
RB_REMOVE_COLOR(t, parent, elm) ==
    IF IsRed(t, elm) \/ elm = t.root
    THEN IF elm # NULL THEN [t EXCEPT !.color[elm] = "black"] ELSE t
    ELSE LET d == SideOf(t, parent, elm)
             o == Other(d)
             sib == t.kid[o][parent]
             t1 == IF IsRed(t, sib) THEN RB_ROTATE(RB_SET_BLACKRED(t, sib, parent), parent, d) ELSE t
             tmp == t1.kid[o][parent]
             near == t1.kid[d][tmp]
             t2 == IF IsRed(t1, t1.kid[o][tmp]) THEN t1
                   ELSE RB_ROTATE([t1 EXCEPT !.color[near] = "black", !.color[tmp] = "red"], tmp, o)
             last == t2.kid[o][parent]
             t3 == [t2 EXCEPT !.color[last] = t2.color[parent], !.color[parent] = "black"]
             t4 == RB_ROTATE(FarBlack(t3, t3.kid[o][last]), parent, d)
         IN  IF ~IsRed(t1, t1.kid["left"][tmp]) /\ ~IsRed(t1, t1.kid["right"][tmp])
             THEN RB_REMOVE_COLOR([t1 EXCEPT !.color[tmp] = "red"], t1.up[parent], parent)
             ELSE [t4 EXCEPT !.color[t4.root] = "black"]

RECURSIVE Descend(_, _, _)
Descend(t, e, d) == IF t.kid[d][e] = NULL THEN e ELSE Descend(t, t.kid[d][e], d)

\* elm is cut out of its place and child put there.
CutOut(t, elm, child) ==
    LET parent == t.up[elm]
        t1 == IF child # NULL THEN [t EXCEPT !.up[child] = parent] ELSE t
    IN  Relink(t1, parent, elm, child)

\* elm takes the place of old, with its links and its colour.
Replace(t, old, elm) ==
    LET t1 == [t EXCEPT !.kid["left"][elm] = t.kid["left"][old],
                        !.kid["right"][elm] = t.kid["right"][old],
                        !.up[elm] = t.up[old], !.color[elm] = t.color[old]]
        t2 == Relink(t1, t1.up[old], old, elm)
        kids == {t2.kid["left"][old], t2.kid["right"][old]} \ {NULL}
    IN  [t2 EXCEPT !.up = [x \in DOMAIN @ |-> IF x \in kids THEN elm ELSE @[x]]]

Removed(t, old) ==
    LET l == t.kid["left"][old]
        r == t.kid["right"][old]
        two == l # NULL /\ r # NULL
        elm == IF two THEN Descend(t, r, "left") ELSE old
        child == IF elm = old /\ r = NULL THEN l ELSE t.kid["right"][elm]
        t1 == CutOut(t, elm, child)
        parent == IF two /\ t.up[elm] = old THEN elm ELSE t.up[elm]
        t2 == IF two THEN Replace(t1, old, elm) ELSE t1
    IN  IF t.color[elm] = "black" THEN RB_REMOVE_COLOR(t2, parent, child) ELSE t2

RB_SET(t, elm, parent) ==
    [t EXCEPT !.up[elm] = parent, !.color[elm] = "red",
              !.kid["left"][elm] = NULL, !.kid["right"][elm] = NULL]

\* The caller frees elm: its fields are not read again before RB_SET.
RB_REMOVE(elm) ==
    /\ elm \in members
    /\ rb' = RB_SET(Removed(rb, elm), elm, NULL) /\ members' = members \ {elm} /\ rbret' = elm

\* The way down to elm, or to the last element before where it would be.
RECURSIVE Search(_, _, _)
Search(t, e, elm) ==
    LET next == IF elm < e THEN t.kid["left"][e] ELSE t.kid["right"][e]
    IN  IF elm = e \/ next = NULL THEN e ELSE Search(t, next, elm)

RB_INSERT(elm) ==
    LET parent == IF rb.root = NULL THEN NULL ELSE Search(rb, rb.root, elm)
        set == RB_SET(rb, elm, parent)
        linked == IF parent = NULL THEN [set EXCEPT !.root = elm]
                  ELSE [set EXCEPT !.kid[IF elm < parent THEN "left" ELSE "right"][parent] = elm]
    IN  /\ rbret' = IF parent = elm THEN elm ELSE NULL
        /\ rb' = IF parent = elm THEN rb ELSE RB_INSERT_COLOR(linked, elm)
        /\ members' = members \cup {elm}

----------------------------------------------------------------------------
\* The calls that only read.
RB_FIND(t, elm) == IF t.root # NULL /\ Search(t, t.root, elm) = elm THEN elm ELSE NULL
RB_MINMAX(t, d) == IF t.root = NULL THEN NULL ELSE Descend(t, t.root, d)

RECURSIVE Ascend(_, _)
Ascend(t, e) ==
    IF t.up[e] # NULL /\ e = t.kid["right"][t.up[e]] THEN Ascend(t, t.up[e]) ELSE t.up[e]
RB_NEXT(t, elm) ==
    IF t.kid["right"][elm] # NULL THEN Descend(t, t.kid["right"][elm], "left") ELSE Ascend(t, elm)

----------------------------------------------------------------------------
RbInit ==
    /\ rb = [root |-> NULL, kid |-> [s \in {"left", "right"} |-> [e \in Elms |-> NULL]],
             up |-> [e \in Elms \cup {NULL} |-> NULL], color |-> [e \in Elms |-> "red"]]
    /\ members = {} /\ rbret = NULL

RbNext == \E elm \in Elms : RB_INSERT(elm) \/ RB_REMOVE(elm)

----------------------------------------------------------------------------
RECURSIVE BlackHeight(_, _)
BlackHeight(t, e) ==
    IF e = NULL THEN 0 ELSE BlackHeight(t, t.kid["left"][e]) + (IF t.color[e] = "black" THEN 1 ELSE 0)

\* "every search path from the root to a leaf consists of the same number of
\* black nodes, each red node has a black parent" (sys-tree.h, lines 48 to 50),
\* and FIND, MIN, MAX and NEXT meet exactly the elements inserted and not
\* removed, in order.
RedBlack ==
    LET sorted == SetToSortSeq(members, <) IN
    /\ \A e \in members :
           /\ BlackHeight(rb, rb.kid["left"][e]) = BlackHeight(rb, rb.kid["right"][e])
           /\ IsRed(rb, e) => e # rb.root /\ ~IsRed(rb, rb.up[e])
    /\ \A e \in Elms : RB_FIND(rb, e) = IF e \in members THEN e ELSE NULL
    /\ RB_MINMAX(rb, "left") = IF members = {} THEN NULL ELSE sorted[1]
    /\ RB_MINMAX(rb, "right") = IF members = {} THEN NULL ELSE sorted[Len(sorted)]
    /\ \A i \in DOMAIN sorted :
           RB_NEXT(rb, sorted[i]) = IF i = Len(sorted) THEN NULL ELSE sorted[i + 1]

-----------------------------------------------------------------------------
(***************************************************************************)
(* The splay tree of rb_tree/sys-tree.h.  The elements are the numbers     *)
(* 1 .. NSplay, compared as numbers, and 0 is NULL.  The macros that the   *)
(* header writes once for each hand take the side d here.                  *)
(***************************************************************************)
CONSTANTS NSplay

VARIABLES sp,           \* [root, kid]
          inside,       \* history: the elements inserted and not removed
          spret         \* what the last call returned, and what it was to return

spvars == <<sp, inside, spret>>

SplayElms == 1 .. NSplay
Node == NSplay + 1      \* __node, whose links collect the two halves
----------------------------------------------------------------------------
SPLAY_ROTATE(t, tmp, d) ==
    [t EXCEPT !.kid[d][t.root] = t.kid[Other(d)][tmp], !.kid[Other(d)][tmp] = t.root, !.root = tmp]

\* acc["left"] is __right: where what is greater than elm is hung.
SPLAY_LINK(t, at, d) == [t EXCEPT !.kid[d][at] = t.root, !.root = t.kid[d][t.root]]

SPLAY_ASSEMBLE(t, acc) ==
    LET t1 == [t EXCEPT !.kid["right"][acc["right"]] = t.kid["left"][t.root]]
        t2 == [t1 EXCEPT !.kid["left"][acc["left"]] = t1.kid["right"][t.root]]
    IN  [t2 EXCEPT !.kid["left"][t.root] = t2.kid["right"][Node],
                   !.kid["right"][t.root] = t2.kid["left"][Node]]

\* The loop of SPLAY; MINMAX is the same with an elm beyond every other.
RECURSIVE SplayLoop(_, _, _)
SplayLoop(t, acc, elm) ==
    LET d == IF elm < t.root THEN "left" ELSE "right"
        tmp == t.kid[d][t.root]
        beyond == IF d = "left" THEN elm < tmp ELSE elm > tmp
        t1 == IF beyond THEN SPLAY_ROTATE(t, tmp, d) ELSE t
    IN  IF elm = t.root \/ tmp = NULL THEN SPLAY_ASSEMBLE(t, acc)
        ELSE IF beyond /\ t1.kid[d][t1.root] = NULL THEN SPLAY_ASSEMBLE(t1, acc)
        ELSE SplayLoop(SPLAY_LINK(t1, acc[d], d), [acc EXCEPT ![d] = t1.root], elm)

SPLAY(t, elm) ==
    LET clear == [t EXCEPT !.kid["left"][Node] = NULL, !.kid["right"][Node] = NULL]
    IN  [SplayLoop(clear, [left |-> Node, right |-> Node], elm)
            EXCEPT !.kid["left"][Node] = NULL, !.kid["right"][Node] = NULL]    \* it goes out of scope

SPLAY_MINMAX(t, d) == SPLAY(t, IF d = "left" THEN 0 ELSE NSplay + 1)

\* Mutant: the new root keeps the half that hangs from the old one.
HungTwice(t, elm, d) ==
    [t EXCEPT !.kid[d][elm] = t.kid[d][t.root], !.kid[Other(d)][elm] = t.root, !.root = elm]

\* elm becomes the root: what was the root's half on side d is its own now.
Hung(t, elm, d) ==
    [t EXCEPT !.kid[d][elm] = t.kid[d][t.root], !.kid[Other(d)][elm] = t.root,
              !.kid[d][t.root] = NULL, !.root = elm]

Forget(t, elm) == [t EXCEPT !.kid["left"][elm] = NULL, !.kid["right"][elm] = NULL]

SPLAY_INSERT(elm) ==
    LET t == SPLAY(sp, elm)
    IN  /\ sp' = IF sp.root = NULL
                 THEN [Forget(sp, elm) EXCEPT !.root = elm]
                 ELSE IF t.root = elm THEN t
                 ELSE Hung(t, elm, IF elm < t.root THEN "left" ELSE "right")
        /\ spret' = <<IF sp.root # NULL /\ t.root = elm THEN elm ELSE NULL,
                      IF elm \in inside THEN elm ELSE NULL>>
        /\ inside' = inside \cup {elm}

\* The caller frees elm: its links are not read again before SPLAY_INSERT.
SPLAY_REMOVE(elm) ==
    LET t == SPLAY(sp, elm)
        left == t.kid["left"][elm]
        joined == SPLAY([t EXCEPT !.root = left], elm)
    IN  /\ sp' = IF sp.root = NULL THEN sp
                 ELSE IF t.root # elm THEN t
                 ELSE IF left = NULL THEN Forget([t EXCEPT !.root = t.kid["right"][elm]], elm)
                 ELSE Forget([joined EXCEPT !.kid["right"][joined.root] = t.kid["right"][elm]], elm)
        /\ spret' = <<IF sp.root # NULL /\ t.root = elm THEN elm ELSE NULL,
                      IF elm \in inside THEN elm ELSE NULL>>
        /\ inside' = inside \ {elm}

SPLAY_FIND(elm) ==
    /\ sp' = IF sp.root = NULL THEN sp ELSE SPLAY(sp, elm)
    /\ spret' = <<IF sp.root # NULL /\ sp'.root = elm THEN elm ELSE NULL,
                  IF elm \in inside THEN elm ELSE NULL>>
    /\ UNCHANGED inside

Least(S) == IF S = {} THEN NULL ELSE CHOOSE e \in S : \A f \in S : e <= f

SPLAY_NEXT(elm) ==
    /\ elm \in inside
    /\ sp' = SPLAY(sp, elm)
    /\ LET r == sp'.kid["right"][elm]
       IN  spret' = <<IF r = NULL THEN NULL ELSE Descend(sp', r, "left"),
                      Least({e \in inside : e > elm})>>
    /\ UNCHANGED inside

SPLAY_MIN ==
    /\ sp.root # NULL
    /\ sp' = SPLAY_MINMAX(sp, "left")
    /\ spret' = <<sp'.root, Least(inside)>>
    /\ UNCHANGED inside

SPLAY_MAX ==
    /\ sp.root # NULL
    /\ sp' = SPLAY_MINMAX(sp, "right")
    /\ spret' = <<sp'.root, CHOOSE e \in inside : \A f \in inside : f <= e>>
    /\ UNCHANGED inside

----------------------------------------------------------------------------
SpInit ==
    /\ sp = [root |-> NULL, kid |-> [s \in {"left", "right"} |-> [e \in 1 .. Node |-> NULL]]]
    /\ inside = {} /\ spret = <<NULL, NULL>>

SpNext ==
    \/ \E elm \in SplayElms : SPLAY_INSERT(elm) \/ SPLAY_REMOVE(elm) \/ SPLAY_FIND(elm) \/ SPLAY_NEXT(elm)
    \/ SPLAY_MIN \/ SPLAY_MAX

----------------------------------------------------------------------------
RECURSIVE InOrder(_, _)
InOrder(t, e) ==
    IF e = NULL THEN <<>>
    ELSE InOrder(t, t.kid["left"][e]) \o <<e>> \o InOrder(t, t.kid["right"][e])

\* Every call returns what it is to return, and no splay loses, repeats or
\* misplaces an element.
Splayed == spret[1] = spret[2] /\ InOrder(sp, sp.root) = SetToSortSeq(inside, <)
=============================================================================
