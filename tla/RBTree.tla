------------------------------- MODULE RBTree -------------------------------
(***************************************************************************)
(* The red-black tree of src/tree.h, pointer by pointer, as operators on a *)
(* record of the fields that RB_HEAD and RB_ENTRY declare.  The macros     *)
(* come in mirrored pairs; here the side is a parameter.                   *)
(*                                                                         *)
(* The nodes are the elements of a static array.  A NULL that is           *)
(* dereferenced, or a loop that does not end, sets the field "fault".      *)
(* Keys are IP addresses of Width bits and are compared by the sign of     *)
(* their difference as a Width-bit integer, as route_network_cmp,          *)
(* route_iface_cmp and arp_cache_cmp do.                                   *)
(***************************************************************************)
EXTENDS Integers, FiniteSets

CONSTANTS Nodes,    \* the elements of the array
          Null,     \* NULL
          Width     \* bits of an address

ASSUME TreeAssumption ==
    /\ IsFiniteSet(Nodes) /\ Null \notin Nodes
    /\ Width \in Nat \ {0} /\ 2^Width \in Nat \ {0}

\* An arithmetic fact that the provers do not have.
ASSUME PowerAssumption == 2^(Width - 1) \in Nat \ {0} /\ 2^Width = 2 * 2^(Width - 1)

Size      == Cardinality(Nodes)
Addresses == 0 .. 2^Width - 1

Sides    == {"left", "right"}
Other(d) == IF d = "left" THEN "right" ELSE "left"

\* A node that no operation has touched, and RB_INIT: all bytes are zero.
Zeroed(t, n) ==
    [t EXCEPT !.link[n] = [d \in Sides |-> Null], !.parent[n] = Null, !.color[n] = "black"]
EmptyTree ==
    [root   |-> Null,
     link   |-> [n \in Nodes |-> [d \in Sides |-> Null]],
     parent |-> [n \in Nodes |-> Null],
     color  |-> [n \in Nodes |-> "black"],
     fault  |-> FALSE]

\* (int)(a - b)
Cmp(a, b) ==
    LET diff == (a - b) % 2^Width IN IF diff < 2^(Width - 1) THEN diff ELSE diff - 2^Width

\* The side on which a search for key k leaves node n.
Side(key, k, n) == IF Cmp(k, key[n]) < 0 THEN "left" ELSE "right"

-----------------------------------------------------------------------------
(* Plausible defects of the operations below, for mutation of the model.   *)

ReplaceForgetsRoot(t, p, old, new) ==
    IF p = Null THEN t
    ELSE [t EXCEPT !.link[p][IF t.link[p]["left"] = old THEN "left" ELSE "right"] = new]

-----------------------------------------------------------------------------
(* The loop while (While) Body over a tree t with a cursor: "at" is the    *)
(* element the loop is at, "up" its parent.  A loop that would visit more  *)
(* elements than there are does not end.                                   *)

Cursor(t, at, up) == [t |-> t, at |-> at, up |-> up]
Faulty(c)         == [c EXCEPT !.t.fault = TRUE]

Goes(While(_), c)          == ~c.t.fault /\ While(c)
Turn(While(_), Body(_), c) == IF Goes(While, c) THEN Body(c) ELSE c
Ended(While(_), c)         == IF Goes(While, c) THEN Faulty(c) ELSE c
Loop(While(_), Body(_), c) ==
    LET s[i \in 0 .. Size] == IF i = 0 THEN c ELSE Turn(While, Body, s[i - 1])
    IN  Ended(While, s[Size])

Black(t, n)        == n = Null \/ t.color[n] = "black"
Paint(t, n, c)     == IF n = Null THEN t ELSE [t EXCEPT !.color[n] = c]
SetParent(t, n, p) == IF n = Null THEN t ELSE [t EXCEPT !.parent[n] = p]

\* RB_SET_BLACKRED
SetBlackRed(t, black, red) == Paint(Paint(t, black, "black"), red, "red")

\* new takes the place of old below p.
Replace(t, p, old, new) ==
    IF p = Null THEN [t EXCEPT !.root = new]
    ELSE [t EXCEPT !.link[p][IF t.link[p]["left"] = old THEN "left" ELSE "right"] = new]

\* RB_ROTATE_LEFT and RB_ROTATE_RIGHT: elm goes down on side d.
Raise(t, elm, tmp) == SetParent(Replace(t, t.parent[elm], elm, tmp), tmp, t.parent[elm])
Rotate(t, elm, d) ==
    LET tmp   == t.link[elm][Other(d)]
        inner == t.link[tmp][d]
        t1    == SetParent([t EXCEPT !.link[elm][Other(d)] = inner], inner, elm)
    IN  IF t.fault \/ tmp = Null THEN [t EXCEPT !.fault = TRUE]
        ELSE SetParent([Raise(t1, elm, tmp) EXCEPT !.link[tmp][d] = elm], elm, tmp)

\* RB_INSERT_COLOR
InsertColorWhile(c) == ~Black(c.t, c.t.parent[c.at])
InsertColorBody(c) ==
    LET t       == c.t
        parent  == t.parent[c.at]
        gparent == t.parent[parent]
        d       == IF t.link[gparent]["left"] = parent THEN "left" ELSE "right"
        uncle   == t.link[gparent][Other(d)]
        inner   == t.link[parent][Other(d)] = c.at
        t1      == IF inner THEN Rotate(t, parent, d) ELSE t
    IN  IF gparent = Null THEN Faulty(c)
        ELSE IF ~Black(t, uncle)
        THEN Cursor(SetBlackRed(Paint(t, uncle, "black"), parent, gparent), gparent, Null)
        ELSE Cursor(Rotate(SetBlackRed(t1, IF inner THEN c.at ELSE parent, gparent),
                           gparent, Other(d)),
                    IF inner THEN parent ELSE c.at, Null)
RootBlack(t) == Paint(t, t.root, "black")
InsertColor(t, elm) ==
    RootBlack(Loop(InsertColorWhile, InsertColorBody, Cursor(t, elm, Null)).t)

\* RB_REMOVE_COLOR: c.at lacks a black element, on side d of c.up.
\* The last rotation, after which the loop ends at the root;
AtRoot(t) == Cursor(t, t.root, Null)
RemoveColorLast(c, d) ==
    LET tmp == c.t.link[c.up][Other(d)]
    IN  IF c.t.fault \/ tmp = Null THEN Faulty(c)
        ELSE AtRoot(Rotate(Paint(Paint(Paint(c.t, tmp, c.t.color[c.up]), c.up, "black"),
                                 c.t.link[tmp][Other(d)], "black"), c.up, d))

\* the sibling is black: it becomes red, or an inner child is rotated out first;
RemoveColorSibling(c, d) ==
    LET tmp  == c.t.link[c.up][Other(d)]
        near == c.t.link[tmp][d]
        far  == c.t.link[tmp][Other(d)]
    IN  IF c.t.fault \/ tmp = Null THEN Faulty(c)
        ELSE IF Black(c.t, near) /\ Black(c.t, far)
        THEN Cursor(Paint(c.t, tmp, "red"), c.up, c.t.parent[c.up])
        ELSE RemoveColorLast(IF Black(c.t, far)
                             THEN [c EXCEPT !.t = Rotate(SetBlackRed(@, near, tmp), tmp, Other(d))]
                             ELSE c, d)

\* a red sibling is rotated up before.
RemoveColorWhile(c) == Black(c.t, c.at) /\ c.at # c.t.root
RemoveColorBody(c) ==
    LET d   == IF c.t.link[c.up]["left"] = c.at THEN "left" ELSE "right"
        tmp == c.t.link[c.up][Other(d)]
    IN  IF c.up = Null \/ tmp = Null THEN Faulty(c)
        ELSE RemoveColorSibling(IF Black(c.t, tmp) THEN c
                                ELSE [c EXCEPT !.t = Rotate(SetBlackRed(@, tmp, c.up), c.up, d)],
                                d)
CursorBlack(c) == Paint(c.t, c.at, "black")
RemoveColor(t, parent, elm) ==
    CursorBlack(Loop(RemoveColorWhile, RemoveColorBody, Cursor(t, elm, parent)))

\* The outermost element below elm on side d.
Outermost(t, elm, d) ==
    Loop(LAMBDA c : c.t.link[c.at][d] # Null,
         LAMBDA c : [c EXCEPT !.at = c.t.link[c.at][d]], Cursor(t, elm, Null))

\* RB_REMOVE: the fields of the removed element keep their values.  child takes
\* the place of elm;
Detach(t, elm, child) == Replace(SetParent(t, child, t.parent[elm]), t.parent[elm], elm, child)

\* elm takes the fields of old, the place below its parent, and its children;
Fields(t, old, elm) ==
    [t EXCEPT !.link[elm] = t.link[old], !.parent[elm] = t.parent[old], !.color[elm] = t.color[old]]
Adopt(t, old, elm) ==
    IF t.link[old]["left"] = Null THEN [t EXCEPT !.fault = TRUE]
    ELSE SetParent(SetParent(t, t.link[old]["left"], elm), t.link[old]["right"], elm)
Settle(t, old, elm) == Adopt(Replace(t, t.parent[old], old, elm), old, elm)

\* the colours, if a black element is missing below p;
Balance(t, color, p, child) == IF color = "red" THEN t ELSE RemoveColor(t, p, child)

\* an element with one child at most, and one that its successor replaces.
RemoveOuter(t, old, child) ==
    Balance(Detach(t, old, child), t.color[old], t.parent[old], child)
RemoveInner(t, old, next) ==
    LET elm   == next.at
        child == t.link[elm]["right"]
        p     == t.parent[elm]
    IN  IF next.t.fault THEN next.t
        ELSE Balance(Settle(Fields(Detach(t, elm, child), old, elm), old, elm), t.color[elm],
                     IF p = old THEN elm ELSE p, child)
Remove(t, old) ==
    LET left  == t.link[old]["left"]
        right == t.link[old]["right"]
    IN  IF t.fault THEN t
        ELSE IF left = Null THEN RemoveOuter(t, old, right)
        ELSE IF right = Null THEN RemoveOuter(t, old, left)
        ELSE RemoveInner(t, old, Outermost(t, right, "left"))

\* The descent of RB_INSERT and RB_FIND towards key k.
Descent(t, key, k) ==
    Loop(LAMBDA c : c.at # Null /\ Cmp(k, key[c.at]) # 0,
         LAMBDA c : Cursor(c.t, c.t.link[c.at][Side(key, k, c.at)], c.at),
         Cursor(t, t.root, Null))

\* RB_INSERT with RB_SET: an element whose key is in the tree is not linked.
InsertBelow(c, key, elm) ==
    LET t == [Zeroed(c.t, elm) EXCEPT !.parent[elm] = c.up, !.color[elm] = "red"]
    IN  IF c.t.fault \/ c.at # Null THEN c.t
        ELSE InsertColor(IF c.up = Null THEN [t EXCEPT !.root = elm]
                         ELSE [t EXCEPT !.link[c.up][Side(key, key[elm], c.up)] = elm], elm)
Insert(t, key, elm) == InsertBelow(Descent(t, key, key[elm]), key, elm)

\* RB_FIND: the element with key k, or NULL.  A search that does not end finds
\* nothing.
Found(c) == IF c.t.fault THEN Null ELSE c.at
Find(t, key, k) == Found(Descent(t, key, k))

\* RB_MIN
MinOf(t) == IF t.root = Null THEN Null ELSE Outermost(t, t.root, "left").at

\* RB_NEXT
NextOf(t, elm) ==
    IF t.link[elm]["right"] # Null THEN Outermost(t, t.link[elm]["right"], "left").at
    ELSE Loop(LAMBDA c : c.up # Null /\ c.t.link[c.up]["right"] = c.at,
              LAMBDA c : Cursor(c.t, c.up, c.t.parent[c.up]),
              Cursor(t, elm, t.parent[elm])).up

\* RB_FOREACH: the first element of S in the order of the tree.
FirstOf(t, S) ==
    Loop(LAMBDA c : c.at # Null /\ c.at \notin S,
         LAMBDA c : [c EXCEPT !.at = NextOf(c.t, c.at)], Cursor(t, MinOf(t), Null)).at

-----------------------------------------------------------------------------
(* What insertion and removal promise, stated without them.                *)

\* The elements of R with their children, with their parents.
WithChildren(t, R) == R \cup ({t.link[n][d] : n \in R, d \in Sides} \ {Null})
WithParents(t, R)  == R \cup ({t.parent[n] : n \in R} \ {Null})

\* The elements that can be reached from the root.
Linked(t) ==
    LET s[i \in 0 .. Size] == IF i = 0 THEN {t.root} \ {Null} ELSE WithChildren(t, s[i - 1])
    IN  s[Size]

\* An element and the elements above it.
Above(t, n) ==
    LET s[i \in 0 .. Size] == IF i = 0 THEN {n} ELSE WithParents(t, s[i - 1])
    IN  s[Size]

BlackDepth(t, n) == Cardinality({m \in Above(t, n) : t.color[m] = "black"})

\* A red-black tree: parents and children agree, the root and the children of
\* red elements are black, and every way down passes as many black elements.
RedBlack(t) ==
    /\ \A n \in Linked(t) : \A d \in Sides :
           LET m == t.link[n][d]
           IN  m # Null => /\ t.parent[m] = n
                           /\ t.color[n] = "red" => t.color[m] = "black"
    /\ t.root # Null => t.parent[t.root] = Null /\ t.color[t.root] = "black"
    /\ \A m, n \in Linked(t) :
           (Null \in {t.link[m][d] : d \in Sides} /\ Null \in {t.link[n][d] : d \in Sides})
               => BlackDepth(t, m) = BlackDepth(t, n)

\* A search tree that holds exactly the elements of S.
SearchTree(t, key, S) ==
    /\ Linked(t) = S
    /\ \A n \in S : Find(t, key, key[n]) = n
    /\ \A n \in S : LET m == NextOf(t, n) IN m # Null => Cmp(key[n], key[m]) < 0

\* The difference of Width bits orders the keys of K: none is half of the
\* addresses or more away from the first.
Ordered(K) == \E lo \in K \cup {0} : \A k \in K : (k - lo) % 2^Width < 2^(Width - 1)
=============================================================================
