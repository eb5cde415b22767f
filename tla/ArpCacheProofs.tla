--------------------------- MODULE ArpCacheProofs ---------------------------
(***************************************************************************)
(* Machine-checked proofs about the ARP cache: for caches of any size, any *)
(* addresses and any times.  The first part shows that the operations of   *)
(* the red-black tree keep its links within the array, whatever the tree   *)
(* looks like, and that a search returns an element with the key it was    *)
(* given.                                                                  *)
(***************************************************************************)
EXTENDS ArpCache, FiniteSetTheorems, WellFoundedInduction, TLAPS

-----------------------------------------------------------------------------
(* Induction, and loops as recursive functions of their turns.             *)

NatLess == OpToRel(<, Nat)

\* A set of naturals that is not empty has a least element.
LEMMA LeastNat ==
    ASSUME NEW T \in SUBSET Nat, T # {}
    PROVE  \E x \in T : \A y \in T : x <= y
<1>1. NatLess = {p \in Nat \X Nat : p[1] < p[2]}
  BY Zenon DEF NatLess, OpToRel
<1>2. IsWellFoundedOn(NatLess, Nat)
  BY NatLessThanWellFounded, Zenon DEF NatLess
<1>3. \E x \in T : \A y \in T : <<y, x>> \notin NatLess
  BY <1>2, WFMin, Zenon
<1>4. PICK x \in T : \A y \in T : <<y, x>> \notin NatLess
  BY <1>3
<1>5. \A y \in T : <<y, x>> \in NatLess <=> y < x
  BY <1>1
<1>6. \A y \in T : ~ (y < x)
  BY <1>4, <1>5
<1> QED
  BY <1>6

\* Induction over an initial segment: a set that holds 0 and, with i, also
\* i + 1, holds every number up to n.
LEMMA UpTo ==
    ASSUME NEW n \in Nat, NEW P, 0 \in P,
           \A i \in 0 .. n - 1 : i \in P => i + 1 \in P
    PROVE  0 .. n \subseteq P
<1> DEFINE T == (0 .. n) \ P
<1> SUFFICES ASSUME T # {} PROVE FALSE
  OBVIOUS
<1>0. T \in SUBSET Nat
  OBVIOUS
<1>1. PICK x \in T : \A y \in T : x <= y
  BY <1>0, LeastNat, Zenon
<1>2. x # 0 /\ x - 1 \in 0 .. n - 1 /\ x - 1 \notin T
  BY <1>1
<1>3. x - 1 \in P
  BY <1>2
<1>4. (x - 1) + 1 \in P
  BY <1>2, <1>3
<1> QED
  BY <1>1, <1>4

\* The run of a loop with body F from c, up to turn n.
IsRun(g, S, F, c, n) ==
    /\ g \in [0 .. n -> S]
    /\ g[0] = c
    /\ \A i \in 1 .. n : g[i] = F[g[i - 1]]

\* Every loop whose body stays in a set has a run of any length.
LEMMA RunExists ==
    ASSUME NEW S, NEW F \in [S -> S], NEW c \in S, NEW n \in Nat
    PROVE  \E g : IsRun(g, S, F, c, n)
<1> DEFINE P == {m \in 0 .. n : \E g : IsRun(g, S, F, c, m)}
<1>1. 0 \in P
  <2>1. IsRun([i \in 0 .. 0 |-> c], S, F, c, 0)
    BY DEF IsRun
  <2> QED
    BY <2>1
<1>2. ASSUME NEW m \in 0 .. n - 1, m \in P PROVE m + 1 \in P
  <2>1. PICK g : IsRun(g, S, F, c, m)
    BY <1>2
  <2> DEFINE h == [i \in 0 .. m + 1 |-> IF i = m + 1 THEN F[g[m]] ELSE g[i]]
  <2>2. h \in [0 .. m + 1 -> S] /\ h[0] = c
    BY <2>1 DEF IsRun
  <2>3. ASSUME NEW i \in 1 .. m + 1 PROVE h[i] = F[h[i - 1]]
    BY <2>1, <2>3 DEF IsRun
  <2>4. IsRun(h, S, F, c, m + 1)
    BY <2>2, <2>3 DEF IsRun
  <2> QED
    BY <2>4
<1>3. 0 .. n \subseteq P
  BY <1>1, <1>2, UpTo
<1> QED
  BY <1>3

-----------------------------------------------------------------------------
(* Trees.                                                                  *)

Links  == Nodes \cup {Null}
Colors == {"red", "black"}
Trees ==
    [root : Links, link : [Nodes -> [Sides -> Links]], parent : [Nodes -> Links],
     color : [Nodes -> Colors], fault : BOOLEAN]
Cursors == [t : Trees, at : Links, up : Links]

\* The fields of a tree.
LEMMA TreeFields ==
    ASSUME NEW t \in Trees
    PROVE  /\ t.root \in Links /\ t.link \in [Nodes -> [Sides -> Links]]
           /\ t.parent \in [Nodes -> Links] /\ t.color \in [Nodes -> Colors]
           /\ \A n \in Nodes, d \in Sides : t.link[n][d] \in Links
           /\ \A n \in Nodes : t.parent[n] \in Links /\ t.color[n] \in Colors
  BY DEF Trees

\* Assignments to them.
LEMMA SetRoot ==
    ASSUME NEW t \in Trees, NEW m \in Links
    PROVE  [t EXCEPT !.root = m] \in Trees
  BY DEF Trees

LEMMA SetFault ==
    ASSUME NEW t \in Trees
    PROVE  [t EXCEPT !.fault = TRUE] \in Trees
  BY DEF Trees

LEMMA SetLink ==
    ASSUME NEW t \in Trees, NEW n, NEW d, NEW m \in Links
    PROVE  [t EXCEPT !.link[n][d] = m] \in Trees
  BY DEF Trees

LEMMA SetLinks ==
    ASSUME NEW t \in Trees, NEW n, NEW l \in [Sides -> Links]
    PROVE  [t EXCEPT !.link[n] = l] \in Trees
  BY DEF Trees

LEMMA SetUp ==
    ASSUME NEW t \in Trees, NEW n, NEW m \in Links
    PROVE  [t EXCEPT !.parent[n] = m] \in Trees
  BY DEF Trees

LEMMA SetColor ==
    ASSUME NEW t \in Trees, NEW n, NEW c \in Colors
    PROVE  [t EXCEPT !.color[n] = c] \in Trees
  BY DEF Trees

\* The assignments of the macros.
LEMMA PaintTree ==
    ASSUME NEW t \in Trees, NEW n, NEW c \in Colors
    PROVE  Paint(t, n, c) \in Trees
  BY SetColor DEF Paint

LEMMA SetParentTree ==
    ASSUME NEW t \in Trees, NEW n, NEW p \in Links
    PROVE  SetParent(t, n, p) \in Trees
  BY SetUp DEF SetParent

LEMMA SetBlackRedTree ==
    ASSUME NEW t \in Trees, NEW black, NEW red
    PROVE  SetBlackRed(t, black, red) \in Trees
<1>1. "red" \in Colors /\ "black" \in Colors
  BY DEF Colors
<1> QED
  BY <1>1, PaintTree DEF SetBlackRed

LEMMA ReplaceTree ==
    ASSUME NEW t \in Trees, NEW p, NEW old, NEW new \in Links
    PROVE  Replace(t, p, old, new) \in Trees
  BY SetRoot, SetLink DEF Replace

LEMMA RootBlackTree ==
    ASSUME NEW t \in Trees
    PROVE  RootBlack(t) \in Trees
  BY PaintTree DEF RootBlack, Colors

LEMMA OtherSide ==
    ASSUME NEW d \in Sides
    PROVE  Other(d) \in Sides
  BY DEF Other, Sides

\* A rotation.
LEMMA RotateTree ==
    ASSUME NEW t \in Trees, NEW elm \in Nodes, NEW d \in Sides
    PROVE  Rotate(t, elm, d) \in Trees
<1> DEFINE tmp   == t.link[elm][Other(d)]
           inner == t.link[tmp][d]
           t0    == [t EXCEPT !.link[elm][Other(d)] = inner]
           t1    == SetParent(t0, inner, elm)
           t2    == Raise(t1, elm, tmp)
           t3    == [t2 EXCEPT !.link[tmp][d] = elm]
<1>1. CASE t.fault \/ tmp = Null
  BY <1>1, SetFault DEF Rotate
<1>2. CASE ~(t.fault \/ tmp = Null)
  <2>1. tmp \in Nodes /\ elm \in Links
    BY <1>2, TreeFields, OtherSide DEF Links
  <2>2. tmp \in Links /\ inner \in Links
    BY <2>1, TreeFields DEF Links
  <2>3. Rotate(t, elm, d) = SetParent(t3, elm, tmp)
    BY <1>2 DEF Rotate
  <2> HIDE DEF inner, tmp
  <2>4. t0 \in Trees
    BY <2>2, SetLink
  <2> HIDE DEF t0
  <2>5. t1 \in Trees
    BY <2>1, <2>4, SetParentTree
  <2> HIDE DEF t1
  <2>6. t1.parent[elm] \in Links
    BY <2>5, TreeFields
  <2>7. t2 \in Trees
    BY <2>2, <2>5, <2>6, ReplaceTree, SetParentTree DEF Raise
  <2> HIDE DEF t2
  <2>8. t3 \in Trees
    BY <2>1, <2>7, SetLink
  <2> HIDE DEF t3
  <2> QED
    BY <2>2, <2>3, <2>8, SetParentTree
<1> QED
  BY <1>1, <1>2

\* Cursors.
LEMMA CursorIs ==
    ASSUME NEW t \in Trees, NEW at \in Links, NEW up \in Links
    PROVE  /\ Cursor(t, at, up) \in Cursors
           /\ Cursor(t, at, up).t = t /\ Cursor(t, at, up).at = at /\ Cursor(t, at, up).up = up
  BY DEF Cursor, Cursors

LEMMA FaultyIs ==
    ASSUME NEW c \in Cursors
    PROVE  /\ Faulty(c) \in Cursors /\ Faulty(c).t.fault
           /\ Faulty(c).at = c.at /\ Faulty(c).up = c.up
<1>1. [c.t EXCEPT !.fault = TRUE] \in Trees /\ [c.t EXCEPT !.fault = TRUE].fault
  BY SetFault DEF Cursors, Trees
<1>2. Faulty(c) = [c EXCEPT !.t = [c.t EXCEPT !.fault = TRUE]]
  BY DEF Faulty, Cursors
<1> QED
  BY <1>1, <1>2 DEF Cursors

\* A cursor to which another tree is given.
LEMMA CursorTree ==
    ASSUME NEW c \in Cursors, NEW t \in Trees
    PROVE  /\ [c EXCEPT !.t = t] \in Cursors /\ [c EXCEPT !.t = t].t = t
           /\ [c EXCEPT !.t = t].at = c.at /\ [c EXCEPT !.t = t].up = c.up
  BY DEF Cursors

-----------------------------------------------------------------------------
(* The loops.  Each stays in a set of cursors, for as many turns as it     *)
(* takes.                                                                  *)

AtNode == {c \in Cursors : c.at \in Nodes}

\* A turn of RB_INSERT_COLOR.
LEMMA InsertColorTurn ==
    ASSUME NEW c \in AtNode, InsertColorWhile(c)
    PROVE  InsertColorBody(c) \in AtNode
<1> DEFINE t       == c.t
           parent  == t.parent[c.at]
           gparent == t.parent[parent]
           d       == IF t.link[gparent]["left"] = parent THEN "left" ELSE "right"
           uncle   == t.link[gparent][Other(d)]
           inner   == t.link[parent][Other(d)] = c.at
           t1      == IF inner THEN Rotate(t, parent, d) ELSE t
           t2      == SetBlackRed(Paint(t, uncle, "black"), parent, gparent)
           t3      == SetBlackRed(t1, IF inner THEN c.at ELSE parent, gparent)
           t4      == Rotate(t3, gparent, Other(d))
           at      == IF inner THEN parent ELSE c.at
<1>1. c \in Cursors /\ t \in Trees /\ c.at \in Nodes
  BY DEF AtNode, Cursors
<1>2. parent \in Nodes
  BY <1>1, TreeFields DEF InsertColorWhile, Black, Links
<1>3. gparent \in Links
  BY <1>1, <1>2, TreeFields
<1>4. d \in Sides /\ Other(d) \in Sides
  BY OtherSide DEF Sides
<1>5. "black" \in Colors /\ Null \in Links
  BY DEF Colors, Links
<1>6. CASE gparent = Null
  <2>1. InsertColorBody(c) = Faulty(c)
    BY <1>6 DEF InsertColorBody
  <2> QED
    BY <1>1, <2>1, FaultyIs DEF AtNode
<1>7. CASE gparent # Null /\ ~Black(t, uncle)
  <2>1. InsertColorBody(c) = Cursor(t2, gparent, Null)
    BY <1>7 DEF InsertColorBody
  <2>2. t2 \in Trees
    BY <1>1, <1>5, PaintTree, SetBlackRedTree
  <2>3. gparent \in Nodes
    BY <1>3, <1>7 DEF Links
  <2> HIDE DEF t2, gparent
  <2> QED
    BY <1>3, <1>5, <2>1, <2>2, <2>3, CursorIs DEF AtNode
<1>8. CASE gparent # Null /\ Black(t, uncle)
  <2>1. InsertColorBody(c) = Cursor(t4, at, Null)
    BY <1>8 DEF InsertColorBody
  <2>2. t1 \in Trees
    BY <1>1, <1>2, <1>4, RotateTree
  <2>3. gparent \in Nodes
    BY <1>3, <1>8 DEF Links
  <2> HIDE DEF t1, gparent, d
  <2>4. t3 \in Trees
    BY <2>2, SetBlackRedTree
  <2> HIDE DEF t3
  <2>5. t4 \in Trees
    BY <1>4, <2>3, <2>4, RotateTree
  <2>6. at \in Nodes /\ at \in Links
    BY <1>1, <1>2 DEF Links
  <2> HIDE DEF t4, at
  <2> QED
    BY <1>5, <2>1, <2>5, <2>6, CursorIs DEF AtNode
<1> QED
  BY <1>6, <1>7, <1>8

\* A function that stays in S from turn to turn.
LEMMA LoopStays ==
    ASSUME NEW S, NEW n \in Nat, NEW g, g[0] \in S,
           \A i \in 0 .. n - 1 : g[i] \in S => g[i + 1] \in S
    PROVE  g[n] \in S
<1> DEFINE P == {i \in 0 .. n : g[i] \in S}
<1>1. 0 \in P /\ \A i \in 0 .. n - 1 : i \in P => i + 1 \in P
  OBVIOUS
<1> HIDE DEF P
<1>2. 0 .. n \subseteq P
  BY <1>1, UpTo
<1> QED
  BY <1>2 DEF P

LEMMA SizeType == Size \in Nat
  BY TreeAssumption, FS_CardinalityType DEF Size

InsertColorStep(c) == Turn(InsertColorWhile, InsertColorBody, c)

LEMMA InsertColorLoop ==
    ASSUME NEW c \in AtNode
    PROVE  Loop(InsertColorWhile, InsertColorBody, c) \in AtNode
<1> DEFINE n == Size
           s[i \in 0 .. n] == IF i = 0 THEN c ELSE InsertColorStep(s[i - 1])
           F == [x \in AtNode |-> InsertColorStep(x)]
<1>0. \A x \in AtNode : InsertColorStep(x) \in AtNode
  BY InsertColorTurn DEF InsertColorStep, Turn, Goes
<1>1. F \in [AtNode -> AtNode] /\ \A x \in AtNode : F[x] = InsertColorStep(x)
  BY <1>0
<1>2. Loop(InsertColorWhile, InsertColorBody, c) = Ended(InsertColorWhile, s[n])
  BY DEF Loop, InsertColorStep
<1>3. n \in Nat
  BY SizeType
<1> HIDE DEF F, n
<1>4. \E g : g = [i \in 0 .. n |-> IF i = 0 THEN c ELSE InsertColorStep(g[i - 1])]
  <2>1. PICK g : IsRun(g, AtNode, F, c, n)
    BY <1>1, <1>3, RunExists
  <2>2. ASSUME NEW i \in 0 .. n
        PROVE  g[i] = IF i = 0 THEN c ELSE InsertColorStep(g[i - 1])
    BY <1>1, <1>3, <2>1 DEF IsRun
  <2>3. g = [i \in 0 .. n |-> IF i = 0 THEN c ELSE InsertColorStep(g[i - 1])]
    BY <2>1, <2>2 DEF IsRun
  <2> QED
    BY <2>3
<1>5. s = [i \in 0 .. n |-> IF i = 0 THEN c ELSE InsertColorStep(s[i - 1])]
  BY <1>4
<1> HIDE DEF s
<1>6. s[0] = c /\ \A i \in 0 .. n - 1 : s[i + 1] = InsertColorStep(s[i])
  BY <1>3, <1>5
<1>7. s[n] \in AtNode
  BY <1>0, <1>3, <1>6, LoopStays
<1> QED
  BY <1>2, <1>7, FaultyIs DEF Ended, AtNode

\* RB_INSERT_COLOR
LEMMA InsertColorTree ==
    ASSUME NEW t \in Trees, NEW elm \in Nodes
    PROVE  InsertColor(t, elm) \in Trees
<1> DEFINE c == Cursor(t, elm, Null)
           l == Loop(InsertColorWhile, InsertColorBody, c)
<1>1. c \in AtNode
  BY CursorIs DEF AtNode, Links
<1> HIDE DEF c
<1>2. l \in AtNode
  BY <1>1, InsertColorLoop
<1>3. InsertColor(t, elm) = RootBlack(l.t)
  BY DEF InsertColor, c
<1> HIDE DEF l
<1> QED
  BY <1>2, <1>3, RootBlackTree DEF AtNode, Cursors

\* The last rotation of RB_REMOVE_COLOR.
LEMMA RemoveColorLastKeeps ==
    ASSUME NEW c \in Cursors, c.up \in Nodes, NEW d \in Sides
    PROVE  RemoveColorLast(c, d) \in Cursors
<1> DEFINE tmp == c.t.link[c.up][Other(d)]
           far == c.t.link[tmp][Other(d)]
           t1  == Paint(c.t, tmp, c.t.color[c.up])
           t2  == Paint(t1, c.up, "black")
           t3  == Paint(t2, far, "black")
           t4  == Rotate(t3, c.up, d)
<1>1. CASE c.t.fault \/ tmp = Null
  <2>1. RemoveColorLast(c, d) = Faulty(c)
    BY <1>1 DEF RemoveColorLast
  <2> QED
    BY <2>1, FaultyIs
<1>2. CASE ~(c.t.fault \/ tmp = Null)
  <2>1. RemoveColorLast(c, d) = AtRoot(t4)
    BY <1>2 DEF RemoveColorLast
  <2>2. c.t \in Trees /\ "black" \in Colors
    BY DEF Cursors, Colors
  <2>3. c.t.color[c.up] \in Colors
    BY <2>2, TreeFields
  <2>4. t1 \in Trees
    BY <2>2, <2>3, PaintTree
  <2> HIDE DEF t1
  <2>5. t2 \in Trees
    BY <2>2, <2>4, PaintTree
  <2> HIDE DEF t2
  <2>6. t3 \in Trees
    BY <2>2, <2>5, PaintTree
  <2> HIDE DEF t3
  <2>7. t4 \in Trees
    BY <2>6, RotateTree
  <2> HIDE DEF t4
  <2>8. t4.root \in Links /\ Null \in Links
    BY <2>7, TreeFields DEF Links
  <2> QED
    BY <2>1, <2>7, <2>8, CursorIs DEF AtRoot
<1> QED
  BY <1>1, <1>2

\* A black sibling.
LEMMA RemoveColorSiblingKeeps ==
    ASSUME NEW c \in Cursors, c.up \in Nodes, NEW d \in Sides
    PROVE  RemoveColorSibling(c, d) \in Cursors
<1> DEFINE tmp  == c.t.link[c.up][Other(d)]
           near == c.t.link[tmp][d]
           far  == c.t.link[tmp][Other(d)]
           t1   == Paint(c.t, tmp, "red")
           t2   == Rotate(SetBlackRed(c.t, near, tmp), tmp, Other(d))
           c1   == [c EXCEPT !.t = Rotate(SetBlackRed(@, near, tmp), tmp, Other(d))]
           c2   == IF Black(c.t, far) THEN c1 ELSE c
<1>0. c.t \in Trees /\ Other(d) \in Sides /\ "red" \in Colors
  BY OtherSide DEF Cursors, Colors
<1>1. CASE c.t.fault \/ tmp = Null
  <2>1. RemoveColorSibling(c, d) = Faulty(c)
    BY <1>1 DEF RemoveColorSibling
  <2> QED
    BY <2>1, FaultyIs
<1>2. CASE ~(c.t.fault \/ tmp = Null) /\ Black(c.t, near) /\ Black(c.t, far)
  <2>1. RemoveColorSibling(c, d) = Cursor(t1, c.up, c.t.parent[c.up])
    BY <1>2 DEF RemoveColorSibling
  <2>2. t1 \in Trees /\ c.t.parent[c.up] \in Links /\ c.up \in Links
    BY <1>0, PaintTree, TreeFields DEF Links
  <2> HIDE DEF t1
  <2> QED
    BY <2>1, <2>2, CursorIs
<1>3. CASE ~(c.t.fault \/ tmp = Null) /\ ~(Black(c.t, near) /\ Black(c.t, far))
  <2>1. RemoveColorSibling(c, d) = RemoveColorLast(c2, d)
    BY <1>3 DEF RemoveColorSibling
  <2>2. tmp \in Nodes
    BY <1>0, <1>3, TreeFields DEF Links
  <2>3. t2 \in Trees
    BY <1>0, <2>2, SetBlackRedTree, RotateTree
  <2>4. c1 = [c EXCEPT !.t = t2]
    BY DEF Cursors
  <2> HIDE DEF t2, c1
  <2>5. c2 \in Cursors /\ c2.up \in Nodes
    BY <2>3, <2>4, CursorTree
  <2> HIDE DEF c2
  <2> QED
    BY <2>1, <2>5, RemoveColorLastKeeps
<1> QED
  BY <1>1, <1>2, <1>3

\* A turn of RB_REMOVE_COLOR.
LEMMA RemoveColorTurn ==
    ASSUME NEW c \in Cursors
    PROVE  RemoveColorBody(c) \in Cursors
<1> DEFINE d   == IF c.t.link[c.up]["left"] = c.at THEN "left" ELSE "right"
           tmp == c.t.link[c.up][Other(d)]
           t1  == Rotate(SetBlackRed(c.t, tmp, c.up), c.up, d)
           c1  == [c EXCEPT !.t = Rotate(SetBlackRed(@, tmp, c.up), c.up, d)]
           c2  == IF Black(c.t, tmp) THEN c ELSE c1
<1>1. CASE c.up = Null \/ tmp = Null
  <2>1. RemoveColorBody(c) = Faulty(c)
    BY <1>1 DEF RemoveColorBody
  <2> QED
    BY <2>1, FaultyIs
<1>2. CASE ~(c.up = Null \/ tmp = Null)
  <2>1. RemoveColorBody(c) = RemoveColorSibling(c2, d)
    BY <1>2 DEF RemoveColorBody
  <2>2. c.t \in Trees /\ c.up \in Nodes /\ d \in Sides
    BY <1>2 DEF Cursors, Links, Sides
  <2>3. t1 \in Trees
    BY <2>2, SetBlackRedTree, RotateTree
  <2>4. c1 = [c EXCEPT !.t = t1]
    BY DEF Cursors
  <2> HIDE DEF t1, c1
  <2>5. c2 \in Cursors /\ c2.up \in Nodes
    BY <2>2, <2>3, <2>4, CursorTree
  <2> HIDE DEF c2, d
  <2> QED
    BY <2>1, <2>2, <2>5, RemoveColorSiblingKeeps
<1> QED
  BY <1>1, <1>2

RemoveColorStep(c) == Turn(RemoveColorWhile, RemoveColorBody, c)

LEMMA RemoveColorLoop ==
    ASSUME NEW c \in Cursors
    PROVE  Loop(RemoveColorWhile, RemoveColorBody, c) \in Cursors
<1> DEFINE n == Size
           s[i \in 0 .. n] == IF i = 0 THEN c ELSE RemoveColorStep(s[i - 1])
           F == [x \in Cursors |-> RemoveColorStep(x)]
<1>0. \A x \in Cursors : RemoveColorStep(x) \in Cursors
  BY RemoveColorTurn DEF RemoveColorStep, Turn, Goes
<1>1. F \in [Cursors -> Cursors] /\ \A x \in Cursors : F[x] = RemoveColorStep(x)
  BY <1>0
<1>2. Loop(RemoveColorWhile, RemoveColorBody, c) = Ended(RemoveColorWhile, s[n])
  BY DEF Loop, RemoveColorStep
<1>3. n \in Nat
  BY SizeType
<1> HIDE DEF F, n
<1>4. \E g : g = [i \in 0 .. n |-> IF i = 0 THEN c ELSE RemoveColorStep(g[i - 1])]
  <2>1. PICK g : IsRun(g, Cursors, F, c, n)
    BY <1>1, <1>3, RunExists
  <2>2. ASSUME NEW i \in 0 .. n
        PROVE  g[i] = IF i = 0 THEN c ELSE RemoveColorStep(g[i - 1])
    BY <1>1, <1>3, <2>1 DEF IsRun
  <2>3. g = [i \in 0 .. n |-> IF i = 0 THEN c ELSE RemoveColorStep(g[i - 1])]
    BY <2>1, <2>2 DEF IsRun
  <2> QED
    BY <2>3
<1>5. s = [i \in 0 .. n |-> IF i = 0 THEN c ELSE RemoveColorStep(s[i - 1])]
  BY <1>4
<1> HIDE DEF s
<1>6. s[0] = c /\ \A i \in 0 .. n - 1 : s[i + 1] = RemoveColorStep(s[i])
  BY <1>3, <1>5
<1>7. s[n] \in Cursors
  BY <1>0, <1>3, <1>6, LoopStays
<1> QED
  BY <1>2, <1>7, FaultyIs DEF Ended

\* RB_REMOVE_COLOR
LEMMA RemoveColorTree ==
    ASSUME NEW t \in Trees, NEW parent \in Links, NEW elm \in Links
    PROVE  RemoveColor(t, parent, elm) \in Trees
<1> DEFINE c == Cursor(t, elm, parent)
           l == Loop(RemoveColorWhile, RemoveColorBody, c)
<1>1. c \in Cursors
  BY CursorIs
<1> HIDE DEF c
<1>2. l \in Cursors
  BY <1>1, RemoveColorLoop
<1>3. RemoveColor(t, parent, elm) = CursorBlack(l)
  BY DEF RemoveColor, c
<1> HIDE DEF l
<1> QED
  BY <1>2, <1>3, PaintTree DEF CursorBlack, Cursors, Colors

\* The way to the outermost element.
OutermostGoes(d, c) == ~c.t.fault /\ c.t.link[c.at][d] # Null
OutermostStep(d, c) == IF OutermostGoes(d, c) THEN [c EXCEPT !.at = c.t.link[c.at][d]] ELSE c
OutermostEnd(d, c)  == IF OutermostGoes(d, c) THEN Faulty(c) ELSE c

LEMMA OutermostTurn ==
    ASSUME NEW d \in Sides, NEW c \in AtNode
    PROVE  OutermostStep(d, c) \in AtNode
<1>1. CASE OutermostGoes(d, c)
  <2> DEFINE m == c.t.link[c.at][d]
  <2>1. m \in Nodes
    BY <1>1, TreeFields DEF OutermostGoes, AtNode, Cursors, Links
  <2>2. OutermostStep(d, c) = [c EXCEPT !.at = m]
    BY <1>1 DEF OutermostStep
  <2> HIDE DEF m
  <2> QED
    BY <2>1, <2>2 DEF AtNode, Cursors, Links
<1> QED
  BY <1>1 DEF OutermostStep

LEMMA OutermostLoop ==
    ASSUME NEW t \in Trees, NEW elm \in Nodes, NEW d \in Sides
    PROVE  Outermost(t, elm, d) \in AtNode
<1> DEFINE c == Cursor(t, elm, Null)
<1>a. c \in AtNode
  BY CursorIs DEF AtNode, Links
<1> DEFINE n == Size
           s[i \in 0 .. n] == IF i = 0 THEN c ELSE OutermostStep(d, s[i - 1])
           F == [x \in AtNode |-> OutermostStep(d, x)]
<1>0. \A x \in AtNode : OutermostStep(d, x) \in AtNode
  BY OutermostTurn
<1>1. F \in [AtNode -> AtNode] /\ \A x \in AtNode : F[x] = OutermostStep(d, x)
  BY <1>0
<1>2. Outermost(t, elm, d) = OutermostEnd(d, s[n])
  BY DEF Outermost, Loop, Turn, Goes, Ended, OutermostStep, OutermostEnd, OutermostGoes
<1>3. n \in Nat
  BY SizeType
<1> HIDE DEF F, n, c
<1>4. \E g : g = [i \in 0 .. n |-> IF i = 0 THEN c ELSE OutermostStep(d, g[i - 1])]
  <2>1. PICK g : IsRun(g, AtNode, F, c, n)
    BY <1>a, <1>1, <1>3, RunExists
  <2>2. ASSUME NEW i \in 0 .. n
        PROVE  g[i] = IF i = 0 THEN c ELSE OutermostStep(d, g[i - 1])
    BY <1>1, <1>3, <2>1 DEF IsRun
  <2>3. g = [i \in 0 .. n |-> IF i = 0 THEN c ELSE OutermostStep(d, g[i - 1])]
    BY <2>1, <2>2 DEF IsRun
  <2> QED
    BY <2>3
<1>5. s = [i \in 0 .. n |-> IF i = 0 THEN c ELSE OutermostStep(d, s[i - 1])]
  BY <1>4
<1> HIDE DEF s
<1>6. s[0] = c /\ \A i \in 0 .. n - 1 : s[i + 1] = OutermostStep(d, s[i])
  BY <1>3, <1>5
<1>7. s[n] \in AtNode
  BY <1>a, <1>0, <1>3, <1>6, LoopStays
<1> QED
  BY <1>2, <1>7, FaultyIs DEF OutermostEnd, AtNode

\* The way down to a key.
DescentGoes(key, k, c) == ~c.t.fault /\ (c.at # Null /\ Cmp(k, key[c.at]) # 0)
DescentStep(key, k, c) ==
    IF DescentGoes(key, k, c) THEN Cursor(c.t, c.t.link[c.at][Side(key, k, c.at)], c.at) ELSE c
DescentEnd(key, k, c)  == IF DescentGoes(key, k, c) THEN Faulty(c) ELSE c

LEMMA DescentTurn ==
    ASSUME NEW key, NEW k, NEW c \in Cursors
    PROVE  DescentStep(key, k, c) \in Cursors
<1>1. CASE DescentGoes(key, k, c)
  <2> DEFINE m == c.t.link[c.at][Side(key, k, c.at)]
  <2>1. c.t \in Trees /\ c.at \in Nodes /\ Side(key, k, c.at) \in Sides /\ c.at \in Links
    BY <1>1 DEF DescentGoes, Cursors, Links, Side, Sides
  <2>2. m \in Links
    BY <2>1, TreeFields
  <2>3. DescentStep(key, k, c) = Cursor(c.t, m, c.at)
    BY <1>1 DEF DescentStep
  <2> HIDE DEF m
  <2> QED
    BY <2>1, <2>2, <2>3, CursorIs
<1> QED
  BY <1>1 DEF DescentStep

LEMMA DescentLoop ==
    ASSUME NEW t \in Trees, NEW key, NEW k
    PROVE  \E e \in Cursors : Descent(t, key, k) = DescentEnd(key, k, e)
<1> DEFINE c == Cursor(t, t.root, Null)
<1>a. c \in Cursors
  BY CursorIs, TreeFields DEF Links
<1> DEFINE n == Size
           s[i \in 0 .. n] == IF i = 0 THEN c ELSE DescentStep(key, k, s[i - 1])
           F == [x \in Cursors |-> DescentStep(key, k, x)]
<1>0. \A x \in Cursors : DescentStep(key, k, x) \in Cursors
  BY DescentTurn
<1>1. F \in [Cursors -> Cursors] /\ \A x \in Cursors : F[x] = DescentStep(key, k, x)
  BY <1>0
<1>2. Descent(t, key, k) = DescentEnd(key, k, s[n])
  BY DEF Descent, Loop, Turn, Goes, Ended, DescentStep, DescentEnd, DescentGoes
<1>3. n \in Nat
  BY SizeType
<1> HIDE DEF F, n, c
<1>4. \E g : g = [i \in 0 .. n |-> IF i = 0 THEN c ELSE DescentStep(key, k, g[i - 1])]
  <2>1. PICK g : IsRun(g, Cursors, F, c, n)
    BY <1>a, <1>1, <1>3, RunExists
  <2>2. ASSUME NEW i \in 0 .. n
        PROVE  g[i] = IF i = 0 THEN c ELSE DescentStep(key, k, g[i - 1])
    BY <1>1, <1>3, <2>1 DEF IsRun
  <2>3. g = [i \in 0 .. n |-> IF i = 0 THEN c ELSE DescentStep(key, k, g[i - 1])]
    BY <2>1, <2>2 DEF IsRun
  <2> QED
    BY <2>3
<1>5. s = [i \in 0 .. n |-> IF i = 0 THEN c ELSE DescentStep(key, k, s[i - 1])]
  BY <1>4
<1> HIDE DEF s
<1>6. s[0] = c /\ \A i \in 0 .. n - 1 : s[i + 1] = DescentStep(key, k, s[i])
  BY <1>3, <1>5
<1>7. s[n] \in Cursors
  BY <1>a, <1>0, <1>3, <1>6, LoopStays
<1> QED
  BY <1>2, <1>7

\* What a descent leaves.
LEMMA DescentIs ==
    ASSUME NEW t \in Trees, NEW key, NEW k
    PROVE  /\ Descent(t, key, k) \in Cursors
           /\ ~Descent(t, key, k).t.fault /\ Descent(t, key, k).at # Null
                  => Cmp(k, key[Descent(t, key, k).at]) = 0
<1>1. PICK e \in Cursors : Descent(t, key, k) = DescentEnd(key, k, e)
  BY DescentLoop
<1> QED
  BY <1>1, FaultyIs DEF DescentEnd, DescentGoes

-----------------------------------------------------------------------------
(* The operations of the tree.                                             *)

LEMMA EmptyIsTree == EmptyTree \in Trees
  BY DEF EmptyTree, Trees, Links, Colors

LEMMA ZeroedTree ==
    ASSUME NEW t \in Trees, NEW n \in Nodes
    PROVE  Zeroed(t, n) \in Trees
<1> DEFINE l  == [d \in Sides |-> Null]
           t1 == [t EXCEPT !.link[n] = l]
           t2 == [t1 EXCEPT !.parent[n] = Null]
           t3 == [t2 EXCEPT !.color[n] = "black"]
<1>1. l \in [Sides -> Links] /\ Null \in Links /\ "black" \in Colors
  BY DEF Links, Colors
<1>2. Zeroed(t, n) = t3
  BY DEF Zeroed
<1> HIDE DEF l
<1>3. t1 \in Trees
  BY <1>1, SetLinks
<1> HIDE DEF t1
<1>4. t2 \in Trees
  BY <1>1, <1>3, SetUp
<1> HIDE DEF t2
<1>5. t3 \in Trees
  BY <1>1, <1>4, SetColor
<1> HIDE DEF t3
<1> QED
  BY <1>2, <1>5

\* RB_INSERT
LEMMA InsertTree ==
    ASSUME NEW t \in Trees, NEW key, NEW elm \in Nodes
    PROVE  Insert(t, key, elm) \in Trees
<1> DEFINE c  == Descent(t, key, key[elm])
           z  == Zeroed(c.t, elm)
           t1 == [z EXCEPT !.parent[elm] = c.up]
           t2 == [t1 EXCEPT !.color[elm] = "red"]
           t3 == IF c.up = Null THEN [t2 EXCEPT !.root = elm]
                 ELSE [t2 EXCEPT !.link[c.up][Side(key, key[elm], c.up)] = elm]
<1>1. c \in Cursors
  BY DescentIs
<1>2. Insert(t, key, elm) = IF c.t.fault \/ c.at # Null THEN c.t ELSE InsertColor(t3, elm)
  BY DEF Insert, InsertBelow
<1> HIDE DEF c
<1>3. c.t \in Trees /\ c.up \in Links /\ "red" \in Colors /\ elm \in Links
  BY <1>1 DEF Cursors, Colors, Links
<1>4. z \in Trees
  BY <1>3, ZeroedTree
<1> HIDE DEF z
<1>5. t1 \in Trees
  BY <1>3, <1>4, SetUp
<1> HIDE DEF t1
<1>6. t2 \in Trees
  BY <1>3, <1>5, SetColor
<1> HIDE DEF t2
<1>7. t3 \in Trees
  BY <1>3, <1>6, SetRoot, SetLink
<1> HIDE DEF t3
<1>8. InsertColor(t3, elm) \in Trees
  BY <1>7, InsertColorTree
<1> QED
  BY <1>2, <1>3, <1>8

LEMMA DetachTree ==
    ASSUME NEW t \in Trees, NEW elm \in Nodes, NEW child \in Links
    PROVE  Detach(t, elm, child) \in Trees
  BY TreeFields, SetParentTree, ReplaceTree DEF Detach

LEMMA BalanceTree ==
    ASSUME NEW t \in Trees, NEW color, NEW p \in Links, NEW child \in Links
    PROVE  Balance(t, color, p, child) \in Trees
  BY RemoveColorTree DEF Balance

LEMMA FieldsTree ==
    ASSUME NEW t \in Trees, NEW old \in Nodes, NEW elm \in Nodes
    PROVE  Fields(t, old, elm) \in Trees
<1> DEFINE t1 == [t EXCEPT !.link[elm] = t.link[old]]
           t2 == [t1 EXCEPT !.parent[elm] = t.parent[old]]
           t3 == [t2 EXCEPT !.color[elm] = t.color[old]]
<1>1. /\ t.link[old] \in [Sides -> Links] /\ t.parent[old] \in Links
      /\ t.color[old] \in Colors
  BY TreeFields
<1>2. Fields(t, old, elm) = t3
  BY DEF Fields
<1>3. t1 \in Trees
  BY <1>1, SetLinks
<1> HIDE DEF t1
<1>4. t2 \in Trees
  BY <1>1, <1>3, SetUp
<1> HIDE DEF t2
<1>5. t3 \in Trees
  BY <1>1, <1>4, SetColor
<1> HIDE DEF t3
<1> QED
  BY <1>2, <1>5

LEMMA AdoptTree ==
    ASSUME NEW t \in Trees, NEW old \in Nodes, NEW elm \in Nodes
    PROVE  Adopt(t, old, elm) \in Trees
  BY SetFault, SetParentTree DEF Adopt, Links

LEMMA SettleTree ==
    ASSUME NEW t \in Trees, NEW old \in Nodes, NEW elm \in Nodes
    PROVE  Settle(t, old, elm) \in Trees
  BY AdoptTree, ReplaceTree DEF Settle, Links

LEMMA RemoveOuterTree ==
    ASSUME NEW t \in Trees, NEW old \in Nodes, NEW child \in Links
    PROVE  RemoveOuter(t, old, child) \in Trees
  BY TreeFields, DetachTree, BalanceTree DEF RemoveOuter

LEMMA RemoveInnerTree ==
    ASSUME NEW t \in Trees, NEW old \in Nodes, NEW next \in AtNode
    PROVE  RemoveInner(t, old, next) \in Trees
<1> DEFINE elm   == next.at
           child == t.link[elm]["right"]
           p     == t.parent[elm]
           up    == IF p = old THEN elm ELSE p
           t1    == Detach(t, elm, child)
           t2    == Fields(t1, old, elm)
           t3    == Settle(t2, old, elm)
<1>1. next.t \in Trees /\ elm \in Nodes
  BY DEF AtNode, Cursors
<1>2. child \in Links /\ up \in Links
  BY <1>1, TreeFields DEF Links, Sides
<1>3. RemoveInner(t, old, next) = IF next.t.fault THEN next.t
                                  ELSE Balance(t3, t.color[elm], up, child)
  BY DEF RemoveInner
<1> HIDE DEF elm, child, up
<1>4. t1 \in Trees
  BY <1>1, <1>2, DetachTree
<1> HIDE DEF t1
<1>5. t2 \in Trees
  BY <1>1, <1>4, FieldsTree
<1> HIDE DEF t2
<1>6. t3 \in Trees
  BY <1>1, <1>5, SettleTree
<1> HIDE DEF t3
<1> QED
  BY <1>1, <1>2, <1>3, <1>6, BalanceTree

\* RB_REMOVE
LEMMA RemoveTree ==
    ASSUME NEW t \in Trees, NEW old \in Nodes
    PROVE  Remove(t, old) \in Trees
<1> DEFINE left  == t.link[old]["left"]
           right == t.link[old]["right"]
<1>1. left \in Links /\ right \in Links /\ "left" \in Sides
  BY TreeFields DEF Sides
<1>2. Remove(t, old) = IF t.fault THEN t
                       ELSE IF left = Null THEN RemoveOuter(t, old, right)
                       ELSE IF right = Null THEN RemoveOuter(t, old, left)
                       ELSE RemoveInner(t, old, Outermost(t, right, "left"))
  BY DEF Remove
<1> HIDE DEF left, right
<1>3. RemoveOuter(t, old, right) \in Trees /\ RemoveOuter(t, old, left) \in Trees
  BY <1>1, RemoveOuterTree
<1>4. right # Null => RemoveInner(t, old, Outermost(t, right, "left")) \in Trees
  BY <1>1, OutermostLoop, RemoveInnerTree DEF Links
<1> QED
  BY <1>2, <1>3, <1>4

\* Addresses whose difference is zero are the same.
LEMMA CmpZero ==
    ASSUME NEW a \in Addresses, NEW b \in Addresses, Cmp(a, b) = 0
    PROVE  a = b
<1> DEFINE m == 2^Width
           h == 2^(Width - 1)
           diff == (a - b) % m
<1>1. m \in Nat \ {0} /\ a \in 0 .. m - 1 /\ b \in 0 .. m - 1
  BY TreeAssumption DEF Addresses
<1>2. Cmp(a, b) = IF diff < h THEN diff ELSE diff - m
  BY DEF Cmp
<1> HIDE DEF m, h
<1>3. diff \in 0 .. m - 1
  BY <1>1
<1>4. diff = 0
  BY <1>1, <1>2, <1>3
<1> QED
  BY <1>1, <1>4

\* RB_FIND returns an element of the array that has the key, or none.
LEMMA FindIs ==
    ASSUME NEW t \in Trees, NEW key \in [Nodes -> Addresses], NEW k \in Addresses
    PROVE  /\ Find(t, key, k) \in Links
           /\ Find(t, key, k) # Null => key[Find(t, key, k)] = k
<1> DEFINE c == Descent(t, key, k)
<1>1. c \in Cursors /\ (~c.t.fault /\ c.at # Null => Cmp(k, key[c.at]) = 0)
  BY DescentIs
<1>2. Find(t, key, k) = IF c.t.fault THEN Null ELSE c.at
  BY DEF Find, Found
<1> HIDE DEF c
<1>3. c.at \in Links /\ (c.at # Null => key[c.at] \in Addresses)
  BY <1>1 DEF Cursors, Links
<1> QED
  BY <1>1, <1>2, <1>3, CmpZero DEF Links

-----------------------------------------------------------------------------
(* The cache.                                                              *)

\* The times that pass are bounded.
LEMMA LongestType ==
    /\ MaxDelta \in Nat \ {0} /\ \A c \in Deltas : c \in Nat /\ c <= MaxDelta
    /\ Longest = AgeMax + MaxDelta /\ Longest \in Nat /\ Forgotten \in Nat
<1>1. MaxDelta \in Deltas /\ \A c \in Deltas : c <= MaxDelta
  BY ArpAssumption DEF MaxDelta
<1> QED
  BY <1>1, ArpAssumption DEF Longest, Forgotten

\* Hosts have addresses, and zero is none of them.
LEMMA HostType ==
    /\ \A a \in Hosts : a \in Addresses /\ a # 0
    /\ Hosts \cup {0} \subseteq Addresses
<1>1. 0 \in Addresses
  BY TreeAssumption DEF Addresses
<1> QED
  BY <1>1, ArpAssumption

\* Sets of slots have a first, a last and a youngest element.
LEMMA FirstSlot ==
    ASSUME NEW T \in SUBSET Nodes, T # {}
    PROVE  \E s \in T : \A r \in T : s <= r
<1>1. T \in SUBSET Nat
  BY ArpAssumption, SizeType
<1> QED
  BY <1>1, LeastNat, Zenon

LEMMA LastSlot ==
    ASSUME NEW T \in SUBSET Nodes, T # {}
    PROVE  \E s \in T : \A r \in T : r <= s
<1> DEFINE n == Size
           U == {n - s : s \in T}
<1>1. n \in Nat /\ \A s \in T : s \in 1 .. n
  BY ArpAssumption, SizeType
<1> HIDE DEF n
<1>2. U \in SUBSET Nat /\ U # {}
  BY <1>1
<1>3. \E x \in U : \A y \in U : x <= y
  BY <1>2, LeastNat, Zenon
<1>4. PICK x \in U : \A y \in U : x <= y
  BY <1>3
<1>5. PICK s \in T : x = n - s
  BY <1>4
<1>6. ASSUME NEW r \in T PROVE r <= s
  <2>1. n - r \in U
    OBVIOUS
  <2> HIDE DEF U
  <2> QED
    BY <1>1, <1>4, <1>5, <2>1
<1> QED
  BY <1>6

LEMMA YoungestSlot ==
    ASSUME NEW T \in SUBSET Nodes, T # {}, NEW g \in [Nodes -> FREE .. Longest]
    PROVE  \E s \in T : \A r \in T : g[s] < g[r] \/ (g[s] = g[r] /\ s <= r)
<1> DEFINE U == {g[s] + 2 : s \in T}
<1>0. \A s \in T : g[s] \in Int /\ g[s] + 2 \in Nat /\ s \in Nat
  BY ArpAssumption, SizeType, LongestType DEF FREE
<1>1. U \in SUBSET Nat /\ U # {}
  BY <1>0
<1>2. \E x \in U : \A y \in U : x <= y
  BY <1>1, LeastNat, Zenon
<1>3. PICK x \in U : \A y \in U : x <= y
  BY <1>2
<1> DEFINE V == {s \in T : g[s] + 2 = x}
<1>4. V \in SUBSET Nodes /\ V # {}
  BY <1>3
<1>5. PICK s \in V : \A r \in V : s <= r
  BY <1>4, FirstSlot, Zenon
<1>6. ASSUME NEW r \in T PROVE g[s] < g[r] \/ (g[s] = g[r] /\ s <= r)
  <2>1. g[r] + 2 \in U
    OBVIOUS
  <2>2. x <= g[r] + 2 /\ g[s] + 2 = x /\ s \in T
    BY <1>3, <1>5, <2>1
  <2>3. g[r] + 2 = x => s <= r
    BY <1>5
  <2> QED
    BY <1>0, <2>2, <2>3
<1> QED
  BY <1>5, <1>6

Learnings == [Hosts -> [mac : Macs \cup {NoMac}, ago : Nat]]

\* A slot that has an age, and that no insertion is at, holds what was learned
\* last for its address, and is at least as old as that.
Fresh ==
    \A s \in Nodes : s # ing.slot /\ ip_addr[s] \in Hosts /\ age[s] >= 0 =>
        /\ first[s] = learned[ip_addr[s]].mac /\ last[s] = learned[ip_addr[s]].mac
        /\ learned[ip_addr[s]].ago <= age[s]

\* An insertion is at the only slot that may have its address, and the fields
\* that it has stored are there.
InsertType ==
    /\ ing \in [slot : Links, addr : Hosts \cup {0}, mac : Macs \cup {NoMac},
                todo : SUBSET SlotFields]
    /\ ing.slot = Null => ing = NoInsert
InsertOk ==
    ing.slot # Null =>
        /\ ing.addr \in Hosts /\ ing.mac \in Macs
        /\ learned[ing.addr].mac = ing.mac /\ learned[ing.addr].ago = 0
        /\ \A r \in Nodes : r # ing.slot => ip_addr[r] # ing.addr
        /\ "ip_addr" \notin ing.todo => ip_addr[ing.slot] = ing.addr
        /\ "first" \notin ing.todo => first[ing.slot] = ing.mac
        /\ "last" \notin ing.todo => last[ing.slot] = ing.mac
        /\ "age" \notin ing.todo => age[ing.slot] = 0

\* A lookup notices an insertion at its slot.  If there was none, the slot has
\* the address; once its age was tested, it has the latest hardware address.
Counters == {"idle", "search", "found", "copy", "return"}
LookupType ==
    /\ lookup \in [pc : Counters, addr : Hosts \cup {0}, slot : Links,
                   part : Macs \cup {NoMac}, met : SUBSET Nodes]
    /\ lookup.pc = "idle" => lookup = NoLookup
    /\ lookup.pc # "idle" => lookup.addr \in Hosts
    /\ lookup.pc \in {"copy", "return"} => lookup.slot \in Nodes
Notices ==
    /\ ing.slot # Null /\ lookup.pc = "search" => ing.slot \in lookup.met
    /\ ing.slot # Null /\ lookup.pc # "idle" /\ lookup.slot = ing.slot => ing.slot \in lookup.met
LookupOk ==
    lookup.pc \in {"found", "copy", "return"} /\ lookup.slot # Null /\ lookup.slot \notin lookup.met =>
        /\ ip_addr[lookup.slot] = lookup.addr
        /\ lookup.pc # "found" => /\ first[lookup.slot] = learned[lookup.addr].mac
                                 /\ last[lookup.slot] = learned[lookup.addr].mac
        /\ lookup.pc = "return" => lookup.part = learned[lookup.addr].mac

\* The inductive invariant.
CacheInv ==
    /\ TypeOK
    /\ tree \in Trees
    /\ OneSlotPerAddress
    /\ learned \in Learnings
    /\ Fresh
    /\ InsertType /\ InsertOk
    /\ LookupType /\ Notices /\ LookupOk

\* The slot for an address: the one that has it, if there is one.
LEMMA SlotForIs ==
    ASSUME TypeOK, OneSlotPerAddress, NEW a \in Hosts
    PROVE  /\ SlotFor(a) \in Links
           /\ \A r \in Nodes : ip_addr[r] = a => SlotFor(a) = r
<1> DEFINE same == {s \in Nodes : ip_addr[s] = a}
           free == {s \in Nodes : age[s] = FREE}
           from == {s \in Nodes : \E r \in 1..s : age[r] >= 0}
           lowest   == CHOOSE s \in same : \A r \in same : s <= r
           highest  == CHOOSE s \in free : \A r \in free : r <= s
           youngest == CHOOSE s \in from : \A r \in from :
                           age[s] < age[r] \/ (age[s] = age[r] /\ s <= r)
<1>1. SlotFor(a) = IF same # {} THEN lowest ELSE IF free # {} THEN highest
                   ELSE IF from = {} THEN Null ELSE youngest
  BY DEF SlotFor
<1>2. same # {} => lowest \in same
  <2>1. same \in SUBSET Nodes
    OBVIOUS
  <2> HIDE DEF same
  <2> QED
    BY <2>1, FirstSlot
<1>3. free # {} => highest \in Nodes
  <2>1. free \in SUBSET Nodes
    OBVIOUS
  <2> HIDE DEF free
  <2> QED
    BY <2>1, LastSlot
<1>4. from # {} => youngest \in Nodes
  <2>1. from \in SUBSET Nodes /\ age \in [Nodes -> FREE .. Longest]
    BY DEF TypeOK
  <2> HIDE DEF from
  <2> QED
    BY <2>1, YoungestSlot
<1> HIDE DEF lowest, highest, youngest
<1>5. SlotFor(a) \in Links
  BY <1>1, <1>2, <1>3, <1>4 DEF Links
<1>6. ASSUME NEW r \in Nodes, ip_addr[r] = a PROVE SlotFor(a) = r
  BY <1>1, <1>2, <1>6, HostType DEF OneSlotPerAddress
<1> QED
  BY <1>5, <1>6

\* The links of an array are its slots and NULL, which is 0.
LEMMA NullFacts == Null \notin Nodes /\ Null \in Links /\ Nodes \subseteq Links
  BY TreeAssumption DEF Links

LEMMA InitCache == Init => CacheInv
<1> SUFFICES ASSUME Init PROVE CacheInv
  OBVIOUS
<1>1. 1 \in Nodes /\ Own \in Hosts /\ OwnMac \in Macs
  BY ArpAssumption
<1>2. tree \in Trees
  BY <1>1, EmptyIsTree, RemoveTree, InsertTree DEF Init
<1>3. TypeOK
  <2>1. /\ ip_addr \in [Nodes -> Hosts \cup {0}]
        /\ first \in [Nodes -> Macs \cup {NoMac}] /\ last \in [Nodes -> Macs \cup {NoMac}]
    BY <1>1 DEF Init
  <2>2. age \in [Nodes -> FREE .. Longest]
    BY LongestType DEF Init, FREE, STATIC, DYN
  <2>3. lookup.slot \in Nodes \cup {Null} /\ ing.slot \in Nodes \cup {Null}
    BY DEF Init, NoLookup, NoInsert
  <2>4. tree.root \in Nodes \cup {Null}
    BY <1>2, TreeFields DEF Links
  <2> QED
    BY <2>1, <2>2, <2>3, <2>4 DEF TypeOK
<1>4. OneSlotPerAddress
  BY DEF OneSlotPerAddress, Init
<1>5. learned \in Learnings
  BY <1>1, LongestType DEF Init, Learnings
<1>6. Fresh
  BY HostType DEF Init, Fresh, STATIC
<1>7. InsertType /\ InsertOk
  BY NullFacts DEF Init, NoInsert, InsertType, InsertOk
<1>8. LookupType /\ Notices /\ LookupOk
  BY NullFacts DEF Init, NoInsert, NoLookup, LookupType, Notices, LookupOk, Counters
<1> QED
  BY <1>2, <1>3, <1>4, <1>5, <1>6, <1>7, <1>8 DEF CacheInv

\* arp_cache_insert up to its stores: the slot that is taken, or none.  A lookup
\* of the address that was not overtaken before has found that very slot.
LEMMA InsertBeginKeeps ==
    ASSUME CacheInv, NEW a \in Hosts, NEW mac \in Macs, InsertBegin(a, mac)
    PROVE  CacheInv'
<1> DEFINE s == SlotFor(a)
           t == IF age[s] >= 0 THEN Remove(tree, s) ELSE tree
<1>0. /\ ip_addr \in [Nodes -> Hosts \cup {0}] /\ tree \in Trees
      /\ learned \in Learnings /\ OneSlotPerAddress /\ TypeOK /\ Fresh
      /\ LookupType /\ Notices /\ LookupOk /\ InsertType
  BY DEF CacheInv, TypeOK
<1>1. s \in Links /\ \A r \in Nodes : ip_addr[r] = a => s = r
  BY <1>0, SlotForIs
<1>2. ing = NoInsert /\ ing.slot = Null /\ UNCHANGED <<ip_addr, first, last, age>>
  BY DEF InsertBegin, NoInsert, slots
<1>3. learned' = [learned EXCEPT ![a] = [mac |-> mac, ago |-> 0]]
  BY DEF InsertBegin
<1>4. learned' \in Learnings
  BY <1>0, <1>3 DEF Learnings
<1>5. /\ learned'[a].mac = mac /\ learned'[a].ago = 0
      /\ \A b \in Hosts : b # a => learned'[b] = learned[b]
  BY <1>0, <1>3 DEF Learnings
<1>6. OneSlotPerAddress'
  BY <1>0, <1>2 DEF OneSlotPerAddress
<1>7. CASE s = Null
  <2>1. UNCHANGED <<tree, ing, lookup>>
    BY <1>7 DEF InsertBegin
  <2>2. \A r \in Nodes : ip_addr[r] # a
    BY <1>1, <1>7, NullFacts
  <2>3. Fresh'
    BY <1>0, <1>2, <1>5, <2>1, <2>2 DEF Fresh
  <2>4. TypeOK'
    BY <1>0, <1>2, <2>1 DEF TypeOK
  <2>5. InsertType' /\ InsertOk' /\ LookupType' /\ Notices'
    BY <1>0, <1>2, <2>1 DEF InsertType, InsertOk, LookupType, Notices
  <2>6. LookupOk'
    <3> SUFFICES ASSUME lookup.pc \in {"found", "copy", "return"}, lookup.slot # Null,
                        lookup.slot \notin lookup.met
                 PROVE  LookupOk'
      BY <2>1 DEF LookupOk
    <3>1. lookup.slot \in Nodes /\ lookup.addr \in Hosts
      BY <1>0 DEF LookupType, Links
    <3>2. lookup.addr # a
      BY <1>0, <2>2, <3>1 DEF LookupOk
    <3> QED
      BY <1>0, <1>2, <1>5, <2>1, <3>1, <3>2 DEF LookupOk
  <2> QED
    BY <1>0, <1>4, <1>6, <2>1, <2>3, <2>4, <2>5, <2>6 DEF CacheInv
<1>8. CASE s \in Nodes
  <2>1. /\ tree' = t
        /\ ing' = [slot |-> s, addr |-> a, mac |-> mac, todo |-> SlotFields]
        /\ lookup' = IF Watched(s) THEN [lookup EXCEPT !.met = @ \cup {s}] ELSE lookup
    BY <1>8, NullFacts DEF InsertBegin, Stores
  <2>2. tree' \in Trees
    BY <1>0, <1>8, <2>1, RemoveTree
  <2> HIDE DEF t, s
  <2>3. /\ ing'.slot = s /\ ing'.addr = a /\ ing'.mac = mac /\ ing'.todo = SlotFields
        /\ InsertType'
    BY <1>8, <2>1, NullFacts DEF InsertType
  <2>4. /\ lookup'.pc = lookup.pc /\ lookup'.addr = lookup.addr /\ lookup'.slot = lookup.slot
        /\ lookup'.part = lookup.part
        /\ lookup'.met = (IF Watched(s) THEN lookup.met \cup {s} ELSE lookup.met)
    BY <1>0, <2>1 DEF LookupType
  <2>5. LookupType'
    <3>1. lookup.pc = "idle" => lookup' = lookup
      BY <1>0, <2>1 DEF LookupType, Watched, NoLookup
    <3>2. lookup' \in [pc : Counters, addr : Hosts \cup {0}, slot : Links,
                       part : Macs \cup {NoMac}, met : SUBSET Nodes]
      BY <1>0, <1>8, <2>1 DEF LookupType
    <3> QED
      BY <1>0, <2>4, <3>1, <3>2 DEF LookupType
  <2>6. Watched(s) <=> lookup.pc = "search" \/ (lookup.pc # "idle" /\ lookup.slot = s)
    BY <1>0 DEF LookupType, Watched, NoLookup
  <2>7. Notices'
    BY <2>3, <2>4, <2>6 DEF Notices
  <2>8. InsertOk'
    BY <1>1, <1>2, <1>5, <2>3 DEF InsertOk, SlotFields
  <2>9. Fresh'
    <3> SUFFICES ASSUME NEW r \in Nodes, r # s, ip_addr[r] \in Hosts, age[r] >= 0
                 PROVE  /\ first[r] = learned'[ip_addr[r]].mac /\ last[r] = learned'[ip_addr[r]].mac
                        /\ learned'[ip_addr[r]].ago <= age[r]
      BY <1>2, <2>3 DEF Fresh
    <3>1. ip_addr[r] # a /\ r # ing.slot
      BY <1>1, <1>2, NullFacts
    <3> QED
      BY <1>0, <1>5, <3>1 DEF Fresh
  <2>10. LookupOk'
    <3> SUFFICES ASSUME lookup'.pc \in {"found", "copy", "return"}, lookup'.slot # Null,
                        lookup'.slot \notin lookup'.met
                 PROVE  LookupOk'
      BY DEF LookupOk
    <3>1. lookup.slot \in Nodes /\ lookup.addr \in Hosts /\ lookup.slot # s
          /\ lookup.slot \notin lookup.met
      BY <1>0, <2>4, <2>6 DEF LookupType, Links
    <3>2. ip_addr[lookup.slot] = lookup.addr
      BY <1>0, <2>4, <3>1, NullFacts DEF LookupOk
    <3>3. lookup.addr # a
      BY <1>1, <3>1, <3>2
    <3>4. learned'[lookup.addr] = learned[lookup.addr]
      BY <1>5, <3>1, <3>3
    <3> QED
      BY <1>0, <1>2, <2>4, <3>1, <3>4 DEF LookupOk
  <2>11. TypeOK'
    <3>1. tree'.root \in Nodes \cup {Null}
      BY <2>2, TreeFields DEF Links
    <3> QED
      BY <1>0, <1>2, <1>8, <2>3, <2>4, <3>1 DEF TypeOK
  <2> QED
    BY <1>4, <1>6, <2>2, <2>3, <2>5, <2>7, <2>8, <2>9, <2>10, <2>11 DEF CacheInv
<1> QED
  BY <1>1, <1>7, <1>8 DEF Links

\* A store changes only the slot of the insertion, which a lookup that was not
\* overtaken does not read.
LEMMA StoreKeeps ==
    ASSUME CacheInv, NEW f \in SlotFields, Store(f)
    PROVE  CacheInv'
<1> DEFINE s == ing.slot
<1>0. /\ ip_addr \in [Nodes -> Hosts \cup {0}] /\ tree \in Trees
      /\ first \in [Nodes -> Macs \cup {NoMac}] /\ last \in [Nodes -> Macs \cup {NoMac}]
      /\ age \in [Nodes -> FREE .. Longest]
      /\ learned \in Learnings /\ OneSlotPerAddress /\ TypeOK /\ Fresh
      /\ LookupType /\ Notices /\ LookupOk /\ InsertType /\ InsertOk
  BY DEF CacheInv, TypeOK
<1>1. s \in Nodes /\ s # Null /\ f \in ing.todo
  <2>1. f \in ing.todo
    BY DEF Store
  <2>2. ing # NoInsert
    BY <2>1 DEF NoInsert
  <2> QED
    BY <1>0, <2>1, <2>2 DEF InsertType, Links
<1>2. ing.addr \in Hosts /\ ing.mac \in Macs /\ \A r \in Nodes : r # s => ip_addr[r] # ing.addr
  BY <1>0, <1>1 DEF InsertOk
<1>3. /\ ip_addr' = (IF f = "ip_addr" THEN [ip_addr EXCEPT ![s] = ing.addr] ELSE ip_addr)
      /\ first' = (IF f = "first" THEN [first EXCEPT ![s] = ing.mac] ELSE first)
      /\ last' = (IF f = "last" THEN [last EXCEPT ![s] = ing.mac] ELSE last)
      /\ age' = (IF f = "age" THEN [age EXCEPT ![s] = 0] ELSE age)
      /\ UNCHANGED <<tree, lookup, learned>>
      /\ ing' = [ing EXCEPT !.todo = @ \ {f}]
  BY DEF Store, DYN
<1>4. /\ ing'.slot = s /\ ing'.addr = ing.addr /\ ing'.mac = ing.mac
      /\ ing'.todo = ing.todo \ {f} /\ InsertType'
  BY <1>0, <1>1, <1>3 DEF InsertType
<1> HIDE DEF s
<1>5. \A r \in Nodes : r # s => /\ ip_addr'[r] = ip_addr[r] /\ first'[r] = first[r]
                                /\ last'[r] = last[r] /\ age'[r] = age[r]
  BY <1>0, <1>3
<1>6. TypeOK'
  <2>1. age' \in [Nodes -> FREE .. Longest]
    BY <1>0, <1>1, <1>3, LongestType DEF FREE
  <2>2. /\ ip_addr' \in [Nodes -> Hosts \cup {0}]
        /\ first' \in [Nodes -> Macs \cup {NoMac}] /\ last' \in [Nodes -> Macs \cup {NoMac}]
    BY <1>0, <1>1, <1>2, <1>3
  <2> QED
    BY <1>0, <1>1, <1>3, <1>4, <2>1, <2>2 DEF TypeOK
<1>7. OneSlotPerAddress'
  <2>1. ip_addr'[s] = ip_addr[s] \/ ip_addr'[s] = ing.addr
    BY <1>0, <1>1, <1>3
  <2> QED
    BY <1>0, <1>1, <1>2, <1>5, <2>1 DEF OneSlotPerAddress
<1>8. Fresh'
  BY <1>0, <1>3, <1>4, <1>5 DEF Fresh
<1>9. InsertOk'
  <2>1. /\ "ip_addr" \notin ing'.todo => ip_addr'[s] = ing.addr
        /\ "first" \notin ing'.todo => first'[s] = ing.mac
        /\ "last" \notin ing'.todo => last'[s] = ing.mac
        /\ "age" \notin ing'.todo => age'[s] = 0
    BY <1>0, <1>1, <1>3, <1>4 DEF InsertOk, s
  <2>2. learned[ing.addr].mac = ing.mac /\ learned[ing.addr].ago = 0
    BY <1>0, <1>1 DEF InsertOk, s
  <2> QED
    BY <1>2, <1>3, <1>4, <1>5, <2>1, <2>2 DEF InsertOk
<1>10. LookupType' /\ Notices'
  BY <1>0, <1>3, <1>4 DEF LookupType, Notices, s
<1>11. LookupOk'
  <2> SUFFICES ASSUME lookup.pc \in {"found", "copy", "return"}, lookup.slot # Null,
                      lookup.slot \notin lookup.met
               PROVE  LookupOk'
    BY <1>3 DEF LookupOk
  <2>1. lookup.slot \in Nodes /\ lookup.slot # s
    BY <1>0, <1>1 DEF LookupType, Links, Notices, s
  <2> QED
    BY <1>0, <1>3, <1>5, <2>1 DEF LookupOk
<1> QED
  BY <1>0, <1>3, <1>4, <1>6, <1>7, <1>8, <1>9, <1>10, <1>11 DEF CacheInv

\* RB_INSERT: with all its fields stored, the slot is as fresh as the others.
LEMMA InsertEndKeeps ==
    ASSUME CacheInv, InsertEnd
    PROVE  CacheInv'
<1> DEFINE s == ing.slot
<1>0. /\ ip_addr \in [Nodes -> Hosts \cup {0}] /\ tree \in Trees
      /\ learned \in Learnings /\ OneSlotPerAddress /\ TypeOK /\ Fresh
      /\ LookupType /\ Notices /\ LookupOk /\ InsertType /\ InsertOk
  BY DEF CacheInv, TypeOK
<1>1. /\ ing.todo = {} /\ tree' = Insert(tree, ip_addr, s) /\ ing' = NoInsert
      /\ UNCHANGED <<ip_addr, first, last, age, lookup, learned>>
  BY DEF InsertEnd, slots
<1>2. s \in Nodes /\ s # Null
  BY <1>0 DEF InsertEnd, InsertType, Links
<1>3. tree' \in Trees
  BY <1>0, <1>1, <1>2, InsertTree
<1>4. /\ ip_addr[s] = ing.addr /\ first[s] = learned[ing.addr].mac
      /\ last[s] = learned[ing.addr].mac /\ age[s] = 0 /\ learned[ing.addr].ago = 0
  BY <1>0, <1>1, <1>2 DEF InsertOk
<1> HIDE DEF s
<1>5. Fresh'
  <2> SUFFICES ASSUME NEW r \in Nodes, ip_addr[r] \in Hosts, age[r] >= 0
               PROVE  /\ first[r] = learned[ip_addr[r]].mac /\ last[r] = learned[ip_addr[r]].mac
                      /\ learned[ip_addr[r]].ago <= age[r]
    BY <1>1 DEF Fresh
  <2>1. CASE r = s
    BY <1>4, <2>1
  <2>2. CASE r # s
    BY <1>0, <2>2 DEF Fresh, s
  <2> QED
    BY <2>1, <2>2
<1>6. TypeOK'
  <2>1. tree'.root \in Nodes \cup {Null}
    BY <1>3, TreeFields DEF Links
  <2> QED
    BY <1>0, <1>1, <2>1 DEF TypeOK, NoInsert
<1>7. InsertType' /\ InsertOk' /\ Notices'
  BY <1>1, NullFacts DEF InsertType, InsertOk, Notices, NoInsert
<1>8. OneSlotPerAddress' /\ LookupType' /\ LookupOk' /\ learned' \in Learnings
  BY <1>0, <1>1 DEF OneSlotPerAddress, LookupType, LookupOk
<1> QED
  BY <1>3, <1>5, <1>6, <1>7, <1>8 DEF CacheInv

\* arp_cache_update: a slot that lives on is as old as the delta makes it, and
\* so is what was learned.
LEMMA UpdateKeeps ==
    ASSUME CacheInv, NEW delta \in Deltas, CacheUpdate(delta)
    PROVE  CacheInv'
<1> DEFINE older(x) == IF x + delta > Longest THEN Forgotten ELSE x + delta
<1>0. /\ age \in [Nodes -> FREE .. Longest] /\ learned \in Learnings /\ Fresh /\ TypeOK
      /\ LookupType /\ Notices /\ LookupOk /\ InsertType
      /\ ip_addr \in [Nodes -> Hosts \cup {0}]
  BY DEF CacheInv, TypeOK
<1>1. /\ UNCHANGED <<ip_addr, first, last, tree, lookup, ing>> /\ ing.slot = Null
      /\ age' = [s \in Nodes |-> IF age[s] > AgeMax THEN FREE
                                 ELSE IF age[s] >= 0 THEN age[s] + delta ELSE age[s]]
      /\ learned' = [a \in Hosts |-> [learned[a] EXCEPT !.ago = older(@)]]
  BY DEF CacheUpdate, NoInsert
<1>2. delta \in Nat /\ delta <= MaxDelta /\ AgeMax \in Nat /\ MaxDelta \in Nat
      /\ Longest = AgeMax + MaxDelta /\ Forgotten \in Nat
  BY LongestType, ArpAssumption
<1>3. \A a \in Hosts : learned[a] \in [mac : Macs \cup {NoMac}, ago : Nat]
  BY <1>0 DEF Learnings
<1>4. \A a \in Hosts : learned'[a].mac = learned[a].mac
                       /\ learned'[a].ago = older(learned[a].ago)
  BY <1>1, <1>3
<1>5. \A x \in Nat : older(x) \in Nat
  BY <1>2
<1>6. learned' \in Learnings
  BY <1>1, <1>3, <1>5 DEF Learnings
<1>7. ASSUME NEW s \in Nodes
      PROVE  /\ age'[s] \in FREE .. Longest
             /\ age'[s] >= 0 => age[s] >= 0 /\ age[s] <= AgeMax /\ age'[s] = age[s] + delta
  <2>1. age[s] \in FREE .. Longest
    BY <1>0
  <2> QED
    BY <1>1, <1>2, <2>1 DEF FREE
<1>8. age' \in [Nodes -> FREE .. Longest]
  BY <1>1, <1>7
<1>9. Fresh'
  <2> SUFFICES ASSUME NEW s \in Nodes, ip_addr'[s] \in Hosts, age'[s] >= 0
               PROVE  /\ first'[s] = learned'[ip_addr'[s]].mac
                      /\ last'[s] = learned'[ip_addr'[s]].mac
                      /\ learned'[ip_addr'[s]].ago <= age'[s]
    BY DEF Fresh
  <2> DEFINE x == learned[ip_addr[s]].ago
  <2>0. s # ing.slot /\ ip_addr[s] \in Hosts /\ age[s] >= 0
    BY <1>1, <1>7, NullFacts
  <2>1. /\ first[s] = learned[ip_addr[s]].mac /\ last[s] = learned[ip_addr[s]].mac
        /\ x <= age[s] /\ x \in Nat
    BY <1>0, <1>3, <2>0 DEF Fresh
  <2>2. learned'[ip_addr[s]].ago = older(x) /\ learned'[ip_addr[s]].mac = learned[ip_addr[s]].mac
    BY <1>1, <1>4
  <2> HIDE DEF x
  <2>3. older(x) <= age'[s]
    BY <1>0, <1>2, <1>7, <2>1
  <2> HIDE DEF older
  <2> QED
    BY <1>1, <2>1, <2>2, <2>3
<1>10. TypeOK' /\ OneSlotPerAddress'
  BY <1>0, <1>1, <1>8 DEF TypeOK, CacheInv, OneSlotPerAddress
<1>11. InsertType' /\ InsertOk' /\ LookupType' /\ Notices'
  BY <1>0, <1>1 DEF InsertType, InsertOk, LookupType, Notices
<1>12. LookupOk'
  <2> SUFFICES ASSUME lookup.pc \in {"found", "copy", "return"}, lookup.slot # Null,
                      lookup.slot \notin lookup.met
               PROVE  LookupOk'
    BY <1>1 DEF LookupOk
  <2>1. lookup.addr \in Hosts
    BY <1>0 DEF LookupType
  <2>2. learned'[lookup.addr].mac = learned[lookup.addr].mac
    BY <1>4, <2>1
  <2> QED
    BY <1>0, <1>1, <2>2 DEF LookupOk
<1> QED
  BY <1>1, <1>6, <1>9, <1>10, <1>11, <1>12 DEF CacheInv

\* A search returns a slot that has the address.
LEMMA GetEntryIs ==
    ASSUME CacheInv, NEW a \in Hosts
    PROVE  GetEntry(a) \in Links /\ (GetEntry(a) # Null => ip_addr[GetEntry(a)] = a)
<1>1. ip_addr \in [Nodes -> Addresses] /\ a \in Addresses /\ tree \in Trees
  BY HostType DEF CacheInv, TypeOK
<1> QED
  BY <1>1, FindIs DEF GetEntry

\* The steps of a lookup.
LEMMA LookupKeeps ==
    ASSUME CacheInv, LookupType', Notices', LookupOk',
           UNCHANGED <<slots, tree, ing, learned>>
    PROVE  CacheInv'
<1>1. UNCHANGED <<ip_addr, first, last, age, tree, ing, learned>>
  BY DEF slots
<1>2. TypeOK' /\ OneSlotPerAddress' /\ Fresh' /\ InsertType' /\ InsertOk'
  BY <1>1 DEF CacheInv, TypeOK, OneSlotPerAddress, Fresh, InsertType, InsertOk, LookupType, Links
<1> QED
  BY <1>1, <1>2 DEF CacheInv

LEMMA BeginKeeps ==
    ASSUME CacheInv, NEW a \in Hosts, LookupBegin(a)
    PROVE  CacheInv'
<1>1. /\ lookup' = [pc |-> "search", addr |-> a, slot |-> Null, part |-> NoMac,
                    met |-> {ing.slot} \ {Null}]
      /\ UNCHANGED <<slots, tree, ing, learned>>
  BY DEF LookupBegin, NoLookup
<1>2. ing.slot \in Links
  BY DEF CacheInv, InsertType
<1>3. LookupType'
  BY <1>1, <1>2, NullFacts DEF LookupType, Links, Counters
<1>4. Notices' /\ LookupOk'
  BY <1>1 DEF Notices, LookupOk
<1> QED
  BY <1>1, <1>3, <1>4, LookupKeeps

LEMMA FoundKeeps ==
    ASSUME CacheInv, LookupFound
    PROVE  CacheInv'
<1>0. LookupType /\ Notices /\ LookupOk /\ InsertType /\ lookup.addr \in Hosts
      /\ lookup.pc = "search"
  BY DEF CacheInv, LookupFound, LookupType
<1>1. PICK s \in Findable(lookup.addr, lookup.met) :
          lookup' = [lookup EXCEPT !.slot = s, !.pc = "found", !.met = @ \cap {s}]
  BY DEF LookupFound
<1>2. UNCHANGED <<slots, tree, ing, learned>>
  BY DEF LookupFound
<1>3. s \in Links /\ (s \in Nodes /\ s \notin lookup.met => ip_addr[s] = lookup.addr)
  <2>1. CASE lookup.met = {}
    BY <1>0, <1>1, <2>1, GetEntryIs, NullFacts DEF Findable
  <2>2. CASE lookup.met # {}
    BY <1>0, <1>1, <2>2, NullFacts DEF Findable, Links, LookupType
  <2> QED
    BY <2>1, <2>2
<1>4. /\ lookup'.pc = "found" /\ lookup'.addr = lookup.addr /\ lookup'.slot = s
      /\ lookup'.met = lookup.met \cap {s} /\ LookupType'
  BY <1>0, <1>1, <1>3 DEF LookupType, Counters
<1>5. Notices' /\ LookupOk'
  BY <1>0, <1>2, <1>3, <1>4 DEF Notices, LookupOk, Links, slots
<1> QED
  BY <1>2, <1>4, <1>5, LookupKeeps

LEMMA TestKeeps ==
    ASSUME CacheInv, LookupTest
    PROVE  CacheInv'
<1>0. LookupType /\ Notices /\ LookupOk /\ InsertType /\ Fresh /\ lookup.pc = "found"
      /\ lookup.addr \in Hosts
  BY DEF CacheInv, LookupTest, LookupType
<1>1. /\ lookup' = (IF Resolves(lookup.slot) THEN [lookup EXCEPT !.pc = "copy"] ELSE NoLookup)
      /\ UNCHANGED <<slots, tree, ing, learned>>
  BY DEF LookupTest
<1>2. CASE ~Resolves(lookup.slot)
  <2>1. LookupType' /\ Notices' /\ LookupOk'
    BY <1>1, <1>2, NullFacts DEF LookupType, Notices, LookupOk, NoLookup, Counters
  <2> QED
    BY <1>1, <2>1, LookupKeeps
<1>3. CASE Resolves(lookup.slot)
  <2>1. lookup.slot \in Nodes /\ lookup.slot # Null /\ age[lookup.slot] >= 0
    BY <1>0, <1>3, NullFacts DEF Resolves, LookupType, Links
  <2>2. /\ lookup'.pc = "copy" /\ lookup'.addr = lookup.addr /\ lookup'.slot = lookup.slot
        /\ lookup'.met = lookup.met /\ LookupType'
    BY <1>0, <1>1, <1>3, <2>1 DEF LookupType, Counters
  <2>3. Notices'
    BY <1>0, <1>1, <2>2 DEF Notices
  <2>4. LookupOk'
    <3> SUFFICES ASSUME lookup.slot \notin lookup.met
                 PROVE  LookupOk'
      BY <2>2 DEF LookupOk
    <3>1. lookup.slot # ing.slot
      BY <1>0, <2>1 DEF Notices
    <3>2. ip_addr[lookup.slot] = lookup.addr
      BY <1>0, <2>1 DEF LookupOk
    <3>3. /\ first[lookup.slot] = learned[lookup.addr].mac
          /\ last[lookup.slot] = learned[lookup.addr].mac
      BY <1>0, <2>1, <3>1, <3>2 DEF Fresh
    <3> QED
      BY <1>1, <2>2, <3>2, <3>3 DEF LookupOk, slots
  <2> QED
    BY <1>1, <2>2, <2>3, <2>4, LookupKeeps
<1> QED
  BY <1>2, <1>3

LEMMA CopyKeeps ==
    ASSUME CacheInv, LookupCopy
    PROVE  CacheInv'
<1>0. /\ LookupType /\ Notices /\ LookupOk /\ lookup.pc = "copy" /\ lookup.slot \in Nodes
      /\ first \in [Nodes -> Macs \cup {NoMac}]
  BY DEF CacheInv, LookupCopy, LookupType, TypeOK
<1>1. /\ lookup' = [lookup EXCEPT !.part = first[lookup.slot], !.pc = "return"]
      /\ UNCHANGED <<slots, tree, ing, learned>>
  BY DEF LookupCopy
<1>2. /\ lookup'.pc = "return" /\ lookup'.addr = lookup.addr /\ lookup'.slot = lookup.slot
      /\ lookup'.met = lookup.met /\ lookup'.part = first[lookup.slot] /\ LookupType'
  BY <1>0, <1>1 DEF LookupType, Counters
<1>3. Notices' /\ LookupOk'
  BY <1>0, <1>1, <1>2 DEF Notices, LookupOk, slots
<1> QED
  BY <1>1, <1>2, <1>3, LookupKeeps

LEMMA EndKeeps ==
    ASSUME CacheInv, LookupEnd
    PROVE  CacheInv'
<1>1. lookup' = NoLookup /\ UNCHANGED <<slots, tree, ing, learned>>
  BY DEF LookupEnd
<1>2. LookupType' /\ Notices' /\ LookupOk'
  BY <1>1, NullFacts DEF LookupType, Notices, LookupOk, NoLookup, Counters
<1> QED
  BY <1>1, <1>2, LookupKeeps

LEMMA NextCache == CacheInv /\ [Next]_vars => CacheInv'
<1> SUFFICES ASSUME CacheInv, [Next]_vars PROVE CacheInv'
  OBVIOUS
<1>1. ASSUME NEW a \in Hosts, NEW mac \in Macs, InsertBegin(a, mac) PROVE CacheInv'
  BY <1>1, InsertBeginKeeps
<1>2. ASSUME NEW f \in SlotFields, Store(f) PROVE CacheInv'
  BY <1>2, StoreKeeps
<1>3. ASSUME InsertEnd PROVE CacheInv'
  BY <1>3, InsertEndKeeps
<1>4. ASSUME NEW delta \in Deltas, CacheUpdate(delta) PROVE CacheInv'
  BY <1>4, UpdateKeeps
<1>5. ASSUME NEW a \in Wanted, LookupBegin(a) PROVE CacheInv'
  <2>1. a \in Hosts
    BY ArpAssumption
  <2> QED
    BY <1>5, <2>1, BeginKeeps
<1>6. ASSUME LookupFound PROVE CacheInv'
  BY <1>6, FoundKeeps
<1>7. ASSUME LookupTest PROVE CacheInv'
  BY <1>7, TestKeeps
<1>8. ASSUME LookupCopy PROVE CacheInv'
  BY <1>8, CopyKeeps
<1>9. ASSUME LookupEnd PROVE CacheInv'
  BY <1>9, EndKeeps
<1>10. ASSUME UNCHANGED vars PROVE CacheInv'
  BY <1>10, LookupKeeps DEF vars, CacheInv, LookupType, Notices, LookupOk, slots
<1> QED
  BY <1>1, <1>2, <1>3, <1>4, <1>5, <1>6, <1>7, <1>8, <1>9, <1>10 DEF Next

\* The invariant holds in every state, for every cache.
THEOREM CacheInvariant == Spec => []CacheInv
  BY InitCache, NextCache, PTL DEF Spec

\* The slots, the tree's root and the lookup of the egress thread stay within
\* their types, whatever arp_cache_insert has done to the tree.
THEOREM CacheTypeCorrect == Spec => []TypeOK
<1>1. CacheInv => TypeOK
  BY DEF CacheInv
<1> QED
  BY <1>1, CacheInvariant, PTL

\* arp_cache_insert never gives an address a second slot.
THEOREM OneSlotEach == Spec => []OneSlotPerAddress
<1>1. CacheInv => OneSlotPerAddress
  BY DEF CacheInv
<1> QED
  BY <1>1, CacheInvariant, PTL

\* A slot with an age that arp_cache_get_entry returns has the hardware
\* address that was learned last, not longer ago than an age can say.
THEOREM LookupsAreLatest == Spec => []ResolvesToLatest
<1>1. CacheInv => ResolvesToLatest
  <2> SUFFICES ASSUME CacheInv, ing = NoInsert, NEW a \in Hosts, Resolves(GetEntry(a))
               PROVE  /\ first[GetEntry(a)] = learned[a].mac
                      /\ last[GetEntry(a)] = learned[a].mac
                      /\ learned[a].ago <= Longest
    BY DEF ResolvesToLatest
  <2> DEFINE s == GetEntry(a)
  <2>1. s \in Nodes /\ ip_addr[s] = a /\ age[s] >= 0 /\ s # ing.slot
    BY GetEntryIs, NullFacts DEF Resolves, Links, NoInsert
  <2> HIDE DEF s
  <2>2. first[s] = learned[a].mac /\ last[s] = learned[a].mac /\ learned[a].ago <= age[s]
    BY <2>1 DEF CacheInv, Fresh
  <2>3. age[s] \in FREE .. Longest /\ learned[a].ago \in Nat
    BY <2>1 DEF CacheInv, TypeOK, Learnings
  <2>4. learned[a].ago <= Longest
    BY <2>2, <2>3, LongestType DEF FREE
  <2> QED
    BY <2>2, <2>4 DEF s
<1> QED
  BY <1>1, CacheInvariant, PTL

\* What arp_cache_get_haddr copies in the egress thread is the latest hardware
\* address and no mixture, if no insertion was at the slot in the meantime: for
\* every cache, every tree in it, every order of the stores of arp_cache_insert
\* and every interleaving with them.
THEOREM LookupsNotOvertaken == Spec => []LookupIsLatest
<1>1. CacheInv => LookupIsLatest
  BY NullFacts DEF CacheInv, LookupIsLatest, LookupOk, LookupType
<1> QED
  BY <1>1, CacheInvariant, PTL
=============================================================================
