---------------------------- MODULE IpRouteProofs ----------------------------
(***************************************************************************)
(* Machine-checked proofs about the routing table and its red-black trees: *)
(* for arrays of any size, addresses of any width and any routes.          *)
(*                                                                         *)
(* A tree t of the elements S is described by three witnesses: rank, the   *)
(* place of an element in the order of the keys; w[n], the elements of     *)
(* the subtree at n; B[n], the black elements on every way down from n.    *)
(* Shape relates t to rank and w, Coloured relates it to B, and IsTree     *)
(* says that there are such w and B.  RB_INSERT and RB_REMOVE are shown to *)
(* keep IsTree, assignment by assignment and turn by turn; the number of   *)
(* elements in w bounds every loop.  The routing table adds that its       *)
(* entries and the elements of the trees are the same.                     *)
(***************************************************************************)
EXTENDS IpRoute, FiniteSetTheorems, FunctionTheorems, SequenceTheorems, WellFoundedInduction,
        TLAPS

-----------------------------------------------------------------------------
(* Induction.                                                              *)

NatLess == OpToRel(<, Nat)

\* A set of naturals that is not empty has a least element.
LEMMA LeastNat ==
    ASSUME NEW T \in SUBSET Nat, T # {}
    PROVE  \E x \in T : \A y \in T : x <= y
<1>1. NatLess = {p \in Nat \X Nat : p[1] < p[2]}
  BY Zenon DEF NatLess, OpToRel
<1>2. IsWellFoundedOn(NatLess, Nat)
  BY NatLessThanWellFounded, Zenon DEF NatLess
<1>3. \E x \in T : \A y \in T : <<y, x>> \notin NatLess
  BY <1>2, WFMin, Zenon
<1>4. PICK x \in T : \A y \in T : <<y, x>> \notin NatLess
  BY <1>3
<1>5. \A y \in T : <<y, x>> \in NatLess <=> y < x
  BY <1>1
<1>6. \A y \in T : ~ (y < x)
  BY <1>4, <1>5
<1> QED
  BY <1>6

\* Induction over an initial segment: a set that holds 0 and, with i, also
\* i + 1, holds every number up to n.
LEMMA UpTo ==
    ASSUME NEW n \in Nat, NEW P, 0 \in P,
           \A i \in 0 .. n - 1 : i \in P => i + 1 \in P
    PROVE  0 .. n \subseteq P
<1> DEFINE T == (0 .. n) \ P
<1> SUFFICES ASSUME T # {} PROVE FALSE
  OBVIOUS
<1>0. T \in SUBSET Nat
  OBVIOUS
<1>1. PICK x \in T : \A y \in T : x <= y
  BY <1>0, LeastNat, Zenon
<1>2. x # 0 /\ x - 1 \in 0 .. n - 1 /\ x - 1 \notin T
  BY <1>1
<1>3. x - 1 \in P
  BY <1>2
<1>4. (x - 1) + 1 \in P
  BY <1>2, <1>3
<1> QED
  BY <1>1, <1>4

\* The run of a loop with body F from c, up to turn n.
IsRun(g, S, F, c, n) ==
    /\ g \in [0 .. n -> S]
    /\ g[0] = c
    /\ \A i \in 1 .. n : g[i] = F[g[i - 1]]

\* Every loop whose body stays in a set has a run of any length.
LEMMA RunExists ==
    ASSUME NEW S, NEW F \in [S -> S], NEW c \in S, NEW n \in Nat
    PROVE  \E g : IsRun(g, S, F, c, n)
<1> DEFINE P == {m \in 0 .. n : \E g : IsRun(g, S, F, c, m)}
<1>1. 0 \in P
  <2>1. IsRun([i \in 0 .. 0 |-> c], S, F, c, 0)
    BY DEF IsRun
  <2> QED
    BY <2>1
<1>2. ASSUME NEW m \in 0 .. n - 1, m \in P PROVE m + 1 \in P
  <2>1. PICK g : IsRun(g, S, F, c, m)
    BY <1>2
  <2> DEFINE h == [i \in 0 .. m + 1 |-> IF i = m + 1 THEN F[g[m]] ELSE g[i]]
  <2>2. h \in [0 .. m + 1 -> S] /\ h[0] = c
    BY <2>1 DEF IsRun
  <2>3. ASSUME NEW i \in 1 .. m + 1 PROVE h[i] = F[h[i - 1]]
    BY <2>1, <2>3 DEF IsRun
  <2>4. IsRun(h, S, F, c, m + 1)
    BY <2>2, <2>3 DEF IsRun
  <2> QED
    BY <2>4
<1>3. 0 .. n \subseteq P
  BY <1>1, <1>2, UpTo
<1> QED
  BY <1>3

-----------------------------------------------------------------------------
(* The order of the keys.                                                  *)

\* rank orders the elements S as the difference of two addresses orders their
\* keys, which are all different.
Ranks(rank, key, S) ==
    /\ rank \in [Nodes -> Int]
    /\ \A m, n \in S : /\ Cmp(key[m], key[n]) < 0 <=> rank[m] < rank[n]
                       /\ Cmp(key[m], key[n]) = 0 <=> m = n
                       /\ rank[m] = rank[n] <=> m = n

\* The remainder of a difference of two addresses.
LEMMA ModWrap ==
    ASSUME NEW M \in Nat \ {0}, NEW x \in Int, -M < x, x < M
    PROVE  x % M = IF x >= 0 THEN x ELSE x + M
  BY SMT

\* For keys that the difference orders, it is the difference of their ranks.
LEMMA CmpIs ==
    ASSUME NEW lo \in Addresses, NEW a \in Addresses, NEW b \in Addresses,
           (a - lo) % 2^Width < 2^(Width - 1), (b - lo) % 2^Width < 2^(Width - 1)
    PROVE  Cmp(a, b) = ((a - lo) % 2^Width) - ((b - lo) % 2^Width)
<1> DEFINE M == 2^Width
           H == 2^(Width - 1)
<1>1. M \in Nat \ {0} /\ H \in Nat /\ M = 2 * H
  BY TreeAssumption, PowerAssumption
<1>2. lo \in 0 .. M - 1 /\ a \in 0 .. M - 1 /\ b \in 0 .. M - 1
  BY DEF Addresses
<1>3. (a - lo) % M < H /\ (b - lo) % M < H
  OBVIOUS
<1>4. Cmp(a, b) = IF (a - b) % M < H THEN (a - b) % M ELSE ((a - b) % M) - M
  BY DEF Cmp
<1> HIDE DEF M, H
<1>5. /\ (a - lo) % M = IF a - lo >= 0 THEN a - lo ELSE a - lo + M
      /\ (b - lo) % M = IF b - lo >= 0 THEN b - lo ELSE b - lo + M
      /\ (a - b) % M = IF a - b >= 0 THEN a - b ELSE a - b + M
  <2>1. \A x \in Int : -M < x /\ x < M => x % M = IF x >= 0 THEN x ELSE x + M
    BY <1>1, ModWrap
  <2>2. /\ a - lo \in Int /\ -M < a - lo /\ a - lo < M
        /\ b - lo \in Int /\ -M < b - lo /\ b - lo < M
        /\ a - b \in Int /\ -M < a - b /\ a - b < M
    BY <1>1, <1>2
  <2> QED
    BY <2>1, <2>2
<1>6. Cmp(a, b) = ((a - lo) % M) - ((b - lo) % M)
  BY <1>1, <1>2, <1>3, <1>4, <1>5
<1> QED
  BY <1>6 DEF M

\* The comparison is zero for equal keys only.
LEMMA CmpZero ==
    ASSUME NEW a \in Addresses, NEW b \in Addresses
    PROVE  Cmp(a, b) = 0 <=> a = b
<1> DEFINE M == 2^Width
           H == 2^(Width - 1)
<1>1. M \in Nat \ {0} /\ H \in Nat \ {0} /\ M = 2 * H
  BY TreeAssumption, PowerAssumption
<1>2. a \in 0 .. M - 1 /\ b \in 0 .. M - 1
  BY DEF Addresses
<1>4. Cmp(a, b) = IF (a - b) % M < H THEN (a - b) % M ELSE ((a - b) % M) - M
  BY DEF Cmp
<1> HIDE DEF M, H
<1>5. (a - b) % M = IF a - b >= 0 THEN a - b ELSE a - b + M
  <2>1. a - b \in Int /\ -M < a - b /\ a - b < M
    BY <1>1, <1>2
  <2>2. \A x \in Int : -M < x /\ x < M => x % M = IF x >= 0 THEN x ELSE x + M
    BY <1>1, ModWrap
  <2> QED
    BY <2>1, <2>2
<1> QED
  BY <1>1, <1>2, <1>4, <1>5

\* Keys that the difference orders have ranks.
LEMMA RanksExist ==
    ASSUME NEW S \in SUBSET Nodes, NEW key \in [Nodes -> Addresses],
           Ordered({key[n] : n \in S}), \A m, n \in S : key[m] = key[n] => m = n
    PROVE  \E rank : Ranks(rank, key, S)
<1>1. 0 \in Addresses
  BY TreeAssumption DEF Addresses
<1>2. PICK lo \in Addresses : \A n \in S : (key[n] - lo) % 2^Width < 2^(Width - 1)
  BY <1>1 DEF Ordered
<1> DEFINE rank == [n \in Nodes |-> (key[n] - lo) % 2^Width]
<1>3. \A x \in Int : x % 2^Width \in Int
  BY TreeAssumption
<1>4. \A n \in Nodes : key[n] - lo \in Int
  BY TreeAssumption DEF Addresses
<1>5. rank \in [Nodes -> Int]
  BY <1>3, <1>4
<1>6. ASSUME NEW m \in S, NEW n \in S
      PROVE  Cmp(key[m], key[n]) = rank[m] - rank[n]
  <2>1. key[m] \in Addresses /\ key[n] \in Addresses
    OBVIOUS
  <2> QED
    BY <1>2, <2>1, CmpIs
<1>7. \A m, n \in S : Cmp(key[m], key[n]) = 0 <=> m = n
  BY CmpZero
<1> HIDE DEF rank
<1>8. Ranks(rank, key, S)
  BY <1>5, <1>6, <1>7 DEF Ranks
<1> QED
  BY <1>8

-----------------------------------------------------------------------------
(* Trees.                                                                  *)

Links  == Nodes \cup {Null}
Colors == {"red", "black"}
Trees ==
    [root : Links, link : [Nodes -> [Sides -> Links]], parent : [Nodes -> Links],
     color : [Nodes -> Colors], fault : BOOLEAN]
Cursors == [t : Trees, at : Links, up : Links]

\* The fields of a tree.
LEMMA TreeFields ==
    ASSUME NEW t \in Trees
    PROVE  /\ t.root \in Links /\ t.link \in [Nodes -> [Sides -> Links]]
           /\ t.parent \in [Nodes -> Links] /\ t.color \in [Nodes -> Colors]
           /\ \A n \in Nodes, d \in Sides : t.link[n][d] \in Links
           /\ \A n \in Nodes : t.parent[n] \in Links /\ t.color[n] \in Colors
  BY DEF Trees

\* x is on side d of n.
Before(rank, d, x, n) == IF d = "left" THEN rank[x] < rank[n] ELSE rank[n] < rank[x]

\* t is a search tree of the elements S in the order of rank, and w[n] are the
\* elements at and below n: parents and children point at each other, and what
\* is below a child of n is on that side of n.
Shape(t, S, rank, w) ==
    /\ t \in Trees /\ ~t.fault
    /\ S \subseteq Nodes /\ rank \in [Nodes -> Int] /\ w \in [Links -> SUBSET S]
    /\ t.root \in S \cup {Null}
    /\ \A n \in S, d \in Sides : t.link[n][d] \in S \cup {Null}
    /\ \A n \in S, d \in Sides : t.link[n][d] # Null => t.parent[t.link[n][d]] = n
    /\ t.root # Null => t.parent[t.root] = Null
    /\ w[Null] = {} /\ w[t.root] = S
    /\ \A n \in S : \A x : x \in w[n] <=> x = n \/ x \in w[t.link[n]["left"]] \/ x \in w[t.link[n]["right"]]
    /\ \A n \in S, d \in Sides : \A x \in w[t.link[n][d]] : Before(rank, d, x, n)

\* The two sides.
LEMMA OtherSide ==
    /\ \A d \in Sides : Other(d) \in Sides /\ Other(d) # d /\ Other(Other(d)) = d
    /\ \A d \in Sides, s \in Sides : s = d \/ s = Other(d)
    /\ "left" \in Sides /\ "right" \in Sides /\ Sides = {"left", "right"}
  BY DEF Other, Sides

\* The subtree of a child.
LEMMA ChildBelow ==
    ASSUME NEW t, NEW S, NEW rank, NEW w, Shape(t, S, rank, w),
           NEW n \in S, NEW d \in Sides, NEW m, m = t.link[n][d], m # Null
    PROVE  /\ m \in S /\ m # n /\ t.parent[m] = n /\ m \in w[m] /\ n \in w[n]
           /\ w[m] \subseteq w[n] /\ n \notin w[m]
           /\ t.link[n][Other(d)] # m /\ m \notin w[t.link[n][Other(d)]]
           /\ \A x \in w[m] : x \notin w[t.link[n][Other(d)]]
<1>1. m \in S /\ t.parent[m] = n
  BY DEF Shape
<1>2. m \in w[m] /\ n \in w[n]
  BY <1>1 DEF Shape
<1>3. w[m] \subseteq w[n]
  BY OtherSide DEF Shape
<1>4. \A x \in Nodes : ~Before(rank, d, x, x)
  BY DEF Shape, Before
<1>5. n \notin w[m]
  BY <1>4 DEF Shape
<1>6. ASSUME NEW x \in w[m] PROVE x \notin w[t.link[n][Other(d)]]
  <2>1. x \in Nodes /\ n \in Nodes /\ rank[x] \in Int /\ rank[n] \in Int
    BY DEF Shape, Links
  <2>2. Before(rank, d, x, n)
    BY DEF Shape
  <2>3. x \in w[t.link[n][Other(d)]] => Before(rank, Other(d), x, n)
    BY OtherSide DEF Shape
  <2> QED
    BY <2>1, <2>2, <2>3 DEF Before, Other, Sides
<1> QED
  BY <1>1, <1>2, <1>3, <1>5, <1>6

\* The number of elements below an element and itself.
Weight(w, n) == Cardinality(w[n])

\* The array is finite.
LEMMA SizeType == Size \in Nat
  BY TreeAssumption, FS_CardinalityType DEF Size

\* A subtree has at most as many elements as the tree, and only NULL has none.
LEMMA WeightType ==
    ASSUME NEW t, NEW S, NEW rank, NEW w, Shape(t, S, rank, w), NEW n \in S \cup {Null}
    PROVE  /\ Weight(w, n) \in 0 .. Size
           /\ Weight(w, n) = 0 <=> n = Null
           /\ IsFiniteSet(w[n]) /\ IsFiniteSet(S) /\ Cardinality(S) \in 0 .. Size
           /\ Weight(w, n) <= Cardinality(S)
<1>1. w[n] \subseteq S /\ S \subseteq Nodes
  BY DEF Shape, Links
<1>2. IsFiniteSet(S) /\ Cardinality(S) <= Size /\ Cardinality(S) \in Nat
  BY <1>1, TreeAssumption, FS_Subset, FS_CardinalityType DEF Size
<1>3. IsFiniteSet(w[n]) /\ Cardinality(w[n]) <= Cardinality(S) /\ Cardinality(w[n]) \in Nat
  BY <1>1, <1>2, FS_Subset, FS_CardinalityType
<1>4. w[n] = {} <=> n = Null
  BY TreeAssumption DEF Shape, Links
<1>5. Cardinality(w[n]) = 0 <=> w[n] = {}
  BY <1>3, FS_EmptySet
<1> QED
  BY <1>2, <1>3, <1>4, <1>5, SizeType DEF Weight

\* A child has fewer elements below it than its parent: loops that go down end.
LEMMA ChildWeight ==
    ASSUME NEW t, NEW S, NEW rank, NEW w, Shape(t, S, rank, w),
           NEW n \in S, NEW d \in Sides, NEW m, m = t.link[n][d]
    PROVE  Weight(w, m) < Weight(w, n)
<1>1. CASE m = Null
  <2>1. Weight(w, m) = 0 /\ Weight(w, n) # 0 /\ Weight(w, n) \in Nat
    BY <1>1, WeightType, TreeAssumption DEF Shape
  <2> QED
    BY <2>1
<1>2. CASE m # Null
  <2>1. m \in S /\ w[m] \subseteq w[n] /\ n \notin w[m] /\ n \in w[n]
    BY <1>2, ChildBelow
  <2>2. IsFiniteSet(w[n])
    BY WeightType
  <2>3. Cardinality(w[m]) <= Cardinality(w[n]) /\ (Cardinality(w[m]) = Cardinality(w[n]) => w[m] = w[n])
    BY <2>1, <2>2, FS_Subset
  <2>4. Cardinality(w[m]) \in Nat /\ Cardinality(w[n]) \in Nat
    BY <2>1, WeightType DEF Weight
  <2> QED
    BY <2>1, <2>3, <2>4 DEF Weight
<1> QED
  BY <1>1, <1>2

\* Every element that is below another is the child of an element below that.
LEMMA ParentBelow ==
    ASSUME NEW t, NEW S, NEW rank, NEW w, Shape(t, S, rank, w),
           NEW b \in S, NEW x \in w[b], x # b
    PROVE  \E p \in w[b], d \in Sides : t.link[p][d] = x
<1> DEFINE Q == {a \in w[b] : w[a] \subseteq w[b] /\ x \in w[a] /\ x # a}
           T == {Weight(w, a) : a \in Q}
<1>0. b \in w[b] /\ w[b] \subseteq S
  BY DEF Shape, Links
<1>1. T \in SUBSET Nat /\ T # {}
  <2>1. b \in Q
    BY <1>0
  <2>2. \A a \in Q : Weight(w, a) \in Nat
    BY <1>0, WeightType
  <2> QED
    BY <2>1, <2>2
<1>2. PICK k \in T : \A y \in T : k <= y
  BY <1>1, LeastNat, Zenon
<1>3. PICK a \in Q : Weight(w, a) = k
  BY <1>2
<1>4. a \in S /\ x \in w[a] /\ x # a
  BY <1>0, <1>3
<1>5. PICK d \in Sides : x \in w[t.link[a][d]]
  BY <1>4, OtherSide DEF Shape
<1> DEFINE c == t.link[a][d]
<1>6. c # Null
  BY <1>5 DEF Shape
<1>7. c \in S /\ w[c] \subseteq w[a] /\ c \in w[c] /\ Weight(w, c) < Weight(w, a)
  BY <1>4, <1>6, ChildBelow, ChildWeight
<1>8. w[a] \subseteq w[b]
  BY <1>3
<1>9. x = c
  <2> SUFFICES ASSUME x # c PROVE FALSE
    OBVIOUS
  <2>1. c \in Q
    BY <1>5, <1>7, <1>8
  <2>2. k <= Weight(w, c) /\ k \in Nat /\ Weight(w, c) \in Nat
    BY <1>1, <1>2, <2>1
  <2> QED
    BY <1>3, <1>7, <2>2
<1> QED
  BY <1>3, <1>9

\* The link of an element to its parent is answered by one of the links down.
LEMMA ChildOfParent ==
    ASSUME NEW t, NEW S, NEW rank, NEW w, Shape(t, S, rank, w), NEW n \in S, n # t.root
    PROVE  t.parent[n] \in S /\ \E d \in Sides : t.link[t.parent[n]][d] = n
<1>1. t.root \in S /\ n \in w[t.root] /\ w[t.root] = S
  BY DEF Shape
<1>2. PICK p \in S, d \in Sides : t.link[p][d] = n
  BY <1>1, ParentBelow
<1>3. n # Null
  BY TreeAssumption DEF Shape
<1>4. t.parent[n] = p
  BY <1>2, <1>3, ChildBelow
<1> QED
  BY <1>2, <1>4

\* The root alone has no parent.
LEMMA ParentIsNull ==
    ASSUME NEW t, NEW S, NEW rank, NEW w, Shape(t, S, rank, w), NEW n \in S
    PROVE  t.parent[n] = Null <=> n = t.root
<1>1. n = t.root => t.parent[n] = Null
  BY TreeAssumption DEF Shape
<1>2. n # t.root => t.parent[n] # Null
  BY ChildOfParent, TreeAssumption DEF Shape
<1> QED
  BY <1>1, <1>2

-----------------------------------------------------------------------------
(* Assignments and rotations.                                              *)

\* The assignments, field by field: r is t with a new root, link, parent or color.
PutRoot(t, m)       == [t EXCEPT !.root = m]
PutLink(t, e, d, m) == [t EXCEPT !.link[e][d] = m]

RootSet(t, r, m) ==
    /\ r \in Trees /\ r.root = m /\ r.link = t.link /\ r.parent = t.parent
    /\ r.color = t.color /\ (~t.fault => ~r.fault)
LinkSet(t, r, e, d, m) ==
    /\ r \in Trees /\ r.root = t.root /\ r.parent = t.parent
    /\ r.color = t.color /\ (~t.fault => ~r.fault)
    /\ \A n \in Nodes, s \in Sides : r.link[n][s] = IF n = e /\ s = d THEN m ELSE t.link[n][s]
ParentSet(t, r, e, p) ==
    /\ r \in Trees /\ r.root = t.root /\ r.link = t.link
    /\ r.color = t.color /\ (~t.fault => ~r.fault)
    /\ \A n \in Nodes : r.parent[n] = IF n = e THEN p ELSE t.parent[n]
ColorSet(t, r, e, c) ==
    /\ r \in Trees /\ r.root = t.root /\ r.link = t.link
    /\ r.parent = t.parent /\ (~t.fault => ~r.fault)
    /\ \A n \in Nodes : r.color[n] = IF n = e THEN c ELSE t.color[n]
LeftOrRight(t, p, e) == IF t.link[p]["left"] = e THEN "left" ELSE "right"
ChildSet(t, r, p, old, new) ==
    /\ r \in Trees /\ r.parent = t.parent /\ r.color = t.color /\ (~t.fault => ~r.fault)
    /\ r.root = IF p = Null THEN new ELSE t.root
    /\ \A n \in Nodes, s \in Sides :
           r.link[n][s] = IF n = p /\ s = LeftOrRight(t, p, old) THEN new ELSE t.link[n][s]

\* An assignment to the root changes nothing else.
LEMMA PutRootIs ==
    ASSUME NEW t \in Trees, NEW m \in Links
    PROVE  RootSet(t, PutRoot(t, m), m)
  BY DEF Trees, PutRoot, RootSet

\* An assignment to a link changes nothing else.
LEMMA PutLinkIs ==
    ASSUME NEW t \in Trees, NEW e \in Nodes, NEW d \in Sides, NEW m \in Links
    PROVE  LinkSet(t, PutLink(t, e, d, m), e, d, m)
  BY DEF Trees, PutLink, LinkSet

\* An assignment to a parent changes nothing else, and none is made to NULL.
LEMMA SetParentIs ==
    ASSUME NEW t \in Trees, NEW e \in Links, NEW p \in Links
    PROVE  ParentSet(t, SetParent(t, e, p), e, p)
  BY TreeAssumption DEF Trees, SetParent, Links, ParentSet

\* An assignment to a color changes nothing else, and none is made to NULL.
LEMMA PaintIs ==
    ASSUME NEW t \in Trees, NEW e \in Links, NEW c \in Colors
    PROVE  ColorSet(t, Paint(t, e, c), e, c)
  BY TreeAssumption DEF Trees, Paint, Links, ColorSet

\* One link, or the root, is changed when an element takes the place of another.
LEMMA ReplaceIs ==
    ASSUME NEW t \in Trees, NEW p \in Links, NEW old, NEW new \in Links
    PROVE  ChildSet(t, Replace(t, p, old, new), p, old, new)
<1>1. CASE p = Null
  <2>1. RootSet(t, Replace(t, p, old, new), new)
    BY <1>1, PutRootIs DEF Replace, PutRoot
  <2> QED
    BY <1>1, <2>1, TreeAssumption DEF RootSet, ChildSet
<1>2. CASE p # Null
  <2>1. p \in Nodes /\ LeftOrRight(t, p, old) \in Sides
    BY <1>2, OtherSide DEF Links, LeftOrRight
  <2>2. Replace(t, p, old, new) = PutLink(t, p, LeftOrRight(t, p, old), new)
    BY <1>2 DEF Replace, LeftOrRight, PutLink
  <2>3. LinkSet(t, Replace(t, p, old, new), p, LeftOrRight(t, p, old), new)
    BY <2>1, <2>2, PutLinkIs
  <2> QED
    BY <1>2, <2>3 DEF LinkSet, ChildSet
<1> QED
  BY <1>1, <1>2

\* What a rotation does to the tree t of the elements S: elm goes down on side
\* d, tmp takes its place.
IsRotated(t, r, S, elm, tmp, d) ==
    /\ r \in Trees /\ ~r.fault /\ r.color = t.color
    /\ r.root = IF t.root = elm THEN tmp ELSE t.root
    /\ r.link[elm][d] = t.link[elm][d] /\ r.link[elm][Other(d)] = t.link[tmp][d]
    /\ r.link[tmp][d] = elm /\ r.link[tmp][Other(d)] = t.link[tmp][Other(d)]
    /\ \A n \in S \ {elm, tmp} : \A s \in Sides :
           /\ t.link[n][s] # tmp
           /\ r.link[n][s] = IF t.link[n][s] = elm THEN tmp ELSE t.link[n][s]
    /\ \A n \in Nodes :
           r.parent[n] = IF n = elm THEN tmp ELSE IF n = tmp THEN t.parent[elm]
                         ELSE IF n = t.link[tmp][d] THEN elm ELSE t.parent[n]

\* The assignments of a rotation, one after the other, and what they do.
RotateUp(t, elm, tmp, inner, p, o) ==
    SetParent(Replace(SetParent(PutLink(t, elm, o, inner), inner, elm), p, elm, tmp), tmp, p)
RotateAll(t, elm, tmp, inner, p, d, o) ==
    SetParent(PutLink(RotateUp(t, elm, tmp, inner, p, o), tmp, d, elm), elm, tmp)
RotateSet(t, r, elm, tmp, inner, p, d, o) ==
    /\ r \in Trees /\ ~r.fault /\ r.color = t.color
    /\ r.root = IF p = Null THEN tmp ELSE t.root
    /\ \A n \in Nodes, s \in Sides :
           r.link[n][s] = IF n = tmp /\ s = d THEN elm
                          ELSE IF n = p /\ s = LeftOrRight(t, p, elm) THEN tmp
                          ELSE IF n = elm /\ s = o THEN inner ELSE t.link[n][s]
    /\ \A n \in Nodes :
           r.parent[n] = IF n = elm THEN tmp ELSE IF n = tmp THEN p
                         ELSE IF n = inner THEN elm ELSE t.parent[n]

\* The assignments of a rotation do not undo each other.
LEMMA RotateAssignments ==
    ASSUME NEW t \in Trees, NEW elm \in Nodes, NEW tmp \in Nodes, NEW inner \in Links,
           NEW p \in Links, NEW d \in Sides, NEW o \in Sides, ~t.fault,
           o # d, tmp # elm, inner # elm, inner # tmp, p # elm, p # tmp
    PROVE  RotateSet(t, RotateAll(t, elm, tmp, inner, p, d, o), elm, tmp, inner, p, d, o)
<1> DEFINE t0 == PutLink(t, elm, o, inner)
           t1 == SetParent(t0, inner, elm)
           t2 == Replace(t1, p, elm, tmp)
           t3 == SetParent(t2, tmp, p)
           t4 == PutLink(t3, tmp, d, elm)
           r  == SetParent(t4, elm, tmp)
<1>a. /\ t0 = PutLink(t, elm, o, inner) /\ t1 = SetParent(t0, inner, elm)
      /\ t2 = Replace(t1, p, elm, tmp) /\ t3 = SetParent(t2, tmp, p)
      /\ t4 = PutLink(t3, tmp, d, elm) /\ r = SetParent(t4, elm, tmp)
  OBVIOUS
<1>b. RotateAll(t, elm, tmp, inner, p, d, o) = r
  BY DEF RotateAll, RotateUp
<1> HIDE DEF t0, t1, t2, t3, t4, r
<1>0. elm \in Links /\ tmp \in Links
  BY DEF Links
<1>1. LinkSet(t, t0, elm, o, inner) /\ t0 \in Trees
  <2>1. LinkSet(t, t0, elm, o, inner)
    BY <1>a, PutLinkIs
  <2> QED
    BY <2>1 DEF LinkSet
<1>2. ParentSet(t0, t1, inner, elm) /\ t1 \in Trees
  <2>1. ParentSet(t0, t1, inner, elm)
    BY <1>0, <1>a, <1>1, SetParentIs
  <2> QED
    BY <2>1 DEF ParentSet
<1>3. ChildSet(t1, t2, p, elm, tmp) /\ t2 \in Trees
  <2>1. ChildSet(t1, t2, p, elm, tmp)
    BY <1>0, <1>a, <1>2, ReplaceIs
  <2> QED
    BY <2>1 DEF ChildSet
<1>4. ParentSet(t2, t3, tmp, p) /\ t3 \in Trees
  <2>1. ParentSet(t2, t3, tmp, p)
    BY <1>0, <1>a, <1>3, SetParentIs
  <2> QED
    BY <2>1 DEF ParentSet
<1>5. LinkSet(t3, t4, tmp, d, elm) /\ t4 \in Trees
  <2>1. LinkSet(t3, t4, tmp, d, elm)
    BY <1>0, <1>a, <1>4, PutLinkIs
  <2> QED
    BY <2>1 DEF LinkSet
<1>6. ParentSet(t4, r, elm, tmp) /\ r \in Trees
  <2>1. ParentSet(t4, r, elm, tmp)
    BY <1>0, <1>a, <1>5, SetParentIs
  <2> QED
    BY <2>1 DEF ParentSet
<1>7. p \in Nodes => LeftOrRight(t1, p, elm) = LeftOrRight(t, p, elm)
  BY <1>1, <1>2, OtherSide DEF LeftOrRight, LinkSet, ParentSet
<1>8. \A n \in Nodes, s \in Sides :
           r.link[n][s] = IF n = tmp /\ s = d THEN elm
                          ELSE IF n = p /\ s = LeftOrRight(t, p, elm) THEN tmp
                          ELSE IF n = elm /\ s = o THEN inner ELSE t.link[n][s]
  BY <1>1, <1>2, <1>3, <1>4, <1>5, <1>6, <1>7 DEF LinkSet, ParentSet, ChildSet
<1>9. \A n \in Nodes :
           r.parent[n] = IF n = elm THEN tmp ELSE IF n = tmp THEN p
                         ELSE IF n = inner THEN elm ELSE t.parent[n]
  BY <1>1, <1>2, <1>3, <1>4, <1>5, <1>6 DEF LinkSet, ParentSet, ChildSet
<1> QED
  <2>1. r.color = t.color /\ ~r.fault /\ r.root = IF p = Null THEN tmp ELSE t.root
    BY <1>1, <1>2, <1>3, <1>4, <1>5, <1>6 DEF LinkSet, ParentSet, ChildSet
  <2> QED
    BY <1>b, <1>6, <1>8, <1>9, <2>1 DEF RotateSet

\* What RB_ROTATE_LEFT and RB_ROTATE_RIGHT do to a tree.
LEMMA RotateIs ==
    ASSUME NEW t, NEW S, NEW rank, NEW w, Shape(t, S, rank, w), NEW elm \in S, NEW d \in Sides,
           NEW tmp, tmp = t.link[elm][Other(d)], tmp # Null
    PROVE  IsRotated(t, Rotate(t, elm, d), S, elm, tmp, d)
<1> DEFINE inner == t.link[tmp][d]
           p  == t.parent[elm]
           o  == Other(d)
           r  == RotateAll(t, elm, tmp, inner, p, d, o)
<1>1. /\ o \in Sides /\ o # d /\ tmp \in S /\ tmp # elm /\ t.parent[tmp] = elm
      /\ elm \in Nodes /\ tmp \in Nodes /\ t \in Trees /\ ~t.fault
      /\ tmp \in w[elm] /\ elm \notin w[tmp]
  <2>1. o \in Sides /\ o # d
    BY OtherSide
  <2>2. tmp \in S /\ tmp # elm /\ t.parent[tmp] = elm /\ tmp \in w[elm] /\ elm \notin w[tmp]
    BY <2>1, ChildBelow
  <2> QED
    BY <2>1, <2>2 DEF Shape
<1>2. inner \in Links /\ inner # tmp /\ inner # elm
  <2>1. inner \in Links
    BY <1>1 DEF Shape, Links
  <2>2. inner # Null => inner # tmp /\ inner \in w[tmp]
    BY <1>1, ChildBelow
  <2> QED
    BY <1>1, <2>1, <2>2, TreeAssumption
<1>3. /\ p \in S \cup {Null} /\ p # elm /\ p # tmp
      /\ p = Null <=> elm = t.root
      /\ p # Null => t.link[p][LeftOrRight(t, p, elm)] = elm
  <2>1. p = Null <=> elm = t.root
    BY ParentIsNull
  <2>2. CASE p = Null
    BY <1>1, <2>1, <2>2, TreeAssumption
  <2>3. CASE p # Null
    <3>1. p \in S /\ \E s \in Sides : t.link[p][s] = elm
      BY <2>1, <2>3, ChildOfParent
    <3>2. PICK s \in Sides : t.link[p][s] = elm
      BY <3>1
    <3>3. p # elm /\ p \notin w[elm]
      BY <1>1, <3>1, <3>2, ChildBelow, TreeAssumption
    <3>4. p # tmp
      BY <1>1, <3>3
    <3>5. t.link[p][LeftOrRight(t, p, elm)] = elm
      BY <3>2, OtherSide DEF LeftOrRight
    <3> QED
      BY <2>1, <2>3, <3>1, <3>3, <3>4, <3>5
  <2> QED
    BY <2>2, <2>3
<1>4. \A n \in S \ {elm, tmp} : \A s \in Sides :
          t.link[n][s] # tmp /\ (t.link[n][s] = elm => n = p /\ s = LeftOrRight(t, p, elm))
  <2> SUFFICES ASSUME NEW n \in S \ {elm, tmp}, NEW s \in Sides
               PROVE  t.link[n][s] # tmp /\ (t.link[n][s] = elm => n = p /\ s = LeftOrRight(t, p, elm))
    OBVIOUS
  <2>1. t.link[n][s] # tmp
    BY <1>1, ChildBelow
  <2>2. ASSUME t.link[n][s] = elm PROVE n = p /\ s = LeftOrRight(t, p, elm)
    <3>1. n = p /\ elm # Null
      BY <1>1, <2>2, ChildBelow, TreeAssumption
    <3>2. t.link[n][Other(s)] # elm
      BY <1>1, <2>2, <3>1, ChildBelow
    <3>3. t.link[p][LeftOrRight(t, p, elm)] = elm /\ LeftOrRight(t, p, elm) \in Sides
      BY <1>3, <3>1, TreeAssumption, OtherSide DEF LeftOrRight, Shape
    <3> QED
      BY <3>1, <3>2, <3>3, OtherSide
  <2> QED
    BY <2>1, <2>2
<1>5. Rotate(t, elm, d) = r
  <2> DEFINE t0 == PutLink(t, elm, o, inner)
             t1 == SetParent(t0, inner, elm)
  <2>1. elm \in Links
    BY <1>1 DEF Links
  <2>2. LinkSet(t, t0, elm, o, inner)
    BY <1>1, <1>2, PutLinkIs
  <2>3. t0 \in Trees /\ t0.parent = t.parent
    BY <2>2 DEF LinkSet
  <2>4. t1 = SetParent(t0, inner, elm)
    OBVIOUS
  <2> HIDE DEF t0
  <2>5. ParentSet(t0, t1, inner, elm)
    BY <1>2, <2>1, <2>3, SetParentIs
  <2>6. t1.parent[elm] = p
    BY <1>1, <1>2, <2>3, <2>5 DEF ParentSet
  <2>7. Raise(t1, elm, tmp) = SetParent(Replace(t1, p, elm, tmp), tmp, p)
    BY <2>6 DEF Raise
  <2> QED
    BY <1>1, <2>7 DEF Rotate, RotateAll, RotateUp, PutLink, t0
<1>6. r = RotateAll(t, elm, tmp, inner, p, d, o)
  OBVIOUS
<1>7. inner = t.link[tmp][d] /\ p = t.parent[elm] /\ o = Other(d)
  OBVIOUS
<1> HIDE DEF r, inner, p, o
<1>8. S \subseteq Nodes /\ p \in Links
  BY <1>3 DEF Shape, Links
<1>9. RotateSet(t, r, elm, tmp, inner, p, d, o)
  BY <1>1, <1>2, <1>3, <1>6, <1>8, RotateAssignments
<1>10. r.root = IF t.root = elm THEN tmp ELSE t.root
  BY <1>3, <1>9 DEF RotateSet
<1>11. ASSUME NEW n \in S \ {elm, tmp}, NEW s \in Sides
       PROVE  /\ t.link[n][s] # tmp
              /\ r.link[n][s] = IF t.link[n][s] = elm THEN tmp ELSE t.link[n][s]
  <2>1. n \in Nodes
    BY <1>8
  <2>2. r.link[n][s] = IF n = p /\ s = LeftOrRight(t, p, elm) THEN tmp ELSE t.link[n][s]
    BY <1>9, <2>1 DEF RotateSet
  <2>3. n = p => p # Null
    BY <2>1, TreeAssumption
  <2> QED
    BY <1>3, <1>4, <2>2, <2>3
<1>12. /\ r.link[elm][d] = t.link[elm][d] /\ r.link[elm][o] = inner
       /\ r.link[tmp][d] = elm /\ r.link[tmp][o] = t.link[tmp][o]
  BY <1>1, <1>3, <1>9 DEF RotateSet
<1>13. IsRotated(t, r, S, elm, tmp, d)
  BY <1>7, <1>9, <1>10, <1>11, <1>12 DEF IsRotated, RotateSet
<1> QED
  BY <1>5, <1>13

\* The subtrees after a rotation.
RotatedSub(t, w, elm, tmp, d) ==
    [w EXCEPT ![tmp] = w[elm], ![elm] = {elm} \cup w[t.link[elm][d]] \cup w[t.link[tmp][d]]]

\* A rotation keeps the elements of the tree and their order.
LEMMA RotateShape ==
    ASSUME NEW t, NEW S, NEW rank, NEW w, Shape(t, S, rank, w), NEW elm \in S, NEW d \in Sides,
           NEW tmp, tmp = t.link[elm][Other(d)], tmp # Null,
           NEW r, IsRotated(t, r, S, elm, tmp, d)
    PROVE  Shape(r, S, rank, RotatedSub(t, w, elm, tmp, d))
<1> DEFINE low   == t.link[elm][d]
           inner == t.link[tmp][d]
           outer == t.link[tmp][Other(d)]
           o     == Other(d)
           v     == RotatedSub(t, w, elm, tmp, d)
<1>1. /\ o \in Sides /\ o # d /\ tmp \in S /\ tmp # elm /\ t.parent[tmp] = elm
      /\ tmp \in w[elm] /\ elm \notin w[tmp] /\ low # tmp
      /\ \A x \in w[tmp] : x \notin w[low]
  <2>1. o \in Sides /\ o # d /\ Other(o) = d
    BY OtherSide
  <2>2. /\ tmp \in S /\ tmp # elm /\ t.parent[tmp] = elm /\ tmp \in w[elm] /\ elm \notin w[tmp]
        /\ t.link[elm][Other(o)] # tmp
        /\ \A x \in w[tmp] : x \notin w[t.link[elm][Other(o)]]
    BY <2>1, ChildBelow
  <2> QED
    BY <2>1, <2>2
<1>2. /\ low \in S \cup {Null} /\ inner \in S \cup {Null} /\ outer \in S \cup {Null}
      /\ S \subseteq Nodes /\ elm \in Nodes /\ tmp \in Nodes /\ elm # Null
      /\ \A n \in S : n # Null
      /\ low # elm /\ inner # tmp /\ outer # tmp /\ inner # elm /\ outer # elm
  <2>1. /\ low \in S \cup {Null} /\ inner \in S \cup {Null} /\ outer \in S \cup {Null}
        /\ S \subseteq Nodes
    BY <1>1 DEF Shape
  <2>2. \A n \in S : n # Null
    BY <2>1, TreeAssumption
  <2>3. low # elm
    BY <2>1, <2>2, ChildBelow
  <2>4. inner # Null => inner # tmp /\ inner \in w[tmp]
    BY <1>1, ChildBelow
  <2>5. outer # Null => outer # tmp /\ outer \in w[tmp]
    BY <1>1, ChildBelow
  <2> QED
    BY <1>1, <2>1, <2>2, <2>3, <2>4, <2>5
<1>3. /\ w \in [Links -> SUBSET S] /\ v \in [Links -> SUBSET S]
      /\ v[tmp] = w[elm] /\ v[elm] = {elm} \cup w[low] \cup w[inner]
      /\ \A n \in Links : n # elm /\ n # tmp => v[n] = w[n]
  <2>1. w \in [Links -> SUBSET S] /\ elm \in Links /\ tmp \in Links /\ low \in Links /\ inner \in Links
    BY <1>2 DEF Shape, Links
  <2>2. w[elm] \in SUBSET S /\ {elm} \cup w[low] \cup w[inner] \in SUBSET S
    BY <2>1
  <2> HIDE DEF low, inner
  <2> QED
    BY <1>1, <2>1, <2>2 DEF RotatedSub, low, inner
<1>4. /\ \A x : x \in w[elm] <=> x = elm \/ x \in w[low] \/ x \in w[tmp]
      /\ \A x : x \in w[tmp] <=> x = tmp \/ x \in w[inner] \/ x \in w[outer]
  <2>1. \A n \in S : \A x : x \in w[n] <=> x = n \/ x \in w[t.link[n][d]] \/ x \in w[t.link[n][o]]
    BY <1>1, OtherSide DEF Shape, Sides
  <2> QED
    BY <1>1, <2>1
<1>5. /\ low \in Links /\ inner \in Links /\ outer \in Links /\ Null \in Links
      /\ v[low] = w[low] /\ v[inner] = w[inner] /\ v[outer] = w[outer] /\ v[Null] = w[Null]
      /\ elm \in Links /\ tmp \in Links
  BY <1>1, <1>2, <1>3 DEF Links
<1>6. /\ r.link[elm][d] = low /\ r.link[elm][o] = inner
      /\ r.link[tmp][d] = elm /\ r.link[tmp][o] = outer
  BY DEF IsRotated
<1>7. ASSUME NEW n \in S \ {elm, tmp}, NEW s \in Sides
      PROVE  /\ t.link[n][s] \in S \cup {Null} /\ t.link[n][s] # tmp
             /\ r.link[n][s] = IF t.link[n][s] = elm THEN tmp ELSE t.link[n][s]
             /\ v[r.link[n][s]] = w[t.link[n][s]] /\ v[n] = w[n]
  <2>1. t.link[n][s] \in S \cup {Null} /\ n \in Links /\ t.link[n][s] \in Links
    BY <1>2 DEF Shape, Links
  <2>2. t.link[n][s] # tmp /\ r.link[n][s] = IF t.link[n][s] = elm THEN tmp ELSE t.link[n][s]
    BY DEF IsRotated
  <2> QED
    BY <1>3, <2>1, <2>2
<1>8. r \in Trees /\ ~r.fault /\ S \subseteq Nodes /\ rank \in [Nodes -> Int]
  BY DEF IsRotated, Shape
<1>9. r.root \in S \cup {Null} /\ v[Null] = {} /\ v[r.root] = S
  <2>1. r.root = IF t.root = elm THEN tmp ELSE t.root
    BY DEF IsRotated
  <2>2. t.root \in S \cup {Null} /\ t.root \in Links /\ w[Null] = {} /\ w[t.root] = S
    BY <1>2 DEF Shape, Links
  <2>3. t.root # tmp
    <3>1. w[tmp] # S
      BY <1>1
    <3> QED
      BY <2>2, <3>1
  <2> QED
    BY <1>1, <1>3, <1>5, <2>1, <2>2, <2>3
<1> HIDE DEF low, inner, outer, v
<1>10. ASSUME NEW n \in S, NEW s \in Sides PROVE r.link[n][s] \in S \cup {Null}
  <2>1. s = d \/ s = o
    BY OtherSide
  <2> QED
    BY <1>1, <1>2, <1>6, <1>7, <2>1
<1>11. ASSUME NEW n \in S PROVE \A x : x \in v[n] <=> x = n \/ x \in v[r.link[n]["left"]] \/ x \in v[r.link[n]["right"]]
  <2>1. \A x : x \in v[n] <=> x = n \/ x \in v[r.link[n][d]] \/ x \in v[r.link[n][o]]
    <3>1. CASE n = elm
      BY <1>3, <1>5, <1>6, <3>1
    <3>2. CASE n = tmp
      BY <1>1, <1>3, <1>4, <1>5, <1>6, <3>2
    <3>3. CASE n \notin {elm, tmp}
      <4>1. \A x : x \in w[n] <=> x = n \/ x \in w[t.link[n][d]] \/ x \in w[t.link[n][o]]
        BY <1>1, OtherSide DEF Shape, Sides
      <4>2. v[n] = w[n] /\ v[r.link[n][d]] = w[t.link[n][d]] /\ v[r.link[n][o]] = w[t.link[n][o]]
        BY <1>1, <1>7, <3>3
      <4> QED
        BY <4>1, <4>2
    <3> QED
      BY <3>1, <3>2, <3>3
  <2> QED
    BY <1>1, <2>1, OtherSide DEF Sides
<1>12. \A x, y, z \in Nodes, s \in Sides : Before(rank, s, x, y) /\ Before(rank, s, y, z) => Before(rank, s, x, z)
  BY <1>8 DEF Before
<1>13. \A x, y \in Nodes : Before(rank, d, x, y) <=> Before(rank, o, y, x)
  BY <1>1, <1>8 DEF Before, Other, Sides
<1>14. ASSUME NEW n \in S, NEW s \in Sides, NEW x \in v[r.link[n][s]] PROVE Before(rank, s, x, n)
  <2>1. x \in Nodes
    BY <1>3, <1>10 DEF Links, Shape
  <2>2. /\ \A y \in w[low] : Before(rank, d, y, elm)
        /\ \A y \in w[tmp] : Before(rank, o, y, elm)
        /\ \A y \in w[inner] : Before(rank, d, y, tmp)
        /\ \A y \in w[outer] : Before(rank, o, y, tmp)
    BY <1>1 DEF Shape, low, inner, outer
  <2>3. CASE n = elm /\ s = d
    BY <1>5, <1>6, <2>2, <2>3
  <2>4. CASE n = elm /\ s = o
    BY <1>4, <1>5, <1>6, <2>2, <2>4
  <2>5. CASE n = tmp /\ s = d
    <3>1. tmp \in w[tmp] /\ Before(rank, d, elm, tmp)
      BY <1>2, <1>4, <1>13, <2>2
    <3>2. x = elm \/ x \in w[low] \/ x \in w[inner]
      BY <1>3, <1>6, <2>5
    <3> QED
      BY <1>1, <1>2, <1>12, <2>1, <2>2, <2>5, <3>1, <3>2
  <2>6. CASE n = tmp /\ s = o
    BY <1>5, <1>6, <2>2, <2>6
  <2>7. CASE n \notin {elm, tmp}
    <3>1. x \in w[t.link[n][s]]
      BY <1>7, <2>7
    <3> QED
      BY <3>1 DEF Shape
  <2> QED
    BY <2>3, <2>4, <2>5, <2>6, <2>7, OtherSide
<1>15. ASSUME NEW n \in S, NEW s \in Sides, r.link[n][s] # Null PROVE r.parent[r.link[n][s]] = n
  <2>0. \A m \in Nodes :
           r.parent[m] = IF m = elm THEN tmp ELSE IF m = tmp THEN t.parent[elm]
                         ELSE IF m = inner THEN elm ELSE t.parent[m]
    BY DEF IsRotated, inner
  <2>1. CASE n = elm /\ s = d
    <3>1. low # Null /\ low \in Nodes /\ t.parent[low] = elm
      BY <1>2, <1>6, <1>15, <2>1 DEF Shape, low
    <3>2. low # inner
      <4>1. low \in w[low]
        BY <1>2, <3>1 DEF Shape
      <4>2. low = inner => low \in w[tmp]
        BY <1>4, <4>1
      <4> QED
        BY <1>1, <4>1, <4>2 DEF low
    <3> QED
      BY <1>1, <1>2, <1>6, <2>0, <2>1, <3>1, <3>2 DEF low
  <2>2. CASE n = elm /\ s = o
    BY <1>2, <1>6, <1>15, <2>0, <2>2
  <2>3. CASE n = tmp /\ s = d
    BY <1>2, <1>6, <2>0, <2>3
  <2>4. CASE n = tmp /\ s = o
    <3>1. outer # Null /\ outer \in Nodes /\ t.parent[outer] = tmp
      BY <1>1, <1>2, <1>6, <1>15, <2>4 DEF Shape, outer
    <3>2. outer # inner
      BY <1>1, <3>1, ChildBelow DEF outer, inner
    <3> QED
      BY <1>1, <1>2, <1>6, <2>0, <2>4, <3>1, <3>2
  <2>5. CASE n \notin {elm, tmp}
    <3> DEFINE m == t.link[n][s]
    <3>1. m # Null /\ m \in S /\ t.parent[m] = n /\ m # tmp
      BY <1>2, <1>7, <1>15, <2>5 DEF Shape
    <3>2. m # inner
      <4>1. inner # Null => t.parent[inner] = tmp
        BY <1>1 DEF Shape, inner
      <4> QED
        BY <2>5, <3>1, <4>1
    <3>3. r.link[n][s] = IF m = elm THEN tmp ELSE m
      BY <1>7, <2>5
    <3> HIDE DEF m
    <3> QED
      BY <1>1, <1>2, <2>0, <3>1, <3>2, <3>3
  <2> QED
    BY <2>1, <2>2, <2>3, <2>4, <2>5, OtherSide
<1>16. r.root # Null => r.parent[r.root] = Null
  <2>1. r.root = IF t.root = elm THEN tmp ELSE t.root
    BY DEF IsRotated
  <2>2. \A m \in Nodes :
           r.parent[m] = IF m = elm THEN tmp ELSE IF m = tmp THEN t.parent[elm]
                         ELSE IF m = inner THEN elm ELSE t.parent[m]
    BY DEF IsRotated, inner
  <2>3. t.root # Null /\ t.root \in S /\ t.parent[t.root] = Null
    BY DEF Shape
  <2>4. inner # Null => t.parent[inner] = tmp
    BY <1>1 DEF Shape, inner
  <2> QED
    BY <1>1, <1>2, <2>1, <2>2, <2>3, <2>4
<1>17. Shape(r, S, rank, v)
  BY <1>3, <1>8, <1>9, <1>10, <1>11, <1>14, <1>15, <1>16 DEF Shape
<1> QED
  BY <1>17 DEF v

-----------------------------------------------------------------------------
(* RB_FIND, and the descent of RB_INSERT.                                  *)

\* The fields of a cursor.
LEMMA CursorIs ==
    ASSUME NEW t \in Trees, NEW at \in Links, NEW up \in Links
    PROVE  /\ Cursor(t, at, up) \in Cursors
           /\ Cursor(t, at, up).t = t /\ Cursor(t, at, up).at = at /\ Cursor(t, at, up).up = up
  BY DEF Cursor, Cursors

-----------------------------------------------------------------------------
(* The way down to a key.                                                  *)

DescentGoes(key, k, c) == ~c.t.fault /\ (c.at # Null /\ Cmp(k, key[c.at]) # 0)
DescentStep(key, k, c) ==
    IF DescentGoes(key, k, c) THEN Cursor(c.t, c.t.link[c.at][Side(key, k, c.at)], c.at) ELSE c
DescentEnd(key, k, c)  == IF DescentGoes(key, k, c) THEN Faulty(c) ELSE c

\* After i turns: the cursor is at the place below up where k would be, up is
\* on the side of k of every element above it, the element with key k, if
\* there is one, is below, and one element less remains with every turn.
OnTheWay(t, S, w, key, k, c, i) ==
    /\ c \in Cursors /\ c.t = t
    /\ c.at \in S \cup {Null}
    /\ \/ c.up = Null /\ c.at = t.root
       \/ c.up \in S /\ c.at = t.link[c.up][Side(key, k, c.up)] /\ Cmp(k, key[c.up]) # 0
    /\ \A a \in S, s \in Sides : c.up \in w[t.link[a][s]] => s = Side(key, k, a) /\ Cmp(k, key[a]) # 0
    /\ \A n \in S : key[n] = k => n \in w[c.at]
    /\ DescentGoes(key, k, c) => Weight(w, c.at) + i <= Size

\* Every element is below the root.
LEMMA RootAbove ==
    ASSUME NEW t, NEW S, NEW rank, NEW w, Shape(t, S, rank, w), NEW a \in S, NEW s \in Sides
    PROVE  t.root \notin w[t.link[a][s]]
<1> SUFFICES ASSUME t.root \in w[t.link[a][s]] PROVE FALSE
  OBVIOUS
<1> DEFINE m == t.link[a][s]
<1>1. m # Null /\ t.root # Null
  BY TreeAssumption DEF Shape, Links
<1>2. m \in S /\ t.root \in S /\ t.parent[t.root] = Null /\ t.parent[m] = a
  BY <1>1 DEF Shape
<1>3. a # Null
  BY TreeAssumption DEF Shape
<1>4. t.root # m
  BY <1>2, <1>3
<1>5. PICK p \in w[m], d \in Sides : t.link[p][d] = t.root
  BY <1>2, <1>4, ParentBelow
<1>6. p \in S /\ p # Null
  BY <1>2, <1>5, TreeAssumption DEF Shape, Links
<1>7. t.parent[t.root] = p
  BY <1>1, <1>5, <1>6 DEF Shape
<1> QED
  BY <1>2, <1>6, <1>7

\* A turn of the descent of RB_FIND and RB_INSERT keeps the key in sight.
LEMMA DescentTurn ==
    ASSUME NEW t, NEW S, NEW rank, NEW w, Shape(t, S, rank, w), NEW key, Ranks(rank, key, S),
           NEW k, NEW c, NEW i \in Nat, OnTheWay(t, S, w, key, k, c, i)
    PROVE  OnTheWay(t, S, w, key, k, DescentStep(key, k, c), i + 1)
<1>1. CASE ~DescentGoes(key, k, c)
  BY <1>1 DEF DescentStep, OnTheWay
<1>2. CASE DescentGoes(key, k, c)
  <2> DEFINE at == c.at
             sd == Side(key, k, at)
             m  == t.link[at][sd]
             e  == DescentStep(key, k, c)
  <2>1. at \in S /\ Cmp(k, key[at]) # 0 /\ sd \in Sides
    BY <1>2 DEF DescentGoes, OnTheWay, Side, Sides
  <2>2. m \in S \cup {Null} /\ t \in Trees /\ S \subseteq Nodes
    BY <2>1 DEF Shape
  <2>3. e = Cursor(t, m, at)
    BY <1>2 DEF DescentStep, OnTheWay
  <2>4. e \in Cursors /\ e.t = t /\ e.at = m /\ e.up = at
    BY <2>1, <2>2, <2>3, CursorIs DEF Links
  <2>5. ASSUME NEW a \in S, NEW s \in Sides, at \in w[t.link[a][s]]
        PROVE  s = Side(key, k, a) /\ Cmp(k, key[a]) # 0
    <3> DEFINE b == t.link[a][s]
    <3>0. at # Null /\ b # Null
      BY <2>1, <2>2, <2>5, TreeAssumption DEF Shape
    <3>1. c.up \in S /\ at = t.link[c.up][Side(key, k, c.up)] /\ Cmp(k, key[c.up]) # 0
      BY <2>5, RootAbove DEF OnTheWay
    <3>2. Side(key, k, c.up) \in Sides
      BY DEF Side, Sides
    <3>3. t.parent[at] = c.up /\ t.link[c.up][Other(Side(key, k, c.up))] # at
      BY <3>0, <3>1, <3>2, ChildBelow
    <3>4. CASE at = b
      <4>1. a = c.up
        BY <3>0, <3>3, <3>4 DEF Shape
      <4>2. s = Side(key, k, c.up)
        BY <3>2, <3>3, <3>4, <4>1, OtherSide
      <4> QED
        BY <3>1, <4>1, <4>2
    <3>5. CASE at # b
      <4>1. b \in S
        BY <3>0 DEF Shape
      <4>2. PICK p \in w[b], d \in Sides : t.link[p][d] = at
        BY <2>5, <3>5, <4>1, ParentBelow
      <4>3. p \in S
        BY <2>2, <4>1, <4>2 DEF Shape, Links
      <4>4. p = c.up
        BY <3>0, <3>3, <4>2, <4>3 DEF Shape
      <4> QED
        BY <4>2, <4>4 DEF OnTheWay
    <3> QED
      BY <3>4, <3>5
  <2>6. ASSUME NEW n \in S, key[n] = k PROVE n \in w[m]
    <3>1. n \in w[at]
      BY <2>6 DEF OnTheWay
    <3>2. n # at
      BY <2>1, <2>6 DEF Ranks
    <3>3. n \in w[t.link[at]["left"]] \/ n \in w[t.link[at]["right"]]
      BY <2>1, <3>1, <3>2 DEF Shape
    <3>4. /\ n \in w[t.link[at]["left"]] => Before(rank, "left", n, at)
          /\ n \in w[t.link[at]["right"]] => Before(rank, "right", n, at)
      BY <2>1, OtherSide DEF Shape
    <3>5. Cmp(k, key[at]) < 0 <=> rank[n] < rank[at]
      BY <2>1, <2>6 DEF Ranks
    <3>6. rank[n] \in Int /\ rank[at] \in Int
      BY <2>1, <2>2 DEF Shape
    <3> QED
      BY <3>3, <3>4, <3>5, <3>6 DEF Before, Side
  <2>7. Weight(w, m) + (i + 1) <= Size
    <3>1. Weight(w, at) + i <= Size
      BY <1>2 DEF OnTheWay
    <3>2. Weight(w, m) < Weight(w, at)
      BY <2>1, ChildWeight
    <3>3. Weight(w, m) \in Nat /\ Weight(w, at) \in Nat /\ Size \in Nat
      BY <2>1, <2>2, WeightType, SizeType
    <3> QED
      BY <3>1, <3>2, <3>3
  <2> HIDE DEF e, m, sd
  <2>8. OnTheWay(t, S, w, key, k, e, i + 1)
    BY <2>1, <2>2, <2>4, <2>5, <2>6, <2>7 DEF OnTheWay, m, sd
  <2> QED
    BY <2>8 DEF e
<1> QED
  BY <1>1, <1>2

\* The turns of a descent.
LEMMA DescentLoop ==
    ASSUME NEW t, NEW S, NEW rank, NEW w, Shape(t, S, rank, w), NEW key,
           Ranks(rank, key, S), NEW k, NEW c, c = Cursor(t, t.root, Null),
           OnTheWay(t, S, w, key, k, c, 0)
    PROVE  \E e : OnTheWay(t, S, w, key, k, e, Size) /\ Descent(t, key, k) = DescentEnd(key, k, e)
<1> DEFINE n == Size
           s[i \in 0 .. n] == IF i = 0 THEN c ELSE DescentStep(key, k, s[i - 1])
           G == {x \in Cursors : \E i \in Nat : OnTheWay(t, S, w, key, k, x, i)}
           F == [x \in G |-> DescentStep(key, k, x)]
<1>0. \A x : \A i \in Nat : OnTheWay(t, S, w, key, k, x, i) => OnTheWay(t, S, w, key, k, DescentStep(key, k, x), i + 1)
  BY DescentTurn
<1>1. \A x \in G : DescentStep(key, k, x) \in G
  <2>1. \A x : \A i \in Nat : OnTheWay(t, S, w, key, k, x, i) => x \in Cursors
    BY DEF OnTheWay
  <2>2. \A i \in Nat : i + 1 \in Nat
    OBVIOUS
  <2> QED
    BY <1>0, <2>1, <2>2, Zenon
<1>2. F \in [G -> G] /\ \A x \in G : F[x] = DescentStep(key, k, x)
  BY <1>1
<1>3. Descent(t, key, k) = DescentEnd(key, k, s[n])
  BY DEF Descent, Loop, Turn, Goes, Ended, DescentStep, DescentEnd, DescentGoes
<1>4. n \in Nat /\ c \in G
  BY SizeType DEF OnTheWay
<1> HIDE DEF F, G, n
<1>5. \E g : g = [i \in 0 .. n |-> IF i = 0 THEN c ELSE DescentStep(key, k, g[i - 1])]
  <2>1. PICK g : IsRun(g, G, F, c, n)
    BY <1>2, <1>4, RunExists
  <2>2. ASSUME NEW i \in 0 .. n
        PROVE  g[i] = IF i = 0 THEN c ELSE DescentStep(key, k, g[i - 1])
    BY <1>2, <1>4, <2>1 DEF IsRun
  <2>3. g = [i \in 0 .. n |-> IF i = 0 THEN c ELSE DescentStep(key, k, g[i - 1])]
    BY <2>1, <2>2 DEF IsRun
  <2> QED
    BY <2>3
<1>6. s = [i \in 0 .. n |-> IF i = 0 THEN c ELSE DescentStep(key, k, s[i - 1])]
  BY <1>5
<1> HIDE DEF s
<1>7. s[0] = c /\ \A i \in 0 .. n - 1 : s[i + 1] = DescentStep(key, k, s[i])
  BY <1>4, <1>6
<1> DEFINE P == {i \in 0 .. n : OnTheWay(t, S, w, key, k, s[i], i)}
<1>8. 0 \in P
  BY <1>4, <1>7
<1>9. ASSUME NEW i \in 0 .. n - 1, i \in P PROVE i + 1 \in P
  <2>1. OnTheWay(t, S, w, key, k, s[i], i) /\ i \in Nat /\ i + 1 \in 0 .. n
    BY <1>4, <1>9
  <2>2. OnTheWay(t, S, w, key, k, DescentStep(key, k, s[i]), i + 1)
    BY <1>0, <2>1
  <2> QED
    BY <1>7, <2>1, <2>2
<1> HIDE DEF P
<1>10. 0 .. n \subseteq P
  BY <1>4, <1>8, <1>9, UpTo
<1>11. OnTheWay(t, S, w, key, k, s[n], n)
  BY <1>4, <1>10 DEF P
<1> QED
  BY <1>3, <1>11 DEF n

\* What a descent leaves.
LEMMA DescentIs ==
    ASSUME NEW t, NEW S, NEW rank, NEW w, Shape(t, S, rank, w), NEW key, Ranks(rank, key, S), NEW k
    PROVE  LET c == Descent(t, key, k) IN
           /\ OnTheWay(t, S, w, key, k, c, Size) /\ ~c.t.fault
           /\ c.at # Null => c.at \in S /\ Cmp(k, key[c.at]) = 0
<1> DEFINE c == Cursor(t, t.root, Null)
<1>1. t \in Trees /\ ~t.fault /\ t.root \in S \cup {Null} /\ S \subseteq Nodes
  BY DEF Shape
<1>2. c \in Cursors /\ c.t = t /\ c.at = t.root /\ c.up = Null
  BY <1>1, CursorIs DEF Links
<1>3. OnTheWay(t, S, w, key, k, c, 0)
  <2>1. Weight(w, t.root) <= Size /\ Weight(w, t.root) \in Nat
    BY <1>1, WeightType, SizeType
  <2>2. \A a \in S, s \in Sides : Null \notin w[t.link[a][s]]
    BY <1>1, TreeAssumption DEF Shape, Links
  <2>3. w[t.root] = S
    BY DEF Shape
  <2> HIDE DEF c
  <2> QED
    BY <1>1, <1>2, <2>1, <2>2, <2>3 DEF OnTheWay
<1> HIDE DEF c
<1>4. PICK e : OnTheWay(t, S, w, key, k, e, Size) /\ Descent(t, key, k) = DescentEnd(key, k, e)
  BY <1>3, DescentLoop DEF c
<1>5. ~DescentGoes(key, k, e)
  <2> SUFFICES ASSUME DescentGoes(key, k, e) PROVE FALSE
    OBVIOUS
  <2>1. e.at \in S /\ Weight(w, e.at) + Size <= Size
    BY <1>4 DEF OnTheWay, DescentGoes
  <2>2. Weight(w, e.at) # 0 /\ Weight(w, e.at) \in Nat
    BY <1>1, <2>1, WeightType, TreeAssumption
  <2> QED
    BY <2>1, <2>2, SizeType
<1> QED
  BY <1>1, <1>4, <1>5 DEF DescentEnd, DescentGoes, OnTheWay

\* RB_FIND returns the element with the key, and NULL if there is none.
LEMMA FindIs ==
    ASSUME NEW t, NEW S, NEW rank, NEW w, Shape(t, S, rank, w), NEW key \in [Nodes -> Addresses],
           Ranks(rank, key, S), NEW k \in Addresses
    PROVE  /\ Find(t, key, k) \in S \cup {Null}
           /\ \A n \in S : Find(t, key, k) = n <=> key[n] = k
<1> DEFINE c == Descent(t, key, k)
<1>1. /\ OnTheWay(t, S, w, key, k, c, Size) /\ ~c.t.fault
      /\ c.at # Null => c.at \in S /\ Cmp(k, key[c.at]) = 0
  BY DescentIs
<1>2. Find(t, key, k) = c.at
  BY <1>1 DEF Find, Found
<1> HIDE DEF c
<1>3. S \subseteq Nodes /\ w[Null] = {}
  BY DEF Shape
<1>4. c.at \in S => key[c.at] = k
  BY <1>1, <1>3, CmpZero, TreeAssumption
<1>5. c.at \in S \cup {Null}
  BY <1>1 DEF OnTheWay
<1>6. ASSUME NEW n \in S, key[n] = k PROVE c.at = n
  <2>1. n \in w[c.at]
    BY <1>1, <1>6 DEF OnTheWay
  <2>2. c.at \in S
    BY <1>3, <1>5, <2>1
  <2>3. key[n] = key[c.at]
    BY <1>4, <1>6, <2>2
  <2>4. Cmp(key[n], key[n]) = 0
    BY DEF Ranks
  <2> QED
    BY <2>2, <2>3, <2>4 DEF Ranks
<1> QED
  BY <1>2, <1>4, <1>5, <1>6

-----------------------------------------------------------------------------
(* The order of the elements.                                              *)

\* An element that is not in a subtree is before or after all of it.
LEMMA Apart ==
    ASSUME NEW t, NEW S, NEW rank, NEW w, Shape(t, S, rank, w), NEW a \in S, NEW x \in S, x \notin w[a]
    PROVE  (\A y \in w[a] : rank[x] < rank[y]) \/ (\A y \in w[a] : rank[y] < rank[x])
<1> DEFINE Holds(b) == (\A y \in w[b] : rank[x] < rank[y]) \/ (\A y \in w[b] : rank[y] < rank[x])
           Q == {b \in S : x \notin w[b] /\ ~Holds(b)}
           T == {Size - Weight(w, b) : b \in Q}
<1> SUFFICES ASSUME ~Holds(a) PROVE FALSE
  OBVIOUS
<1>1. T \in SUBSET Nat /\ T # {}
  <2>1. a \in Q
    OBVIOUS
  <2>2. \A b \in S : Size - Weight(w, b) \in Nat
    BY WeightType, SizeType
  <2> HIDE DEF Holds
  <2> QED
    BY <2>1, <2>2
<1>2. PICK k \in T : \A y \in T : k <= y
  BY <1>1, LeastNat, Zenon
<1>3. PICK b \in Q : Size - Weight(w, b) = k
  BY <1>2
<1>4. b \in S /\ x \notin w[b] /\ ~Holds(b)
  BY <1>3
<1>5. S \subseteq Nodes /\ rank \in [Nodes -> Int] /\ \A n \in S : w[n] \subseteq S /\ n # Null /\ n \in w[n]
  BY TreeAssumption DEF Shape, Links
<1>6. b # t.root
  BY <1>4 DEF Shape
<1>7. PICK p \in S, d \in Sides : t.link[p][d] = b
  BY <1>4, <1>6, ChildOfParent
<1>8. w[b] \subseteq w[p] /\ Weight(w, b) < Weight(w, p)
  BY <1>4, <1>5, <1>7, ChildBelow, ChildWeight
<1>9. ~Holds(p)
  BY <1>4, <1>8
<1>10. CASE x \notin w[p]
  <2>1. p \in Q
    BY <1>9, <1>10
  <2> HIDE DEF Q
  <2>2. k <= Size - Weight(w, p)
    BY <1>2, <2>1
  <2>3. Weight(w, b) \in Nat /\ Weight(w, p) \in Nat /\ Size \in Nat
    BY <1>4, WeightType, SizeType
  <2> QED
    BY <1>3, <1>8, <2>2, <2>3
<1>11. CASE x \in w[p]
  <2>0. \A y \in w[b] : Before(rank, d, y, p)
    BY <1>7 DEF Shape
  <2>1. x = p \/ x \in w[t.link[p][Other(d)]]
    BY <1>4, <1>7, <1>11, OtherSide DEF Shape, Other, Sides
  <2>2. x \in w[t.link[p][Other(d)]] => Before(rank, Other(d), x, p)
    BY OtherSide DEF Shape
  <2>3. Holds(b)
    <3>1. d = "left" \/ d = "right"
      BY DEF Sides
    <3>2. \A y \in w[b] : rank[y] \in Int
      BY <1>4, <1>5
    <3>3. rank[x] \in Int /\ rank[p] \in Int
      BY <1>5
    <3> QED
      BY <2>0, <2>1, <2>2, <3>1, <3>2, <3>3 DEF Before, Other
  <2> QED
    BY <1>4, <2>3
<1> QED
  BY <1>10, <1>11

OutermostGoes(d, c) == ~c.t.fault /\ c.t.link[c.at][d] # Null
OutermostStep(d, c) == IF OutermostGoes(d, c) THEN [c EXCEPT !.at = c.t.link[c.at][d]] ELSE c
OutermostEnd(d, c)  == IF OutermostGoes(d, c) THEN Faulty(c) ELSE c

\* After i turns to the left from elm, what is not below comes later.
LeftWay(t, S, rank, w, elm, c, i) ==
    /\ c \in Cursors /\ c.t = t /\ c.at \in S /\ w[c.at] \subseteq w[elm]
    /\ \A x \in w[elm] : x \in w[c.at] \/ rank[c.at] < rank[x]
    /\ OutermostGoes("left", c) => Weight(w, c.at) + i <= Size

\* A turn to the left keeps the first element of the subtree below the cursor.
LEMMA LeftTurn ==
    ASSUME NEW t, NEW S, NEW rank, NEW w, Shape(t, S, rank, w), NEW elm \in S,
           NEW c, NEW i \in Nat, LeftWay(t, S, rank, w, elm, c, i)
    PROVE  LeftWay(t, S, rank, w, elm, OutermostStep("left", c), i + 1)
<1>1. CASE ~OutermostGoes("left", c)
  BY <1>1 DEF OutermostStep, LeftWay
<1>2. CASE OutermostGoes("left", c)
  <2> DEFINE at == c.at
             m  == t.link[at]["left"]
             e  == OutermostStep("left", c)
  <2>1. at \in S /\ m # Null /\ "left" \in Sides /\ c.t = t /\ c \in Cursors
    BY <1>2 DEF OutermostGoes, LeftWay, Sides
  <2>2. m \in S /\ m \in w[m] /\ w[m] \subseteq w[at] /\ Weight(w, m) < Weight(w, at)
    BY <2>1, ChildBelow, ChildWeight
  <2>3. e = [c EXCEPT !.at = m]
    BY <1>2, <2>1 DEF OutermostStep
  <2>4. m \in Links /\ S \subseteq Nodes
    BY <2>2 DEF Shape, Links
  <2>5. e \in Cursors /\ e.t = t /\ e.at = m
    <3> HIDE DEF m, e
    <3> QED
      BY <2>1, <2>3, <2>4 DEF Cursors
  <2>6. elm \in Nodes /\ \A x \in w[elm] : x \in Nodes
    BY <2>4 DEF Shape, Links
  <2>7. w[m] \subseteq w[elm] /\ \A x \in w[elm] : x \in w[m] \/ rank[m] < rank[x]
    <3>1. rank[m] < rank[at]
      BY <2>1, <2>2 DEF Shape, Before
    <3>2. \A x \in w[t.link[at]["right"]] : rank[at] < rank[x]
      BY <2>1, OtherSide DEF Shape, Before
    <3>3. \A x \in w[elm] : x \in w[at] \/ rank[at] < rank[x]
      BY DEF LeftWay
    <3>4. \A x : x \in w[at] => x = at \/ x \in w[m] \/ x \in w[t.link[at]["right"]]
      BY <2>1 DEF Shape
    <3>5. rank \in [Nodes -> Int] /\ m \in Nodes /\ at \in Nodes
      BY <2>1, <2>2, <2>4 DEF Shape
    <3> HIDE DEF m
    <3>6. \A x \in w[elm] : x \in w[m] \/ rank[m] < rank[x]
      BY <2>6, <3>1, <3>2, <3>3, <3>4, <3>5
    <3>7. w[m] \subseteq w[elm]
      BY <2>2 DEF LeftWay
    <3> QED
      BY <3>6, <3>7
  <2>8. Weight(w, m) + (i + 1) <= Size
    <3>1. Weight(w, at) + i <= Size
      BY <1>2 DEF LeftWay
    <3>2. Weight(w, m) \in Nat /\ Weight(w, at) \in Nat /\ Size \in Nat
      BY <2>1, <2>2, WeightType, SizeType
    <3> QED
      BY <2>2, <3>1, <3>2
  <2> HIDE DEF e, m
  <2>9. LeftWay(t, S, rank, w, elm, e, i + 1)
    BY <2>2, <2>5, <2>7, <2>8 DEF LeftWay
  <2> QED
    BY <2>9 DEF e
<1> QED
  BY <1>1, <1>2

\* The turns to the left.
LEMMA LeftLoop ==
    ASSUME NEW t, NEW S, NEW rank, NEW w, Shape(t, S, rank, w), NEW elm \in S, NEW c, c = Cursor(t, elm, Null),
           LeftWay(t, S, rank, w, elm, c, 0)
    PROVE  \E e : LeftWay(t, S, rank, w, elm, e, Size) /\ Outermost(t, elm, "left") = OutermostEnd("left", e)
<1> DEFINE n == Size
           s[i \in 0 .. n] == IF i = 0 THEN c ELSE OutermostStep("left", s[i - 1])
           G == {x \in Cursors : \E i \in Nat : LeftWay(t, S, rank, w, elm, x, i)}
           F == [x \in G |-> OutermostStep("left", x)]
<1>0. \A x : \A i \in Nat : LeftWay(t, S, rank, w, elm, x, i) => LeftWay(t, S, rank, w, elm, OutermostStep("left", x), i + 1)
  BY LeftTurn
<1>1. \A x \in G : OutermostStep("left", x) \in G
  <2>1. \A x : \A i \in Nat : LeftWay(t, S, rank, w, elm, x, i) => x \in Cursors
    BY DEF LeftWay
  <2>2. \A i \in Nat : i + 1 \in Nat
    OBVIOUS
  <2> QED
    BY <1>0, <2>1, <2>2, Zenon
<1>2. F \in [G -> G] /\ \A x \in G : F[x] = OutermostStep("left", x)
  BY <1>1
<1>3. Outermost(t, elm, "left") = OutermostEnd("left", s[n])
  BY DEF Outermost, Loop, Turn, Goes, Ended, OutermostStep, OutermostEnd, OutermostGoes
<1>4. n \in Nat /\ c \in G
  BY SizeType DEF LeftWay
<1> HIDE DEF F, G, n
<1>5. \E g : g = [i \in 0 .. n |-> IF i = 0 THEN c ELSE OutermostStep("left", g[i - 1])]
  <2>1. PICK g : IsRun(g, G, F, c, n)
    BY <1>2, <1>4, RunExists
  <2>2. ASSUME NEW i \in 0 .. n
        PROVE  g[i] = IF i = 0 THEN c ELSE OutermostStep("left", g[i - 1])
    BY <1>2, <1>4, <2>1 DEF IsRun
  <2>3. g = [i \in 0 .. n |-> IF i = 0 THEN c ELSE OutermostStep("left", g[i - 1])]
    BY <2>1, <2>2 DEF IsRun
  <2> QED
    BY <2>3
<1>6. s = [i \in 0 .. n |-> IF i = 0 THEN c ELSE OutermostStep("left", s[i - 1])]
  BY <1>5
<1> HIDE DEF s
<1>7. s[0] = c /\ \A i \in 0 .. n - 1 : s[i + 1] = OutermostStep("left", s[i])
  BY <1>4, <1>6
<1> DEFINE P == {i \in 0 .. n : LeftWay(t, S, rank, w, elm, s[i], i)}
<1>8. 0 \in P
  BY <1>4, <1>7
<1>9. ASSUME NEW i \in 0 .. n - 1, i \in P PROVE i + 1 \in P
  <2>1. LeftWay(t, S, rank, w, elm, s[i], i) /\ i \in Nat /\ i + 1 \in 0 .. n
    BY <1>4, <1>9
  <2>2. LeftWay(t, S, rank, w, elm, OutermostStep("left", s[i]), i + 1)
    BY <1>0, <2>1
  <2> QED
    BY <1>7, <2>1, <2>2
<1> HIDE DEF P
<1>10. 0 .. n \subseteq P
  BY <1>4, <1>8, <1>9, UpTo
<1>11. LeftWay(t, S, rank, w, elm, s[n], n)
  BY <1>4, <1>10 DEF P
<1> QED
  BY <1>3, <1>11 DEF n

\* The outermost element on the left is the first one, and has no left child.
LEMMA LeftIs ==
    ASSUME NEW t, NEW S, NEW rank, NEW w, Shape(t, S, rank, w), NEW elm \in S
    PROVE  LET c == Outermost(t, elm, "left") IN
           /\ c \in Cursors /\ c.t = t /\ ~c.t.fault /\ c.at \in S /\ c.at \in w[elm]
           /\ t.link[c.at]["left"] = Null
           /\ \A x \in w[elm] : x = c.at \/ rank[c.at] < rank[x]
<1> DEFINE c == Cursor(t, elm, Null)
<1>1. t \in Trees /\ ~t.fault /\ S \subseteq Nodes /\ \A n \in S : n \in w[n]
  BY DEF Shape
<1>2. c \in Cursors /\ c.t = t /\ c.at = elm /\ c.up = Null
  BY <1>1, CursorIs DEF Links
<1>3. LeftWay(t, S, rank, w, elm, c, 0)
  <2>1. Weight(w, elm) <= Size /\ Weight(w, elm) \in Nat
    BY WeightType, SizeType
  <2> HIDE DEF c
  <2> QED
    BY <1>1, <1>2, <2>1 DEF LeftWay
<1> HIDE DEF c
<1>4. PICK e : LeftWay(t, S, rank, w, elm, e, Size) /\ Outermost(t, elm, "left") = OutermostEnd("left", e)
  BY <1>3, LeftLoop DEF c
<1>5. e.at \in S /\ e.t = t /\ e \in Cursors /\ e.at \in w[elm]
  BY <1>1, <1>4 DEF LeftWay
<1>6. ~OutermostGoes("left", e)
  <2> SUFFICES ASSUME OutermostGoes("left", e) PROVE FALSE
    OBVIOUS
  <2>1. Weight(w, e.at) + Size <= Size
    BY <1>4 DEF LeftWay
  <2>2. Weight(w, e.at) # 0 /\ Weight(w, e.at) \in Nat
    BY <1>1, <1>5, WeightType, TreeAssumption
  <2> QED
    BY <2>1, <2>2, SizeType
<1>7. t.link[e.at]["left"] = Null
  BY <1>1, <1>5, <1>6 DEF OutermostGoes
<1>8. ASSUME NEW x \in w[elm] PROVE x = e.at \/ rank[e.at] < rank[x]
  <2>1. x \in w[e.at] => x = e.at \/ x \in w[t.link[e.at]["right"]]
    BY <1>5, <1>7 DEF Shape
  <2>2. x \in w[t.link[e.at]["right"]] => rank[e.at] < rank[x]
    BY <1>5, OtherSide DEF Shape, Before
  <2> QED
    BY <1>4, <2>1, <2>2 DEF LeftWay
<1>9. Outermost(t, elm, "left") = e
  BY <1>4, <1>6 DEF OutermostEnd
<1> QED
  BY <1>1, <1>5, <1>7, <1>8, <1>9

-----------------------------------------------------------------------------
(* RB_NEXT goes to the next element.                                       *)

UpFrom(c) ==
    Loop(LAMBDA e : e.up # Null /\ e.t.link[e.up]["right"] = e.at,
         LAMBDA e : Cursor(e.t, e.up, e.t.parent[e.up]), c)
UpGoes(c) == ~c.t.fault /\ (c.up # Null /\ c.t.link[c.up]["right"] = c.at)
UpStep(c) == IF UpGoes(c) THEN Cursor(c.t, c.up, c.t.parent[c.up]) ELSE c
UpEnd(c)  == IF UpGoes(c) THEN Faulty(c) ELSE c

\* After i turns upwards, n is the last element of the subtree.
UpWay(t, S, rank, w, n, c, i) ==
    /\ c \in Cursors /\ c.t = t /\ c.at \in S /\ c.up = t.parent[c.at]
    /\ n \in w[c.at] /\ \A y \in w[c.at] : rank[y] <= rank[n]
    /\ Weight(w, c.at) > i \/ ~UpGoes(c)

\* A turn of the loop of RB_NEXT upwards.
LEMMA UpTurn ==
    ASSUME NEW t, NEW S, NEW rank, NEW w, Shape(t, S, rank, w), NEW n \in S,
           NEW c, NEW i \in Nat, UpWay(t, S, rank, w, n, c, i)
    PROVE  UpWay(t, S, rank, w, n, UpStep(c), i + 1)
<1>1. CASE ~UpGoes(c)
  BY <1>1 DEF UpStep, UpWay
<1>2. CASE UpGoes(c)
  <2> DEFINE at == c.at
             up == c.up
             e  == UpStep(c)
  <2>1. /\ at \in S /\ up = t.parent[at] /\ up # Null /\ t.link[up]["right"] = at /\ c.t = t
        /\ Weight(w, at) > i
    BY <1>2 DEF UpGoes, UpWay
  <2>2. up \in S
    BY <2>1, ChildOfParent, ParentIsNull
  <2>3. at # Null /\ S \subseteq Nodes /\ t \in Trees /\ rank \in [Nodes -> Int]
    BY <2>1, TreeAssumption DEF Shape
  <2>4. w[at] \subseteq w[up] /\ Weight(w, at) < Weight(w, up)
    BY <2>1, <2>2, <2>3, ChildBelow, ChildWeight, OtherSide
  <2>5. up \in Links /\ t.parent[up] \in Links
    BY <2>2, <2>3, TreeFields DEF Links
  <2>6. e = Cursor(t, up, t.parent[up])
    BY <1>2, <2>1 DEF UpStep
  <2>7. e \in Cursors /\ e.t = t /\ e.at = up /\ e.up = t.parent[up]
    BY <2>3, <2>5, <2>6, CursorIs
  <2>8. n \in w[up] /\ \A y \in w[up] : rank[y] <= rank[n]
    <3>1. n \in w[at] /\ \A y \in w[at] : rank[y] <= rank[n]
      BY DEF UpWay
    <3>2. \A y \in w[up] : y = up \/ y \in w[t.link[up]["left"]] \/ y \in w[at]
      BY <2>1, <2>2 DEF Shape
    <3>3. \A y \in w[t.link[up]["left"]] : rank[y] < rank[up]
      BY <2>2, OtherSide DEF Shape, Before
    <3>4. rank[up] < rank[n]
      BY <2>1, <2>2, <3>1, OtherSide DEF Shape, Before
    <3>5. up \in Nodes /\ \A y \in w[up] : y \in Nodes
      BY <2>2, <2>3 DEF Shape, Links
    <3>6. \A y \in w[up] : rank[y] \in Int
      BY <2>3, <3>5
    <3>7. rank[up] \in Int /\ rank[n] \in Int
      BY <2>3, <3>5
    <3> QED
      BY <2>4, <3>1, <3>2, <3>3, <3>4, <3>6, <3>7
  <2>9. Weight(w, up) > i + 1
    BY <2>1, <2>2, <2>4, WeightType
  <2> HIDE DEF e
  <2>10. UpWay(t, S, rank, w, n, e, i + 1)
    BY <2>2, <2>7, <2>8, <2>9 DEF UpWay
  <2> QED
    BY <2>10 DEF e
<1> QED
  BY <1>1, <1>2

\* The turns upwards.
LEMMA UpLoop ==
    ASSUME NEW t, NEW S, NEW rank, NEW w, Shape(t, S, rank, w), NEW n0 \in S, NEW c, UpWay(t, S, rank, w, n0, c, 0)
    PROVE  \E e : UpWay(t, S, rank, w, n0, e, Size) /\ UpFrom(c) = UpEnd(e)
<1> DEFINE n == Size
           s[i \in 0 .. n] == IF i = 0 THEN c ELSE UpStep(s[i - 1])
           G == {x \in Cursors : \E i \in Nat : UpWay(t, S, rank, w, n0, x, i)}
           F == [x \in G |-> UpStep(x)]
<1>0. \A x : \A i \in Nat : UpWay(t, S, rank, w, n0, x, i) => UpWay(t, S, rank, w, n0, UpStep(x), i + 1)
  BY UpTurn
<1>1. \A x \in G : UpStep(x) \in G
  <2>1. \A x : \A i \in Nat : UpWay(t, S, rank, w, n0, x, i) => x \in Cursors
    BY DEF UpWay
  <2>2. \A i \in Nat : i + 1 \in Nat
    OBVIOUS
  <2> QED
    BY <1>0, <2>1, <2>2, Zenon
<1>2. F \in [G -> G] /\ \A x \in G : F[x] = UpStep(x)
  BY <1>1
<1>3. UpFrom(c) = UpEnd(s[n])
  BY DEF UpFrom, Loop, Turn, Goes, Ended, UpStep, UpEnd, UpGoes
<1>4. n \in Nat /\ c \in G
  BY SizeType DEF UpWay
<1> HIDE DEF F, G, n
<1>5. \E g : g = [i \in 0 .. n |-> IF i = 0 THEN c ELSE UpStep(g[i - 1])]
  <2>1. PICK g : IsRun(g, G, F, c, n)
    BY <1>2, <1>4, RunExists
  <2>2. ASSUME NEW i \in 0 .. n
        PROVE  g[i] = IF i = 0 THEN c ELSE UpStep(g[i - 1])
    BY <1>2, <1>4, <2>1 DEF IsRun
  <2>3. g = [i \in 0 .. n |-> IF i = 0 THEN c ELSE UpStep(g[i - 1])]
    BY <2>1, <2>2 DEF IsRun
  <2> QED
    BY <2>3
<1>6. s = [i \in 0 .. n |-> IF i = 0 THEN c ELSE UpStep(s[i - 1])]
  BY <1>5
<1> HIDE DEF s
<1>7. s[0] = c /\ \A i \in 0 .. n - 1 : s[i + 1] = UpStep(s[i])
  BY <1>4, <1>6
<1> DEFINE P == {i \in 0 .. n : UpWay(t, S, rank, w, n0, s[i], i)}
<1>8. 0 \in P
  BY <1>4, <1>7
<1>9. ASSUME NEW i \in 0 .. n - 1, i \in P PROVE i + 1 \in P
  <2>1. UpWay(t, S, rank, w, n0, s[i], i) /\ i \in Nat /\ i + 1 \in 0 .. n
    BY <1>4, <1>9
  <2>2. UpWay(t, S, rank, w, n0, UpStep(s[i]), i + 1)
    BY <1>0, <2>1
  <2> QED
    BY <1>7, <2>1, <2>2
<1> HIDE DEF P
<1>10. 0 .. n \subseteq P
  BY <1>4, <1>8, <1>9, UpTo
<1>11. UpWay(t, S, rank, w, n0, s[n], n)
  BY <1>4, <1>10 DEF P
<1> QED
  BY <1>3, <1>11 DEF n

IsNext(S, rank, n, m) ==
    /\ m \in S \cup {Null}
    /\ m # Null => rank[n] < rank[m]
    /\ \A x \in S : rank[n] < rank[x] => m # Null /\ rank[m] <= rank[x]

\* RB_NEXT finds the next element in the order of the ranks, or NULL after the last.
LEMMA NextIs ==
    ASSUME NEW t, NEW S, NEW rank, NEW w, Shape(t, S, rank, w), NEW n \in S
    PROVE  IsNext(S, rank, n, NextOf(t, n))
<1>0. /\ S \subseteq Nodes /\ t \in Trees /\ ~t.fault /\ rank \in [Nodes -> Int] /\ \A x \in S : x # Null
      /\ \A x \in S : rank[x] \in Int /\ x \in w[x] /\ w[x] \subseteq S
  BY TreeAssumption DEF Shape, Links
<1>1. CASE t.link[n]["right"] # Null
  <2> DEFINE r == t.link[n]["right"]
             m == Outermost(t, r, "left").at
  <2>1. r \in S /\ w[r] \subseteq w[n] /\ "right" \in Sides
    BY <1>1, ChildBelow, OtherSide
  <2>2. m \in S /\ m \in w[r] /\ \A x \in w[r] : x = m \/ rank[m] < rank[x]
    BY <2>1, LeftIs
  <2>3. NextOf(t, n) = m
    BY <1>1 DEF NextOf
  <2> HIDE DEF m
  <2>4. rank[n] < rank[m]
    BY <2>1, <2>2 DEF Shape, Before
  <2>5. ASSUME NEW x \in S, rank[n] < rank[x] PROVE rank[m] <= rank[x]
    <3>1. CASE x \in w[n]
      <4>1. x = n \/ x \in w[t.link[n]["left"]] \/ x \in w[r]
        BY <3>1 DEF Shape
      <4>2. x \in w[t.link[n]["left"]] => rank[x] < rank[n]
        BY OtherSide DEF Shape, Before
      <4> QED
        BY <1>0, <2>2, <2>5, <4>1, <4>2
    <3>2. CASE x \notin w[n]
      <4>1. (\A y \in w[n] : rank[x] < rank[y]) \/ (\A y \in w[n] : rank[y] < rank[x])
        BY <3>2, Apart
      <4>2. n \in w[n] /\ m \in w[n]
        BY <1>0, <2>1, <2>2
      <4> QED
        BY <1>0, <2>2, <2>5, <4>1, <4>2
    <3> QED
      BY <3>1, <3>2
  <2> QED
    BY <1>0, <2>2, <2>3, <2>4, <2>5 DEF IsNext
<1>2. CASE t.link[n]["right"] = Null
  <2> DEFINE c == Cursor(t, n, t.parent[n])
             l == UpFrom(c)
  <2>1. NextOf(t, n) = l.up
    BY <1>2 DEF NextOf, UpFrom, Loop, Turn, Goes, Ended
  <2>2. n \in Links /\ t.parent[n] \in Links
    BY <1>0, TreeFields DEF Links
  <2>3. c \in Cursors /\ c.t = t /\ c.at = n /\ c.up = t.parent[n]
    BY <1>0, <2>2, CursorIs
  <2>4. UpWay(t, S, rank, w, n, c, 0)
    <3>1. \A y \in w[n] : y = n \/ y \in w[t.link[n]["left"]]
      BY <1>2 DEF Shape
    <3>2. \A y \in w[t.link[n]["left"]] : rank[y] < rank[n]
      BY OtherSide DEF Shape, Before
    <3>3. \A y \in w[n] : rank[y] <= rank[n]
      BY <1>0, <3>1, <3>2
    <3>4. Weight(w, n) > 0
      BY <1>0, WeightType
    <3> HIDE DEF c
    <3> QED
      BY <1>0, <2>3, <3>3, <3>4 DEF UpWay
  <2> HIDE DEF c
  <2>5. PICK e : UpWay(t, S, rank, w, n, e, Size) /\ l = UpEnd(e)
    BY <2>4, UpLoop
  <2>6. e.at \in S /\ e.t = t /\ e.up = t.parent[e.at] /\ n \in w[e.at] /\ \A y \in w[e.at] : rank[y] <= rank[n]
    BY <2>5 DEF UpWay
  <2>7. ~UpGoes(e)
    <3>1. Weight(w, e.at) <= Size /\ Weight(w, e.at) \in Nat /\ Size \in Nat
      BY <2>6, WeightType, SizeType
    <3>2. Weight(w, e.at) > Size \/ ~UpGoes(e)
      BY <2>5 DEF UpWay
    <3> QED
      BY <3>1, <3>2
  <2>8. NextOf(t, n) = e.up
    BY <2>1, <2>5, <2>7 DEF UpEnd
  <2> HIDE DEF l
  <2>9. CASE e.up = Null
    <3>1. e.at = t.root
      BY <2>6, <2>9, ParentIsNull
    <3>2. w[e.at] = S
      BY <3>1 DEF Shape
    <3> QED
      BY <1>0, <2>6, <2>8, <2>9, <3>2 DEF IsNext
  <2>10. CASE e.up # Null
    <3> DEFINE u == e.up
    <3>1. u \in S /\ \E d \in Sides : t.link[u][d] = e.at
      BY <2>6, <2>10, ParentIsNull, ChildOfParent
    <3>2. t.link[u]["right"] # e.at
      BY <1>0, <2>6, <2>7, <2>10 DEF UpGoes
    <3>3. t.link[u]["left"] = e.at
      BY <3>1, <3>2 DEF Sides
    <3>4. rank[n] < rank[u]
      BY <2>6, <3>1, <3>3, OtherSide DEF Shape, Before
    <3>5. n \in w[u]
      BY <2>6, <3>1, <3>3 DEF Shape
    <3>6. ASSUME NEW x \in S, rank[n] < rank[x] PROVE rank[u] <= rank[x]
      <4>1. CASE x \in w[u]
        <5>1. x = u \/ x \in w[e.at] \/ x \in w[t.link[u]["right"]]
          BY <3>1, <3>3, <4>1 DEF Shape
        <5>2. x \in w[t.link[u]["right"]] => rank[u] < rank[x]
          BY <3>1, OtherSide DEF Shape, Before
        <5> QED
          BY <1>0, <2>6, <3>1, <3>6, <5>1, <5>2
      <4>2. CASE x \notin w[u]
        <5>1. (\A y \in w[u] : rank[x] < rank[y]) \/ (\A y \in w[u] : rank[y] < rank[x])
          BY <3>1, <4>2, Apart
        <5>2. u \in w[u]
          BY <1>0, <3>1
        <5> QED
          BY <1>0, <3>1, <3>5, <3>6, <5>1, <5>2
      <4> QED
        BY <4>1, <4>2
    <3> QED
      BY <1>0, <2>8, <2>10, <3>1, <3>4, <3>6 DEF IsNext
  <2> QED
    BY <2>9, <2>10
<1> QED
  BY <1>1, <1>2

-----------------------------------------------------------------------------
(* RB_FOREACH passes every element.                                        *)

FirstGoes(E, c) == ~c.t.fault /\ (c.at # Null /\ c.at \notin E)
FirstStep(E, c) == IF FirstGoes(E, c) THEN [c EXCEPT !.at = NextOf(c.t, c.at)] ELSE c
FirstEnd(E, c)  == IF FirstGoes(E, c) THEN Faulty(c) ELSE c
FirstFrom(E, c) ==
    Loop(LAMBDA e : e.at # Null /\ e.at \notin E,
         LAMBDA e : [e EXCEPT !.at = NextOf(e.t, e.at)], c)

\* The elements from n on.
Rest(S, rank, n) == {x \in S : rank[n] <= rank[x]}

\* After i turns, no element of E has been passed.
ForWay(t, S, rank, E, c, i) ==
    /\ c \in Cursors /\ c.t = t /\ c.at \in S \cup {Null}
    /\ \A x \in S : x \in E => c.at # Null /\ rank[c.at] <= rank[x]
    /\ FirstGoes(E, c) => Cardinality(Rest(S, rank, c.at)) + i <= Size

\* A turn of RB_FOREACH passes no element of the set it looks for.
LEMMA ForTurn ==
    ASSUME NEW t, NEW S, NEW rank, NEW w, Shape(t, S, rank, w), NEW E,
           \A x, y \in S : rank[x] = rank[y] => x = y,
           NEW c, NEW i \in Nat, ForWay(t, S, rank, E, c, i)
    PROVE  ForWay(t, S, rank, E, FirstStep(E, c), i + 1)
<1>1. CASE ~FirstGoes(E, c)
  BY <1>1 DEF FirstStep, ForWay
<1>2. CASE FirstGoes(E, c)
  <2> DEFINE at == c.at
             m  == NextOf(t, at)
             e  == FirstStep(E, c)
  <2>1. at \in S /\ at \notin E /\ c.t = t /\ c \in Cursors
    BY <1>2 DEF FirstGoes, ForWay
  <2>2. IsNext(S, rank, at, m)
    BY <2>1, NextIs
  <2>3. e = [c EXCEPT !.at = m]
    BY <1>2, <2>1 DEF FirstStep
  <2> HIDE DEF m, e
  <2>4. m \in S \cup {Null} /\ m \in Links /\ S \subseteq Nodes
    BY <2>2 DEF IsNext, Shape, Links
  <2>5. e \in Cursors /\ e.t = t /\ e.at = m
    BY <2>1, <2>3, <2>4 DEF Cursors
  <2>6. rank \in [Nodes -> Int] /\ \A x \in S : rank[x] \in Int
    BY <2>4 DEF Shape
  <2>7. \A x \in S : x \in E => m # Null /\ rank[m] <= rank[x]
    <3> SUFFICES ASSUME NEW x \in S, x \in E PROVE m # Null /\ rank[m] <= rank[x]
      OBVIOUS
    <3>1. rank[at] <= rank[x]
      BY DEF ForWay
    <3>2. rank[at] # rank[x]
      BY <2>1
    <3>3. rank[at] < rank[x]
      BY <2>1, <2>6, <3>1, <3>2
    <3> QED
      BY <2>2, <3>3 DEF IsNext
  <2>8. ASSUME m # Null PROVE Cardinality(Rest(S, rank, m)) + (i + 1) <= Size
    <3>1. m \in S /\ rank[at] < rank[m]
      BY <2>2, <2>4, <2>8 DEF IsNext
    <3>2. Rest(S, rank, m) \subseteq Rest(S, rank, at)
      BY <2>1, <2>6, <3>1 DEF Rest
    <3>3. at \in Rest(S, rank, at) /\ at \notin Rest(S, rank, m)
      BY <2>1, <2>6, <3>1 DEF Rest
    <3>4. IsFiniteSet(Rest(S, rank, at))
      <4>1. IsFiniteSet(Nodes) /\ Rest(S, rank, at) \subseteq Nodes
        BY <2>4, TreeAssumption DEF Rest
      <4> QED
        BY <4>1, FS_Subset
    <3>5. /\ Cardinality(Rest(S, rank, m)) <= Cardinality(Rest(S, rank, at))
          /\ Cardinality(Rest(S, rank, m)) = Cardinality(Rest(S, rank, at))
                 => Rest(S, rank, m) = Rest(S, rank, at)
          /\ IsFiniteSet(Rest(S, rank, m))
      BY <3>2, <3>4, FS_Subset
    <3>6. Cardinality(Rest(S, rank, m)) \in Nat /\ Cardinality(Rest(S, rank, at)) \in Nat /\ Size \in Nat
      BY <3>4, <3>5, FS_CardinalityType, SizeType
    <3>7. Cardinality(Rest(S, rank, at)) + i <= Size
      BY <1>2 DEF ForWay
    <3>8. Cardinality(Rest(S, rank, m)) # Cardinality(Rest(S, rank, at))
      BY <3>3, <3>5
    <3> HIDE DEF at
    <3> QED
      BY <3>5, <3>6, <3>7, <3>8
  <2>9. ForWay(t, S, rank, E, e, i + 1)
    BY <2>4, <2>5, <2>7, <2>8 DEF ForWay, FirstGoes
  <2> QED
    BY <2>9 DEF e
<1> QED
  BY <1>1, <1>2

\* The turns of the loop.
LEMMA ForLoop ==
    ASSUME NEW t, NEW S, NEW rank, NEW w, Shape(t, S, rank, w),
           NEW E, \A x, y \in S : rank[x] = rank[y] => x = y, NEW c, ForWay(t, S, rank, E, c, 0)
    PROVE  \E e : ForWay(t, S, rank, E, e, Size) /\ FirstFrom(E, c) = FirstEnd(E, e)
<1> DEFINE n == Size
           s[i \in 0 .. n] == IF i = 0 THEN c ELSE FirstStep(E, s[i - 1])
           G == {x \in Cursors : \E i \in Nat : ForWay(t, S, rank, E, x, i)}
           F == [x \in G |-> FirstStep(E, x)]
<1>0. \A x : \A i \in Nat : ForWay(t, S, rank, E, x, i) => ForWay(t, S, rank, E, FirstStep(E, x), i + 1)
  BY ForTurn
<1>1. \A x \in G : FirstStep(E, x) \in G
  <2>1. \A x : \A i \in Nat : ForWay(t, S, rank, E, x, i) => x \in Cursors
    BY DEF ForWay
  <2>2. \A i \in Nat : i + 1 \in Nat
    OBVIOUS
  <2> QED
    BY <1>0, <2>1, <2>2, Zenon
<1>2. F \in [G -> G] /\ \A x \in G : F[x] = FirstStep(E, x)
  BY <1>1
<1>3. FirstFrom(E, c) = FirstEnd(E, s[n])
  BY DEF FirstFrom, Loop, Turn, Goes, Ended, FirstStep, FirstEnd, FirstGoes
<1>4. n \in Nat /\ c \in G
  BY SizeType DEF ForWay
<1> HIDE DEF F, G, n
<1>5. \E g : g = [i \in 0 .. n |-> IF i = 0 THEN c ELSE FirstStep(E, g[i - 1])]
  <2>1. PICK g : IsRun(g, G, F, c, n)
    BY <1>2, <1>4, RunExists
  <2>2. ASSUME NEW i \in 0 .. n
        PROVE  g[i] = IF i = 0 THEN c ELSE FirstStep(E, g[i - 1])
    BY <1>2, <1>4, <2>1 DEF IsRun
  <2>3. g = [i \in 0 .. n |-> IF i = 0 THEN c ELSE FirstStep(E, g[i - 1])]
    BY <2>1, <2>2 DEF IsRun
  <2> QED
    BY <2>3
<1>6. s = [i \in 0 .. n |-> IF i = 0 THEN c ELSE FirstStep(E, s[i - 1])]
  BY <1>5
<1> HIDE DEF s
<1>7. s[0] = c /\ \A i \in 0 .. n - 1 : s[i + 1] = FirstStep(E, s[i])
  BY <1>4, <1>6
<1> DEFINE P == {i \in 0 .. n : ForWay(t, S, rank, E, s[i], i)}
<1>8. 0 \in P
  BY <1>4, <1>7
<1>9. ASSUME NEW i \in 0 .. n - 1, i \in P PROVE i + 1 \in P
  <2>1. ForWay(t, S, rank, E, s[i], i) /\ i \in Nat /\ i + 1 \in 0 .. n
    BY <1>4, <1>9
  <2>2. ForWay(t, S, rank, E, FirstStep(E, s[i]), i + 1)
    BY <1>0, <2>1
  <2> QED
    BY <1>7, <2>1, <2>2
<1> HIDE DEF P
<1>10. 0 .. n \subseteq P
  BY <1>4, <1>8, <1>9, UpTo
<1>11. ForWay(t, S, rank, E, s[n], n)
  BY <1>4, <1>10 DEF P
<1> QED
  BY <1>3, <1>11 DEF n

\* RB_FOREACH finds an element of a set exactly if the tree has one.
LEMMA FirstIs ==
    ASSUME NEW t, NEW S, NEW rank, NEW w, Shape(t, S, rank, w), NEW E,
           \A x, y \in S : rank[x] = rank[y] => x = y
    PROVE  /\ FirstOf(t, E) \in S \cup {Null}
           /\ FirstOf(t, E) # Null => FirstOf(t, E) \in E
           /\ FirstOf(t, E) = Null => \A x \in S : x \notin E
<1> DEFINE m == MinOf(t)
           c == Cursor(t, m, Null)
           l == FirstFrom(E, c)
<1>1. FirstOf(t, E) = l.at
  BY DEF FirstOf, FirstFrom, Loop, Turn, Goes, Ended
<1>2. S \subseteq Nodes /\ t \in Trees /\ ~t.fault /\ rank \in [Nodes -> Int] /\ t.root \in S \cup {Null}
  BY DEF Shape
<1>3. m \in S \cup {Null} /\ \A x \in S : m # Null /\ rank[m] <= rank[x]
  <2>1. CASE t.root = Null
    BY <2>1 DEF MinOf, Shape
  <2>2. CASE t.root # Null
    <3>1. m = Outermost(t, t.root, "left").at
      BY <2>2 DEF MinOf
    <3>2. t.root \in S /\ w[t.root] = S
      BY <2>2 DEF Shape
    <3>3. m \in S /\ \A x \in w[t.root] : x = m \/ rank[m] < rank[x]
      BY <3>1, <3>2, LeftIs
    <3> HIDE DEF m
    <3>4. m # Null
      BY <1>2, <3>3, TreeAssumption
    <3> QED
      BY <1>2, <3>2, <3>3, <3>4
  <2> QED
    BY <2>1, <2>2
<1> HIDE DEF m
<1>4. c \in Cursors /\ c.t = t /\ c.at = m /\ c.up = Null
  BY <1>2, <1>3, CursorIs DEF Links
<1>5. ForWay(t, S, rank, E, c, 0)
  <2>1. Rest(S, rank, m) \subseteq Nodes
    BY <1>2 DEF Rest
  <2>2. Cardinality(Rest(S, rank, m)) <= Size /\ Cardinality(Rest(S, rank, m)) \in Nat
    BY <2>1, TreeAssumption, FS_Subset, FS_CardinalityType DEF Size
  <2> HIDE DEF c
  <2> QED
    BY <1>3, <1>4, <2>2 DEF ForWay
<1> HIDE DEF c
<1>6. PICK e : ForWay(t, S, rank, E, e, Size) /\ l = FirstEnd(E, e)
  BY <1>5, ForLoop
<1> HIDE DEF l
<1>7. ~FirstGoes(E, e)
  <2> SUFFICES ASSUME FirstGoes(E, e) PROVE FALSE
    OBVIOUS
  <2>1. e.at \in S /\ Cardinality(Rest(S, rank, e.at)) + Size <= Size
    BY <1>6 DEF ForWay, FirstGoes
  <2>2. e.at \in Rest(S, rank, e.at) /\ Rest(S, rank, e.at) \subseteq Nodes
    BY <1>2, <2>1 DEF Rest
  <2>3. IsFiniteSet(Rest(S, rank, e.at))
    BY <2>2, TreeAssumption, FS_Subset
  <2>4. Cardinality(Rest(S, rank, e.at)) # 0 /\ Cardinality(Rest(S, rank, e.at)) \in Nat
    BY <2>2, <2>3, FS_EmptySet, FS_CardinalityType
  <2> QED
    BY <2>1, <2>4, SizeType
<1>8. FirstOf(t, E) = e.at /\ e.t = t
  BY <1>1, <1>6, <1>7 DEF FirstEnd, ForWay
<1> QED
  BY <1>2, <1>6, <1>7, <1>8 DEF ForWay, FirstGoes

-----------------------------------------------------------------------------
(* Colours.                                                                *)

\* B[n] is the number of black elements on every way down from n.
Blackness(t, n) == IF t.color[n] = "black" THEN 1 ELSE 0
Depths(B)       == B \in [Links -> Nat] /\ B[Null] = 0
Level(t, B, n)  ==
    /\ B[t.link[n]["left"]] = B[t.link[n]["right"]]
    /\ B[n] = B[t.link[n]["left"]] + Blackness(t, n)

Coloured(t, S, B) ==
    /\ Depths(B) /\ \A n \in S : Level(t, B, n)
    /\ \A n \in S, s \in Sides : t.color[n] = "red" => Black(t, t.link[n][s])
    /\ Black(t, t.root)

\* A red-black search tree of the elements S in the order of rank.
IsTree(t, S, rank) == \E w, B : Shape(t, S, rank, w) /\ Coloured(t, S, B)

\* A level may be stated from either side.
LEMMA LevelIs ==
    ASSUME NEW t, NEW B, NEW n, NEW d \in Sides
    PROVE  Level(t, B, n) <=> /\ B[t.link[n][d]] = B[t.link[n][Other(d)]]
                              /\ B[n] = B[t.link[n][d]] + Blackness(t, n)
  BY DEF Level, Sides, Other

\* A tree that differs in its colours only.
SameLinks(t, r) == r \in Trees /\ ~r.fault /\ r.root = t.root /\ r.link = t.link /\ r.parent = t.parent

\* Painting keeps the elements and their order.
LEMMA SameShape ==
    ASSUME NEW t, NEW S, NEW rank, NEW w, Shape(t, S, rank, w), NEW r, SameLinks(t, r)
    PROVE  Shape(r, S, rank, w)
  BY DEF Shape, SameLinks

\* Painting one element keeps all links and all other colors.
LEMMA PaintOnce ==
    ASSUME NEW t \in Trees, ~t.fault, NEW e \in Links, NEW c \in Colors
    PROVE  /\ SameLinks(t, Paint(t, e, c)) /\ Paint(t, e, c) \in Trees /\ ~Paint(t, e, c).fault
           /\ \A n \in Nodes : Paint(t, e, c).color[n] = IF n = e THEN c ELSE t.color[n]
<1>1. ColorSet(t, Paint(t, e, c), e, c)
  BY PaintIs
<1> HIDE DEF SameLinks
<1> QED
  BY <1>1 DEF ColorSet, SameLinks

Painted(t, r, e, c) ==
    SameLinks(t, r) /\ \A n \in Nodes : r.color[n] = IF n = e THEN c ELSE t.color[n]
PaintedTwo(t, r, black, red) ==
    SameLinks(t, r) /\ \A n \in Nodes : r.color[n] = IF n = red THEN "red"
                                                     ELSE IF n = black THEN "black" ELSE t.color[n]

\* Painting one element, in one predicate.
LEMMA PaintedIs ==
    ASSUME NEW t \in Trees, ~t.fault, NEW e \in Links, NEW c \in Colors
    PROVE  Painted(t, Paint(t, e, c), e, c)
  BY PaintOnce DEF Painted

\* RB_SET_BLACKRED paints two elements.
LEMMA SetBlackRedIs ==
    ASSUME NEW t \in Trees, ~t.fault, NEW black \in Links, NEW red \in Links
    PROVE  PaintedTwo(t, SetBlackRed(t, black, red), black, red)
<1> DEFINE t1 == Paint(t, black, "black")
           r  == Paint(t1, red, "red")
<1>1. Painted(t, t1, black, "black")
  BY PaintedIs DEF Colors
<1>2. t1 \in Trees /\ ~t1.fault
  BY <1>1 DEF Painted, SameLinks
<1>3. r = SetBlackRed(t, black, red)
  BY DEF SetBlackRed
<1> HIDE DEF t1
<1>4. Painted(t1, r, red, "red")
  BY <1>2, PaintedIs DEF Colors
<1> HIDE DEF r
<1>5. PaintedTwo(t, r, black, red)
  BY <1>1, <1>4 DEF Painted, PaintedTwo, SameLinks
<1> QED
  BY <1>3, <1>5

\* Elements that a rotation does not touch keep their level.
RotatedDepths(B, elm, tmp, b) == [B EXCEPT ![tmp] = B[elm], ![elm] = b]
LevelsKept(t, r, S, B, D, elm, tmp, b) ==
    /\ D \in [Links -> Nat] /\ D[Null] = B[Null] /\ D[tmp] = B[elm] /\ D[elm] = b
    /\ \A n \in Links : n # tmp /\ n # elm => D[n] = B[n]
    /\ \A n \in S \ {elm, tmp} : Level(t, B, n) => Level(r, D, n)

\* A rotation keeps the levels of the elements that it does not move.
LEMMA RotateLevel ==
    ASSUME NEW t, NEW S, NEW rank, NEW w, Shape(t, S, rank, w), NEW elm \in S, NEW tmp \in S,
           NEW d \in Sides, NEW r, IsRotated(t, r, S, elm, tmp, d),
           NEW B \in [Links -> Nat], NEW b \in Nat, elm # tmp
    PROVE  LevelsKept(t, r, S, B, RotatedDepths(B, elm, tmp, b), elm, tmp, b)
<1> DEFINE D == RotatedDepths(B, elm, tmp, b)
<1>0. D = [B EXCEPT ![tmp] = B[elm], ![elm] = b]
  BY DEF RotatedDepths
<1>a. D = RotatedDepths(B, elm, tmp, b)
  OBVIOUS
<1> HIDE DEF D
<1>1. S \subseteq Nodes /\ elm \in Links /\ tmp \in Links /\ Null \in Links /\ elm # Null /\ tmp # Null
  BY TreeAssumption DEF Shape, Links
<1>2. /\ D \in [Links -> Nat] /\ D[tmp] = B[elm] /\ D[elm] = b
      /\ \A n \in Links : n # tmp /\ n # elm => D[n] = B[n]
  BY <1>0, <1>1
<1>3. ASSUME NEW n \in S \ {elm, tmp}, NEW s \in Sides
      PROVE  D[r.link[n][s]] = B[t.link[n][s]]
  <2>1. t.link[n][s] # tmp /\ r.link[n][s] = IF t.link[n][s] = elm THEN tmp ELSE t.link[n][s]
    BY DEF IsRotated
  <2>2. t.link[n][s] \in Links
    BY <1>1 DEF Shape, Links
  <2> QED
    BY <1>2, <2>1, <2>2
<1>4. ASSUME NEW n \in S \ {elm, tmp}, Level(t, B, n) PROVE Level(r, D, n)
  <2>1. /\ D[r.link[n]["left"]] = B[t.link[n]["left"]]
        /\ D[r.link[n]["right"]] = B[t.link[n]["right"]]
    BY <1>3, OtherSide
  <2>2. D[n] = B[n]
    BY <1>1, <1>2 DEF Links
  <2>3. r.color = t.color
    BY DEF IsRotated
  <2> QED
    BY <1>4, <2>1, <2>2, <2>3 DEF Level, Blackness
<1> QED
  BY <1>1, <1>2, <1>4, <1>a DEF LevelsKept

-----------------------------------------------------------------------------
(* RB_INSERT_COLOR.  The tree is well coloured, but the parent of the red  *)
(* element at may be red.                                                  *)

Pending(t, S, B, at) ==
    /\ Depths(B) /\ \A n \in S : Level(t, B, n)
    /\ \A n \in S, s \in Sides :
           t.color[n] = "red" /\ t.link[n][s] # at => Black(t, t.link[n][s])
    /\ t.color[at] = "red"
    /\ t.root # at => Black(t, t.root)

InsertWay(S, rank, c, i) ==
    /\ c \in Cursors /\ c.at \in S
    /\ \E w, B : /\ Shape(c.t, S, rank, w) /\ Pending(c.t, S, B, c.at)
                 /\ InsertColorWhile(c) => Weight(w, c.at) > i

\* The uncle is red.
LEMMA InsertRed ==
    ASSUME NEW t, NEW S, NEW rank, NEW w, Shape(t, S, rank, w), NEW B, NEW at \in S, Pending(t, S, B, at),
           NEW p \in S, NEW g \in S, NEW d \in Sides, t.link[g][d] = p, t.parent[at] = p, p # at,
           at # t.root, t.color[p] = "red", t.color[g] = "black",
           NEW u, u = t.link[g][Other(d)], ~Black(t, u),
           NEW r, r = SetBlackRed(Paint(t, u, "black"), p, g)
    PROVE  /\ Shape(r, S, rank, w) /\ r \in Trees
           /\ \E D : Pending(r, S, D, g)
<1> DEFINE t1 == Paint(t, u, "black")
           D  == [B EXCEPT ![p] = B[p] + 1, ![u] = B[u] + 1]
<1>1. t \in Trees /\ ~t.fault /\ S \subseteq Nodes /\ \A n \in S : n # Null
  BY TreeAssumption DEF Shape
<1>2. u # Null /\ t.color[u] # "black"
  BY DEF Black
<1>3. u \in S /\ u # p /\ u # g /\ p # g /\ t.parent[u] = g /\ t.parent[p] = g
  BY <1>1, <1>2, ChildBelow, OtherSide
<1>4. /\ u \in Links /\ p \in Links /\ g \in Links /\ Null \in Links
      /\ u \in Nodes /\ p \in Nodes /\ g \in Nodes
      /\ t.color[u] = "red"
  BY <1>1, <1>2, <1>3, TreeFields DEF Links, Colors
<1>5. Painted(t, t1, u, "black")
  BY <1>1, <1>4, PaintedIs DEF Colors
<1>6. t1 \in Trees /\ ~t1.fault
  BY <1>5 DEF Painted, SameLinks
<1> HIDE DEF t1
<1>7. PaintedTwo(t1, r, p, g)
  BY <1>4, <1>6, SetBlackRedIs DEF t1
<1>8. SameLinks(t, r) /\ r \in Trees
  BY <1>5, <1>7 DEF Painted, PaintedTwo, SameLinks
<1>9. \A n \in Nodes : r.color[n] = IF n = g THEN "red" ELSE IF n = p \/ n = u THEN "black" ELSE t.color[n]
  BY <1>5, <1>7 DEF Painted, PaintedTwo
<1>10. Shape(r, S, rank, w)
  BY <1>8, SameShape
<1>11. /\ B \in [Links -> Nat] /\ B[Null] = 0 /\ D \in [Links -> Nat] /\ D[Null] = 0
       /\ D[p] = B[p] + 1 /\ D[u] = B[u] + 1 /\ \A n \in Links : n # p /\ n # u => D[n] = B[n]
  <2>1. B \in [Links -> Nat] /\ B[Null] = 0
    BY DEF Pending, Depths
  <2>2. B[p] + 1 \in Nat /\ B[u] + 1 \in Nat
    BY <1>4, <2>1
  <2> QED
    BY <1>1, <1>2, <1>3, <1>4, <2>1, <2>2
<1> HIDE DEF D
<1>12. r.link = t.link /\ r.root = t.root
  BY <1>8 DEF SameLinks
<1>13. ASSUME NEW n \in S PROVE Level(r, D, n)
  <2>0. /\ B[t.link[n][d]] = B[t.link[n][Other(d)]] /\ B[n] = B[t.link[n][d]] + Blackness(t, n)
        /\ t.link[n][d] \in Links /\ t.link[n][Other(d)] \in Links /\ n \in Nodes /\ n \in Links
    <3>1. Level(t, B, n)
      BY DEF Pending
    <3>2. t.link[n][d] \in Links /\ t.link[n][Other(d)] \in Links /\ n \in Nodes /\ n \in Links
      BY <1>1, TreeFields, OtherSide DEF Links
    <3> QED
      BY <3>1, <3>2, LevelIs
  <2>1. CASE n = g
    <3>1. D[t.link[n][d]] = D[t.link[n][Other(d)]] /\ D[n] = D[t.link[n][d]]
      <4>1. Blackness(t, n) = 1
        BY <2>1 DEF Blackness
      <4> QED
        BY <1>3, <1>4, <1>11, <2>0, <2>1, <4>1
    <3>2. Blackness(r, n) = 0
      BY <1>4, <1>9, <2>1 DEF Blackness
    <3>3. D[n] \in Nat
      BY <1>11, <2>0
    <3> QED
      BY <1>12, <3>1, <3>2, <3>3, LevelIs
  <2>2. CASE n # g
    <3>1. ASSUME NEW s \in Sides PROVE t.link[n][s] # p /\ t.link[n][s] # u
      BY <1>1, <1>2, <1>3, <2>2, ChildBelow
    <3>2. D[t.link[n][d]] = B[t.link[n][d]] /\ D[t.link[n][Other(d)]] = B[t.link[n][Other(d)]]
      BY <1>11, <2>0, <3>1, OtherSide
    <3>3. D[n] = B[t.link[n][d]] + Blackness(r, n)
      <4>1. CASE n = p \/ n = u
        <5>1. Blackness(r, n) = 1 /\ Blackness(t, n) = 0
          BY <1>4, <1>9, <2>2, <4>1 DEF Blackness
        <5> QED
          BY <1>11, <2>0, <4>1, <5>1
      <4>2. CASE n # p /\ n # u
        <5>1. Blackness(r, n) = Blackness(t, n)
          BY <1>9, <2>0, <2>2, <4>2 DEF Blackness
        <5> QED
          BY <1>11, <2>0, <4>2, <5>1
      <4> QED
        BY <4>1, <4>2
    <3> QED
      BY <1>12, <2>0, <3>2, <3>3, LevelIs
  <2> QED
    BY <2>1, <2>2
<1>14. ASSUME NEW n \in S, NEW s \in Sides, r.color[n] = "red", r.link[n][s] # g
       PROVE  Black(r, r.link[n][s])
  <2> DEFINE m == t.link[n][s]
  <2>0. n \in Nodes /\ m \in S \cup {Null} /\ (m = Null \/ m \in Nodes) /\ r.link[n][s] = m
    BY <1>1, <1>12 DEF Shape
  <2>1. CASE n = g
    <3>1. m = p \/ m = u
      BY <2>1, OtherSide
    <3> QED
      BY <1>3, <1>4, <1>9, <2>0, <3>1 DEF Black
  <2>2. CASE n # g
    <3>1. t.color[n] = "red" /\ n # p
      BY <1>9, <1>14, <2>0, <2>2
    <3>2. m # at
      BY <1>1, <3>1, ChildBelow
    <3>3. Black(t, m)
      BY <3>1, <3>2 DEF Pending
    <3> HIDE DEF m
    <3> QED
      BY <1>9, <1>14, <2>0, <3>3 DEF Black
  <2> QED
    BY <2>1, <2>2
<1>15. r.color[g] = "red"
  BY <1>4, <1>9
<1>16. r.root # g => Black(r, r.root)
  <2>1. Black(t, t.root) /\ t.root \in S \cup {Null}
    BY DEF Pending, Shape
  <2>2. t.root \in Nodes \/ t.root = Null
    BY <1>1, <2>1
  <2> QED
    BY <1>9, <1>12, <2>1, <2>2 DEF Black
<1>17. Pending(r, S, D, g)
  BY <1>11, <1>13, <1>14, <1>15, <1>16 DEF Pending, Depths
<1> QED
  BY <1>8, <1>10, <1>17

\* The uncle is black, and at is on the outer side: a rotation at the
\* grandparent ends the loop.
LEMMA InsertOuter ==
    ASSUME NEW t, NEW S, NEW rank, NEW w, Shape(t, S, rank, w), NEW B, NEW at \in S, Pending(t, S, B, at),
           NEW p \in S, NEW g \in S, NEW d \in Sides, t.link[g][d] = p, t.link[p][d] = at,
           t.color[p] = "red", t.color[g] = "black", Black(t, t.link[g][Other(d)]), t.root # at,
           NEW r, r = Rotate(SetBlackRed(t, p, g), g, Other(d))
    PROVE  /\ r \in Trees /\ r.parent[at] = p /\ r.color[p] = "black"
           /\ \E v : Shape(r, S, rank, v)
           /\ \E D : Pending(r, S, D, at)
<1> DEFINE o  == Other(d)
           t1 == SetBlackRed(t, p, g)
           v  == RotatedSub(t1, w, g, p, o)
           D  == RotatedDepths(B, g, p, B[p])
           u  == t.link[g][o]
           q  == t.link[p][o]
<1>1. t \in Trees /\ ~t.fault /\ S \subseteq Nodes /\ \A n \in S : n # Null
  BY TreeAssumption DEF Shape
<1>2. o \in Sides /\ Other(o) = d /\ o # d
  BY OtherSide
<1>3. /\ p # g /\ at # p /\ t.parent[p] = g /\ t.parent[at] = p /\ u # p
  BY <1>1, <1>2, ChildBelow
<1>4. /\ p \in Links /\ g \in Links /\ Null \in Links /\ at \in Nodes /\ at \in Links
      /\ p \in Nodes /\ g \in Nodes
  BY <1>1 DEF Links
<1>5. PaintedTwo(t, t1, p, g)
  BY <1>1, <1>4, SetBlackRedIs
<1>6. SameLinks(t, t1)
  BY <1>5 DEF PaintedTwo
<1> HIDE DEF t1
<1>7. Shape(t1, S, rank, w)
  BY <1>6, SameShape
<1>8. p = t1.link[g][Other(o)] /\ p # Null /\ t1.link = t.link /\ t1.root = t.root /\ t1.parent = t.parent
  BY <1>1, <1>2, <1>6 DEF SameLinks
<1>9. IsRotated(t1, r, S, g, p, o)
  BY <1>2, <1>7, <1>8, RotateIs DEF t1
<1>10. Shape(r, S, rank, v)
  BY <1>2, <1>7, <1>8, <1>9, RotateShape
<1> HIDE DEF v
<1>11. at # g
  <2>1. at \in w[p] /\ g \notin w[p]
    BY <1>1, <1>3, ChildBelow
  <2> QED
    BY <2>1
<1>12. /\ r \in Trees /\ r.color = t1.color
       /\ r.link[g][o] = u /\ r.link[g][d] = q /\ r.link[p][o] = g /\ r.link[p][d] = at
       /\ r.root = IF t.root = g THEN p ELSE t.root
       /\ q # g /\ q # p /\ u # g
  <2>1. /\ r \in Trees /\ r.color = t1.color
        /\ r.link[g][o] = u /\ r.link[g][d] = q /\ r.link[p][o] = g /\ r.link[p][d] = at
        /\ r.root = IF t.root = g THEN p ELSE t.root
    BY <1>2, <1>8, <1>9 DEF IsRotated
  <2>2. q # Null => q \in w[p] /\ q # p
    BY <1>2, ChildBelow
  <2>3. g \notin w[p] /\ u # g
    BY <1>1, <1>2, <1>3, ChildBelow
  <2> QED
    BY <1>1, <2>1, <2>2, <2>3
<1>13. r.parent[at] = p
  <2>1. r.parent[at] = IF at = q THEN g ELSE t.parent[at]
    BY <1>3, <1>4, <1>8, <1>9, <1>11 DEF IsRotated
  <2>2. at # q
    BY <1>1, <1>2, <1>3, ChildBelow
  <2> QED
    BY <1>3, <2>1, <2>2
<1>14. \A n \in Nodes : r.color[n] = IF n = g THEN "red" ELSE IF n = p THEN "black" ELSE t.color[n]
  BY <1>5, <1>12 DEF PaintedTwo
<1>15. B \in [Links -> Nat] /\ B[Null] = 0 /\ B[p] \in Nat
  BY <1>4 DEF Pending, Depths
<1>16. /\ D \in [Links -> Nat] /\ D[Null] = 0 /\ D[p] = B[g] /\ D[g] = B[p]
       /\ \A n \in Links : n # p /\ n # g => D[n] = B[n]
       /\ \A n \in S \ {g, p} : Level(t1, B, n) => Level(r, D, n)
  <2>1. LevelsKept(t1, r, S, B, D, g, p, B[p])
    BY <1>2, <1>3, <1>7, <1>9, <1>15, RotateLevel
  <2> HIDE DEF D
  <2> QED
    BY <1>15, <2>1 DEF LevelsKept
<1> HIDE DEF D
<1>17. \A n \in S \ {g, p} : Level(r, D, n)
  <2>1. \A n \in S \ {g, p} : Level(t1, B, n)
    <3> SUFFICES ASSUME NEW n \in S \ {g, p} PROVE Level(t1, B, n)
      OBVIOUS
    <3>1. Level(t, B, n) /\ t1.color[n] = t.color[n]
      BY <1>1, <1>5 DEF Pending, PaintedTwo
    <3> QED
      BY <1>8, <3>1 DEF Level, Blackness
  <2> QED
    BY <1>16, <2>1
<1>18. /\ u \in Links /\ q \in Links
       /\ B[p] = B[u] /\ B[g] = B[p] + 1
       /\ B[at] = B[q] /\ B[p] = B[at]
  <2>0. Level(t, B, g) /\ Level(t, B, p)
    BY DEF Pending
  <2>1. B[p] = B[u] /\ B[g] = B[p] + Blackness(t, g)
    BY <2>0 DEF Level, Sides, Other
  <2>2. B[at] = B[q] /\ B[p] = B[at] + Blackness(t, p)
    BY <2>0, LevelIs
  <2>3. Blackness(t, g) = 1 /\ Blackness(t, p) = 0
    BY DEF Blackness
  <2>4. B[at] \in Nat /\ B[p] \in Nat
    BY <1>4, <1>15
  <2>5. u \in Links /\ q \in Links
    BY <1>1, <1>2, TreeFields
  <2> QED
    BY <2>1, <2>2, <2>3, <2>4, <2>5
<1> HIDE DEF u, q, o
<1>19. D[u] = B[u] /\ D[q] = B[q] /\ D[at] = B[at]
  BY <1>3, <1>4, <1>11, <1>12, <1>16, <1>18
<1>20. Level(r, D, g)
  <2>1. Blackness(r, g) = 0
    BY <1>4, <1>14 DEF Blackness
  <2>2. D[r.link[g][d]] = D[r.link[g][o]] /\ D[g] = D[r.link[g][d]] + 0
    BY <1>12, <1>15, <1>16, <1>18, <1>19
  <2> QED
    BY <2>1, <2>2, LevelIs DEF o
<1>21. Level(r, D, p)
  <2>1. Blackness(r, p) = 1
    BY <1>3, <1>4, <1>14 DEF Blackness
  <2>2. D[r.link[p][d]] = D[r.link[p][o]] /\ D[p] = D[r.link[p][d]] + 1
    BY <1>12, <1>16, <1>18, <1>19
  <2> QED
    BY <2>1, <2>2, LevelIs DEF o
<1>22. ASSUME NEW n \in S, NEW s \in Sides, r.color[n] = "red", r.link[n][s] # at
       PROVE  Black(r, r.link[n][s])
  <2>1. CASE n = g
    <3>1. s = d \/ s = o
      BY OtherSide DEF o
    <3>2. Black(t, u)
      BY DEF u, o
    <3>3. Black(t, q)
      <4>1. q # at
        BY <1>1, <1>2, <1>3, ChildBelow DEF q, o
      <4> QED
        BY <1>2, <4>1 DEF Pending, q
    <3>4. Black(r, u) /\ Black(r, q)
      <4>1. (u = Null \/ u \in Nodes) /\ (q = Null \/ q \in Nodes)
        BY <1>18 DEF Links
      <4> QED
        BY <1>3, <1>12, <1>14, <3>2, <3>3, <4>1 DEF Black
    <3> QED
      BY <1>12, <2>1, <3>1, <3>4
  <2>2. CASE n = p
    BY <1>3, <1>4, <1>14, <1>22, <2>2
  <2>3. CASE n # g /\ n # p
    <3> DEFINE m == t.link[n][s]
    <3>1. r.link[n][s] = IF m = g THEN p ELSE m
      BY <1>8, <1>9, <2>3 DEF IsRotated
    <3>2. m \in S \cup {Null} /\ (m = Null \/ m \in Nodes) /\ n \in Nodes
      BY <1>1 DEF Shape
    <3>3. t.color[n] = "red"
      BY <1>14, <1>22, <2>3, <3>2
    <3>4. m # at
      BY <1>1, <1>3, <2>3, ChildBelow
    <3>5. Black(t, m)
      BY <3>3, <3>4 DEF Pending
    <3> HIDE DEF m
    <3>6. CASE m = g
      BY <1>3, <1>4, <1>14, <3>1, <3>6 DEF Black
    <3>7. CASE m # g
      BY <1>14, <3>1, <3>2, <3>5, <3>7 DEF Black
    <3> QED
      BY <3>6, <3>7
  <2> QED
    BY <2>1, <2>2, <2>3
<1>23. r.color[at] = "red" /\ r.color[p] = "black"
  BY <1>3, <1>4, <1>11, <1>14 DEF Pending
<1>24. Black(r, r.root)
  <2>1. t.root # g => Black(t, t.root) /\ (t.root = Null \/ t.root \in Nodes)
    BY <1>1 DEF Pending, Shape
  <2> QED
    BY <1>4, <1>12, <1>14, <1>23, <2>1 DEF Black
<1>25. Pending(r, S, D, at)
  BY <1>16, <1>17, <1>20, <1>21, <1>22, <1>23, <1>24 DEF Pending, Depths
<1> QED
  BY <1>10, <1>12, <1>13, <1>23, <1>25

\* At the inner side, a rotation at the parent comes first.
LEMMA InsertInner ==
    ASSUME NEW t, NEW S, NEW rank, NEW w, Shape(t, S, rank, w), NEW B, NEW at \in S, Pending(t, S, B, at),
           NEW p \in S, NEW g \in S, NEW d \in Sides, t.link[g][d] = p, t.link[p][Other(d)] = at,
           t.color[p] = "red", t.color[g] = "black", t.root # at,
           NEW r, r = Rotate(t, p, d)
    PROVE  /\ r \in Trees /\ r.color = t.color /\ r.root # p
           /\ r.link[g][d] = at /\ r.link[at][d] = p /\ r.link[g][Other(d)] = t.link[g][Other(d)]
           /\ \E v : Shape(r, S, rank, v)
           /\ Pending(r, S, B, p)
<1> DEFINE o  == Other(d)
           v  == RotatedSub(t, w, p, at, d)
           D  == RotatedDepths(B, p, at, B[p])
<1>1. t \in Trees /\ ~t.fault /\ S \subseteq Nodes /\ \A n \in S : n # Null
  BY TreeAssumption DEF Shape
<1>2. o \in Sides /\ Other(o) = d /\ o # d
  BY OtherSide
<1>3. /\ p # g /\ at # p /\ t.parent[p] = g /\ t.parent[at] = p /\ t.link[g][o] # p
      /\ g \notin w[p] /\ at \in w[p]
  BY <1>1, <1>2, ChildBelow
<1>4. /\ at = t.link[p][Other(d)] /\ at # Null /\ at # g
      /\ p \in Links /\ g \in Links /\ Null \in Links /\ at \in Nodes /\ at \in Links
      /\ p \in Nodes /\ g \in Nodes
  BY <1>1, <1>3 DEF Links
<1>5. IsRotated(t, r, S, p, at, d)
  BY <1>4, RotateIs
<1>6. Shape(r, S, rank, v)
  BY <1>4, <1>5, RotateShape
<1> HIDE DEF v
<1>7. B \in [Links -> Nat] /\ B[Null] = 0 /\ B[p] \in Nat
  BY <1>4 DEF Pending, Depths
<1>8. B[at] = B[t.link[p][d]] /\ B[p] = B[at] /\ B[t.link[at][d]] = B[at] /\ B[t.link[at][o]] = B[at]
  <2>1. B[t.link[p][d]] = B[at] /\ B[p] = B[t.link[p][d]] + Blackness(t, p)
    BY LevelIs DEF Pending
  <2>2. B[t.link[at][d]] = B[t.link[at][o]] /\ B[at] = B[t.link[at][d]] + Blackness(t, at)
    BY LevelIs DEF Pending
  <2>3. Blackness(t, p) = 0 /\ Blackness(t, at) = 0
    BY DEF Blackness, Pending
  <2>4. B[t.link[p][d]] \in Nat /\ B[t.link[at][d]] \in Nat
    BY <1>1, <1>4, <1>7, TreeFields
  <2> QED
    BY <2>1, <2>2, <2>3, <2>4
<1>9. D = B
  BY <1>4, <1>7, <1>8 DEF RotatedDepths
<1>10. \A n \in S \ {p, at} : Level(t, B, n) => Level(r, D, n)
  <2>1. LevelsKept(t, r, S, B, D, p, at, B[p])
    BY <1>3, <1>5, <1>7, RotateLevel
  <2> QED
    BY <2>1 DEF LevelsKept
<1>11. /\ r \in Trees /\ r.color = t.color
       /\ r.link[p][d] = t.link[p][d] /\ r.link[p][o] = t.link[at][d]
       /\ r.link[at][d] = p /\ r.link[at][o] = t.link[at][o]
       /\ r.root = IF t.root = p THEN at ELSE t.root
  BY <1>5 DEF IsRotated
<1>12. r.link[g][d] = at /\ r.link[g][o] = t.link[g][o] /\ t.link[g][o] # at
  <2>1. \A s \in Sides : t.link[g][s] # at /\ r.link[g][s] = IF t.link[g][s] = p THEN at ELSE t.link[g][s]
    BY <1>3, <1>4, <1>5 DEF IsRotated
  <2> QED
    BY <1>2, <1>3, <2>1
<1>13. r.root # p
  BY <1>3, <1>11
<1>14. ASSUME NEW n \in S PROVE Level(r, B, n)
  <2>1. CASE n = p
    <3>1. Blackness(r, p) = 0
      BY <1>11 DEF Blackness
    <3>2. B[r.link[p][d]] = B[r.link[p][o]] /\ B[p] = B[r.link[p][d]] + 0
      BY <1>7, <1>8, <1>11
    <3> QED
      BY <2>1, <3>1, <3>2, LevelIs
  <2>2. CASE n = at
    <3>1. Blackness(r, at) = 0
      BY <1>11 DEF Blackness, Pending
    <3>2. B[r.link[at][d]] = B[r.link[at][o]] /\ B[at] = B[r.link[at][d]] + 0
      BY <1>7, <1>8, <1>11
    <3> QED
      BY <2>2, <3>1, <3>2, LevelIs
  <2>3. CASE n # p /\ n # at
    BY <1>9, <1>10, <2>3 DEF Pending
  <2> QED
    BY <2>1, <2>2, <2>3
<1>15. ASSUME NEW n \in S, NEW s \in Sides, r.color[n] = "red", r.link[n][s] # p
       PROVE  Black(r, r.link[n][s])
  <2>0. \A m : Black(r, m) <=> Black(t, m)
    BY <1>11 DEF Black
  <2>1. t.color[n] = "red" /\ (s = d \/ s = o)
    BY <1>11, <1>15, OtherSide
  <2>2. CASE n = p
    <3>1. t.link[p][d] # at /\ t.link[at][d] # at
      BY <1>1, <1>2, <1>4, ChildBelow
    <3>2. Black(t, t.link[p][d])
      BY <3>1 DEF Pending
    <3>3. Black(t, t.link[at][d])
      BY <3>1 DEF Pending
    <3> QED
      BY <1>11, <2>0, <2>1, <2>2, <3>2, <3>3
  <2>3. CASE n = at
    <3>1. s = o
      BY <1>11, <1>15, <2>1, <2>3
    <3>2. t.link[at][o] # at
      BY <1>1, <1>2, <1>4, ChildBelow
    <3>3. Black(t, t.link[at][o])
      BY <1>2, <2>1, <2>3, <3>2 DEF Pending
    <3> QED
      BY <1>11, <2>0, <2>3, <3>1, <3>3
  <2>4. CASE n # p /\ n # at
    <3>1. t.link[n][s] # at /\ r.link[n][s] = IF t.link[n][s] = p THEN at ELSE t.link[n][s]
      BY <1>5, <2>4 DEF IsRotated
    <3>2. Black(t, t.link[n][s])
      BY <2>1, <3>1 DEF Pending
    <3>3. ~Black(t, p)
      BY <1>1 DEF Black
    <3> QED
      BY <2>0, <3>1, <3>2, <3>3
  <2> QED
    BY <2>2, <2>3, <2>4
<1>16. r.color[p] = "red" /\ Black(r, r.root)
  <2>1. Black(t, t.root) /\ ~Black(t, p)
    BY <1>1 DEF Pending, Black
  <2>2. t.root # p
    BY <2>1
  <2> QED
    BY <1>11, <2>1, <2>2 DEF Black
<1>17. Pending(r, S, B, p)
  BY <1>7, <1>14, <1>15, <1>16 DEF Pending, Depths
<1> QED
  BY <1>6, <1>11, <1>12, <1>13, <1>17

\* The parent and the grandparent of a red element whose parent is red.
LEMMA InsertParents ==
    ASSUME NEW t, NEW S, NEW rank, NEW w, Shape(t, S, rank, w), NEW B, NEW at \in S, Pending(t, S, B, at),
           NEW p, p = t.parent[at], ~Black(t, p), NEW g, g = t.parent[p],
           NEW d, d = LeftOrRight(t, g, p)
    PROVE  /\ p \in S /\ g \in S /\ g # Null /\ p # at /\ d \in Sides /\ t.link[g][d] = p
           /\ at # t.root /\ t.color[p] = "red" /\ t.color[g] = "black"
           /\ (t.link[p][d] = at \/ t.link[p][Other(d)] = at)
           /\ Weight(w, g) > Weight(w, at) + 1
<1>1. S \subseteq Nodes /\ t \in Trees /\ \A n \in S : n # Null
  BY TreeAssumption DEF Shape
<1>2. p # Null /\ t.color[p] # "black"
  BY DEF Black
<1>3. at # t.root
  BY <1>2, ParentIsNull
<1>4. p \in S /\ \E s \in Sides : t.link[p][s] = at
  BY <1>3, ChildOfParent
<1>5. PICK s \in Sides : t.link[p][s] = at
  BY <1>4
<1>6. p # t.root
  BY <1>3 DEF Pending
<1>7. g \in S /\ \E m \in Sides : t.link[g][m] = p
  BY <1>4, <1>6, ChildOfParent
<1>8. d \in Sides /\ t.link[g][d] = p
  BY <1>7, OtherSide DEF LeftOrRight
<1>9. t.color[p] = "red" /\ t.color[g] \in Colors
  BY <1>1, <1>2, <1>4, <1>7, TreeFields DEF Colors
<1>10. p # at /\ at \in S
  BY <1>1, <1>4, <1>5, ChildBelow
<1>11. t.color[g] = "black"
  BY <1>7, <1>8, <1>9, <1>10 DEF Pending, Colors
<1>12. t.link[p][d] = at \/ t.link[p][Other(d)] = at
  BY <1>5, <1>8, OtherSide
<1>13. Weight(w, g) > Weight(w, at) + 1
  <2>1. Weight(w, at) < Weight(w, p) /\ Weight(w, p) < Weight(w, g)
    BY <1>4, <1>5, <1>7, <1>8, ChildWeight
  <2>2. Weight(w, at) \in Nat /\ Weight(w, p) \in Nat /\ Weight(w, g) \in Nat
    BY <1>4, <1>7, WeightType
  <2> QED
    BY <2>1, <2>2
<1> QED
  BY <1>1, <1>3, <1>4, <1>7, <1>8, <1>9, <1>10, <1>11, <1>12, <1>13

\* A turn of RB_INSERT_COLOR keeps the tree but for one red pair, which is
\* further up.
LEMMA InsertTurn ==
    ASSUME NEW S, NEW rank, NEW c, NEW i \in Nat, InsertWay(S, rank, c, i)
    PROVE  InsertWay(S, rank, Turn(InsertColorWhile, InsertColorBody, c), i + 1)
<1> DEFINE t == c.t
           at == c.at
           p == t.parent[at]
           g == t.parent[p]
           d == IF t.link[g]["left"] = p THEN "left" ELSE "right"
           o == Other(d)
           u == t.link[g][o]
           e == InsertColorBody(c)
<1>1. PICK w, B : /\ Shape(t, S, rank, w) /\ Pending(t, S, B, at)
                  /\ InsertColorWhile(c) => Weight(w, at) > i
  BY DEF InsertWay
<1>2. c \in Cursors /\ at \in S /\ ~t.fault /\ S \subseteq Nodes /\ Null \in Links /\ S \subseteq Links
  BY <1>1 DEF InsertWay, Shape, Links
<1>3. CASE ~InsertColorWhile(c)
  <2>1. Turn(InsertColorWhile, InsertColorBody, c) = c
    BY <1>3 DEF Turn, Goes
  <2> QED
    BY <1>1, <1>2, <1>3, <2>1 DEF InsertWay
<1>4. CASE InsertColorWhile(c)
  <2>1. Turn(InsertColorWhile, InsertColorBody, c) = e
    BY <1>2, <1>4 DEF Turn, Goes
  <2>2. ~Black(t, p) /\ Weight(w, at) > i /\ Weight(w, at) \in Nat
    BY <1>1, <1>2, <1>4, WeightType DEF InsertColorWhile
  <2>3. /\ p = t.parent[at] /\ g = t.parent[p] /\ o = Other(d) /\ u = t.link[g][o]
        /\ d = IF t.link[g]["left"] = p THEN "left" ELSE "right"
    OBVIOUS
  <2> HIDE DEF d
  <2>4. /\ p \in S /\ g \in S /\ g # Null /\ p # at /\ d \in Sides /\ t.link[g][d] = p
        /\ at # t.root /\ t.color[p] = "red" /\ t.color[g] = "black"
        /\ (t.link[p][d] = at \/ t.link[p][o] = at)
        /\ Weight(w, g) > Weight(w, at) + 1
    <3> HIDE DEF t, at, p, g, o, u
    <3>1. /\ Pending(t, S, B, at) /\ Shape(t, S, rank, w) /\ at \in S
          /\ p = t.parent[at] /\ ~Black(t, p) /\ g = t.parent[p]
          /\ d = LeftOrRight(t, g, p)
      BY <1>1, <1>2, <2>2, <2>3 DEF LeftOrRight
    <3>2. /\ p \in S /\ g \in S /\ g # Null /\ p # at /\ d \in Sides /\ t.link[g][d] = p
          /\ at # t.root /\ t.color[p] = "red" /\ t.color[g] = "black"
          /\ (t.link[p][d] = at \/ t.link[p][Other(d)] = at)
          /\ Weight(w, g) > Weight(w, at) + 1
      BY <3>1, InsertParents
    <3> QED
      BY <2>3, <3>2
  <2>5. CASE ~Black(t, u)
    <3> DEFINE r == SetBlackRed(Paint(t, u, "black"), p, g)
    <3>1. e = Cursor(r, g, Null)
      BY <2>4, <2>5 DEF InsertColorBody, d
    <3>2. r = SetBlackRed(Paint(t, u, "black"), p, g)
      OBVIOUS
    <3> HIDE DEF r
    <3>3. Shape(r, S, rank, w) /\ r \in Trees /\ \E D : Pending(r, S, D, g)
      <4> HIDE DEF t, at, p, g, o, u
      <4>1. /\ Pending(t, S, B, at) /\ Shape(t, S, rank, w) /\ at \in S /\ p \in S /\ g \in S
            /\ d \in Sides /\ t.link[g][d] = p /\ t.color[p] = "red" /\ t.color[g] = "black"
            /\ t.parent[at] = p /\ p # at /\ at # t.root /\ u = t.link[g][Other(d)] /\ ~Black(t, u)
            /\ r = SetBlackRed(Paint(t, u, "black"), p, g)
        BY <1>1, <1>2, <2>3, <2>4, <2>5, <3>2
      <4> QED
        BY <4>1, InsertRed
    <3>4. e.t = r /\ e.at = g /\ e \in Cursors
      BY <1>2, <2>4, <3>1, <3>3 DEF Cursor, Cursors
    <3>5. Weight(w, g) > i + 1
      BY <1>1, <2>2, <2>4, WeightType
    <3> HIDE DEF e
    <3> QED
      BY <2>1, <2>4, <3>3, <3>4, <3>5 DEF InsertWay
  <2>6. CASE Black(t, u) /\ t.link[p][o] # at
    <3> DEFINE r == Rotate(SetBlackRed(t, p, g), g, o)
    <3>1. e = Cursor(r, at, Null)
      BY <2>4, <2>6 DEF InsertColorBody, d
    <3>2. r = Rotate(SetBlackRed(t, p, g), g, o)
      OBVIOUS
    <3> HIDE DEF r
    <3>3. /\ r \in Trees /\ r.parent[at] = p /\ r.color[p] = "black"
          /\ \E v : Shape(r, S, rank, v)
          /\ \E D : Pending(r, S, D, at)
      <4> HIDE DEF t, at, p, g, o, u
      <4>1. /\ Pending(t, S, B, at) /\ Shape(t, S, rank, w) /\ at \in S /\ p \in S /\ g \in S
            /\ d \in Sides /\ t.link[g][d] = p /\ t.color[p] = "red" /\ t.color[g] = "black"
            /\ t.link[p][d] = at /\ Black(t, t.link[g][Other(d)]) /\ t.root # at
            /\ r = Rotate(SetBlackRed(t, p, g), g, Other(d))
        BY <1>1, <1>2, <2>3, <2>4, <2>6, <3>2
      <4> QED
        BY <4>1, InsertOuter
    <3>4. e.t = r /\ e.at = at /\ e \in Cursors
      BY <1>2, <2>4, <3>1, <3>3 DEF Cursor, Cursors
    <3>5. ~InsertColorWhile(e)
      BY <3>3, <3>4 DEF InsertColorWhile, Black
    <3> HIDE DEF e
    <3> QED
      BY <1>2, <2>1, <3>3, <3>4, <3>5 DEF InsertWay
  <2>7. CASE Black(t, u) /\ t.link[p][o] = at
    <3> DEFINE t1 == Rotate(t, p, d)
               r  == Rotate(SetBlackRed(t1, at, g), g, o)
    <3>1. e = Cursor(r, p, Null)
      BY <2>4, <2>7 DEF InsertColorBody, d
    <3>2. t1 = Rotate(t, p, d) /\ r = Rotate(SetBlackRed(t1, at, g), g, o)
      OBVIOUS
    <3> HIDE DEF r, t1
    <3>3. /\ t1 \in Trees /\ t1.color = t.color /\ t1.root # p
          /\ t1.link[g][d] = at /\ t1.link[at][d] = p /\ t1.link[g][o] = u
          /\ \E v : Shape(t1, S, rank, v)
          /\ Pending(t1, S, B, p)
      <4> HIDE DEF t, at, p, g, o, u
      <4>1. /\ Pending(t, S, B, at) /\ Shape(t, S, rank, w) /\ at \in S /\ p \in S /\ g \in S
            /\ d \in Sides /\ t.link[g][d] = p /\ t.color[p] = "red" /\ t.color[g] = "black"
            /\ t.link[p][Other(d)] = at /\ t.root # at /\ t1 = Rotate(t, p, d)
        BY <1>1, <1>2, <2>3, <2>4, <2>7, <3>2
      <4> QED
        <5>1. /\ t1 \in Trees /\ t1.color = t.color /\ t1.root # p
              /\ t1.link[g][d] = at /\ t1.link[at][d] = p /\ t1.link[g][Other(d)] = t.link[g][Other(d)]
              /\ \E v : Shape(t1, S, rank, v)
              /\ Pending(t1, S, B, p)
          BY <4>1, InsertInner
        <5> QED
          BY <2>3, <5>1
    <3>4. PICK v : Shape(t1, S, rank, v)
      BY <3>3
    <3>5. t1.color[at] = "red" /\ t1.color[g] = "black" /\ Black(t1, u)
      BY <1>1, <2>4, <2>7, <3>3 DEF Pending, Black
    <3>6. /\ r \in Trees /\ r.parent[p] = at /\ r.color[at] = "black"
          /\ \E x : Shape(r, S, rank, x)
          /\ \E D : Pending(r, S, D, p)
      <4> HIDE DEF t, at, p, g, o, u
      <4>1. /\ Pending(t1, S, B, p) /\ Shape(t1, S, rank, v) /\ at \in S /\ p \in S /\ g \in S
            /\ d \in Sides /\ t1.link[g][d] = at /\ t1.link[at][d] = p /\ t1.color[at] = "red"
            /\ t1.color[g] = "black" /\ Black(t1, t1.link[g][Other(d)]) /\ t1.root # p
            /\ r = Rotate(SetBlackRed(t1, at, g), g, Other(d))
        BY <1>2, <2>3, <2>4, <3>2, <3>3, <3>4, <3>5
      <4> QED
        BY <4>1, InsertOuter
    <3>7. e.t = r /\ e.at = p /\ e \in Cursors
      BY <1>2, <2>4, <3>1, <3>6 DEF Cursor, Cursors
    <3>8. ~InsertColorWhile(e)
      BY <3>6, <3>7 DEF InsertColorWhile, Black
    <3> HIDE DEF e
    <3> QED
      BY <2>1, <2>4, <3>6, <3>7, <3>8 DEF InsertWay
  <2> QED
    BY <2>5, <2>6, <2>7
<1> QED
  BY <1>3, <1>4

\* The loop ends where the parent is not red.
LEMMA InsertLoop ==
    ASSUME NEW S, NEW rank, NEW c, InsertWay(S, rank, c, 0)
    PROVE  \E e : InsertWay(S, rank, e, Size) /\ Loop(InsertColorWhile, InsertColorBody, c) = Ended(InsertColorWhile, e)
<1> DEFINE n == Size
           s[i \in 0 .. n] == IF i = 0 THEN c ELSE Turn(InsertColorWhile, InsertColorBody, s[i - 1])
           G == {x \in Cursors : \E i \in Nat : InsertWay(S, rank, x, i)}
           F == [x \in G |-> Turn(InsertColorWhile, InsertColorBody, x)]
<1>0. \A x : \A i \in Nat : InsertWay(S, rank, x, i) => InsertWay(S, rank, Turn(InsertColorWhile, InsertColorBody, x), i + 1)
  BY InsertTurn
<1>1. \A x \in G : Turn(InsertColorWhile, InsertColorBody, x) \in G
  <2>1. \A x : \A i \in Nat : InsertWay(S, rank, x, i) => x \in Cursors
    BY DEF InsertWay
  <2>2. \A i \in Nat : i + 1 \in Nat
    OBVIOUS
  <2> QED
    BY <1>0, <2>1, <2>2, Zenon
<1>2. F \in [G -> G] /\ \A x \in G : F[x] = Turn(InsertColorWhile, InsertColorBody, x)
  BY <1>1
<1>3. Loop(InsertColorWhile, InsertColorBody, c) = Ended(InsertColorWhile, s[n])
  BY DEF Loop
<1>4. n \in Nat /\ c \in G
  BY SizeType DEF InsertWay
<1> HIDE DEF F, G, n
<1>5. \E g : g = [i \in 0 .. n |-> IF i = 0 THEN c ELSE Turn(InsertColorWhile, InsertColorBody, g[i - 1])]
  <2>1. PICK g : IsRun(g, G, F, c, n)
    BY <1>2, <1>4, RunExists
  <2>2. ASSUME NEW i \in 0 .. n
        PROVE  g[i] = IF i = 0 THEN c ELSE Turn(InsertColorWhile, InsertColorBody, g[i - 1])
    BY <1>2, <1>4, <2>1 DEF IsRun
  <2>3. g = [i \in 0 .. n |-> IF i = 0 THEN c ELSE Turn(InsertColorWhile, InsertColorBody, g[i - 1])]
    BY <2>1, <2>2 DEF IsRun
  <2> QED
    BY <2>3
<1>6. s = [i \in 0 .. n |-> IF i = 0 THEN c ELSE Turn(InsertColorWhile, InsertColorBody, s[i - 1])]
  BY <1>5
<1> HIDE DEF s
<1>7. s[0] = c /\ \A i \in 0 .. n - 1 : s[i + 1] = Turn(InsertColorWhile, InsertColorBody, s[i])
  BY <1>4, <1>6
<1> DEFINE P == {i \in 0 .. n : InsertWay(S, rank, s[i], i)}
<1>8. 0 \in P
  BY <1>4, <1>7
<1>9. ASSUME NEW i \in 0 .. n - 1, i \in P PROVE i + 1 \in P
  <2>1. InsertWay(S, rank, s[i], i) /\ i \in Nat /\ i + 1 \in 0 .. n
    BY <1>4, <1>9
  <2>2. InsertWay(S, rank, Turn(InsertColorWhile, InsertColorBody, s[i]), i + 1)
    BY <1>0, <2>1
  <2> QED
    BY <1>7, <2>1, <2>2
<1> HIDE DEF P
<1>10. 0 .. n \subseteq P
  BY <1>4, <1>8, <1>9, UpTo
<1>11. InsertWay(S, rank, s[n], n)
  BY <1>4, <1>10 DEF P
<1> QED
  BY <1>3, <1>11 DEF n

\* A red root becomes black.
LEMMA RootBlackIs ==
    ASSUME NEW t, NEW S, NEW rank, NEW w, Shape(t, S, rank, w), NEW B, Depths(B),
           \A n \in S : Level(t, B, n),
           \A n \in S, s \in Sides : t.color[n] = "red" => Black(t, t.link[n][s]) \/ n = t.root
    PROVE  IsTree(RootBlack(t), S, rank)
<1> DEFINE r == RootBlack(t)
           m == t.root
           D == [B EXCEPT ![m] = B[t.link[m]["left"]] + 1]
<1>1. t \in Trees /\ ~t.fault /\ m \in S \cup {Null} /\ S \subseteq Nodes /\ m \in Links
  BY DEF Shape, Links
<1>2. Painted(t, r, m, "black")
  BY <1>1, PaintedIs DEF RootBlack, Colors
<1> HIDE DEF r
<1>3. SameLinks(t, r) /\ r.link = t.link /\ r.root = m
      /\ \A n \in Nodes : r.color[n] = IF n = m THEN "black" ELSE t.color[n]
  BY <1>2 DEF Painted, SameLinks
<1>4. Shape(r, S, rank, w)
  BY <1>3, SameShape
<1>5. CASE m = Null
  <2>1. S = {}
    BY <1>5 DEF Shape
  <2>2. Coloured(r, S, B)
    BY <1>3, <1>5, <2>1 DEF Coloured, Black
  <2> QED
    BY <1>4, <2>2 DEF IsTree, r
<1>6. CASE m # Null
  <2>1. m \in S /\ m \in Nodes /\ \A n \in S, s \in Sides : t.link[n][s] # m /\ t.link[n][s] \in Links
    <3>1. ASSUME NEW n \in S, NEW s \in Sides, t.link[n][s] = m PROVE FALSE
      <4>1. t.parent[m] = n /\ t.parent[m] = Null
        BY <1>6, <3>1 DEF Shape
      <4> QED
        BY <1>1, <4>1, TreeAssumption
    <3> QED
      BY <1>1, <1>6, <3>1 DEF Shape, Links
  <2>2. B \in [Links -> Nat] /\ B[Null] = 0 /\ Null \in Links
    BY DEF Depths, Links
  <2>3. B[t.link[m]["left"]] + 1 \in Nat
    BY <2>1, <2>2, OtherSide
  <2>4. D \in [Links -> Nat] /\ D[Null] = 0 /\ D[m] = B[t.link[m]["left"]] + 1
        /\ \A n \in Links : n # m => D[n] = B[n]
    BY <1>1, <1>6, <2>2, <2>3
  <2> HIDE DEF D
  <2>5. ASSUME NEW n \in S PROVE Level(r, D, n)
    <3>1. /\ D[t.link[n]["left"]] = B[t.link[n]["left"]]
          /\ D[t.link[n]["right"]] = B[t.link[n]["right"]]
      BY <2>1, <2>4, OtherSide
    <3>2. Level(t, B, n) /\ n \in Nodes /\ n \in Links
      BY <1>1 DEF Links
    <3>3. CASE n = m
      <4>1. Blackness(r, n) = 1
        BY <1>3, <3>2, <3>3 DEF Blackness
      <4> QED
        BY <1>3, <2>4, <3>1, <3>2, <3>3, <4>1 DEF Level
    <3>4. CASE n # m
      <4>1. Blackness(r, n) = Blackness(t, n) /\ D[n] = B[n]
        BY <1>3, <2>4, <3>2, <3>4 DEF Blackness
      <4> QED
        BY <1>3, <3>1, <3>2, <4>1 DEF Level
    <3> QED
      BY <3>3, <3>4
  <2>6. ASSUME NEW n \in S, NEW s \in Sides, r.color[n] = "red" PROVE Black(r, r.link[n][s])
    <3>1. n # m /\ t.color[n] = "red"
      BY <1>1, <1>3, <2>6
    <3>2. Black(t, t.link[n][s]) /\ t.link[n][s] \in Links
      BY <2>1, <3>1
    <3> QED
      BY <1>3, <3>2 DEF Black, Links
  <2>7. Black(r, r.root)
    BY <1>3, <2>1 DEF Black
  <2>8. Coloured(r, S, D)
    BY <2>4, <2>5, <2>6, <2>7 DEF Coloured, Depths
  <2> QED
    BY <1>4, <2>8 DEF IsTree, r
<1> QED
  BY <1>5, <1>6

\* RB_INSERT_COLOR makes a red-black tree of a tree with a new red element.
LEMMA InsertColorIs ==
    ASSUME NEW t, NEW S, NEW rank, NEW w, Shape(t, S, rank, w), NEW B, NEW x \in S, Pending(t, S, B, x),
           Weight(w, x) > 0
    PROVE  IsTree(InsertColor(t, x), S, rank)
<1> DEFINE c == Cursor(t, x, Null)
<1>1. InsertWay(S, rank, c, 0)
  <2>1. c.t = t /\ c.at = x /\ c \in Cursors
    BY DEF Cursor, Cursors, Shape, Links
  <2> HIDE DEF c
  <2> QED
    BY <2>1 DEF InsertWay
<1>2. InsertColor(t, x) = RootBlack(Loop(InsertColorWhile, InsertColorBody, c).t)
  BY DEF InsertColor
<1> HIDE DEF c
<1>3. PICK e : /\ InsertWay(S, rank, e, Size)
               /\ Loop(InsertColorWhile, InsertColorBody, c) = Ended(InsertColorWhile, e)
  BY <1>1, InsertLoop
<1>4. PICK v, D : /\ Shape(e.t, S, rank, v) /\ Pending(e.t, S, D, e.at)
                  /\ InsertColorWhile(e) => Weight(v, e.at) > Size
  BY <1>3 DEF InsertWay
<1>5. e.at \in S /\ ~InsertColorWhile(e)
  <2>1. e.at \in S
    BY <1>3 DEF InsertWay
  <2>2. Weight(v, e.at) \in 0 .. Size
    BY <1>4, <2>1, WeightType
  <2> QED
    BY <1>4, <2>1, <2>2, SizeType
<1>6. Loop(InsertColorWhile, InsertColorBody, c) = e
  BY <1>3, <1>5 DEF Ended, Goes
<1>7. ASSUME NEW n \in S, NEW s \in Sides, e.t.color[n] = "red"
      PROVE  Black(e.t, e.t.link[n][s]) \/ n = e.t.root
  <2>1. CASE e.t.link[n][s] = e.at
    <3>1. e.t.parent[e.at] = n
      BY <1>4, <1>5, <2>1, ChildBelow, TreeAssumption DEF Shape
    <3>2. Black(e.t, n) /\ n # Null
      BY <1>4, <1>5, <3>1, TreeAssumption DEF InsertColorWhile, Shape
    <3> QED
      BY <1>7, <3>2 DEF Black
  <2>2. CASE e.t.link[n][s] # e.at
    BY <1>4, <1>7, <2>2 DEF Pending
  <2> QED
    BY <2>1, <2>2
<1>8. Depths(D) /\ \A n \in S : Level(e.t, D, n)
  BY <1>4 DEF Pending
<1> QED
  BY <1>2, <1>4, <1>6, <1>7, <1>8, RootBlackIs

-----------------------------------------------------------------------------
(* RB_INSERT.                                                              *)

\* A red leaf x below up.
Leaf(t, x, up, sd) ==
    LET r == [Zeroed(t, x) EXCEPT !.parent[x] = up, !.color[x] = "red"]
    IN  IF up = Null THEN [r EXCEPT !.root = x] ELSE [r EXCEPT !.link[up][sd] = x]
IsLeaf(t, r, x, up, sd) ==
    /\ r \in Trees /\ ~r.fault
    /\ r.root = IF up = Null THEN x ELSE t.root
    /\ \A n \in Nodes, s \in Sides :
           r.link[n][s] = IF n = x THEN Null ELSE IF n = up /\ s = sd THEN x ELSE t.link[n][s]
    /\ \A n \in Nodes : r.parent[n] = IF n = x THEN up ELSE t.parent[n]
    /\ \A n \in Nodes : r.color[n] = IF n = x THEN "red" ELSE t.color[n]
LeafSub(w, x, up) ==
    [n \in Links |-> IF n = x THEN {x} ELSE IF up \in w[n] THEN w[n] \cup {x} ELSE w[n]]

\* The memset of an entry clears its fields and no others.
LEMMA ZeroedIs ==
    ASSUME NEW t \in Trees, NEW x \in Nodes
    PROVE  LET r == Zeroed(t, x) IN
           /\ r \in Trees /\ r.root = t.root /\ r.fault = t.fault
           /\ \A n \in Nodes, s \in Sides : r.link[n][s] = IF n = x THEN Null ELSE t.link[n][s]
           /\ \A n \in Nodes : r.parent[n] = IF n = x THEN Null ELSE t.parent[n]
           /\ \A n \in Nodes : r.color[n] = IF n = x THEN "black" ELSE t.color[n]
  BY DEF Trees, Zeroed, Links, Colors

\* The assignments of RB_INSERT before it mends the colors.
LEMMA LeafIs ==
    ASSUME NEW t \in Trees, ~t.fault, NEW x \in Nodes, NEW up \in Links, up # x, NEW sd \in Sides
    PROVE  IsLeaf(t, Leaf(t, x, up, sd), x, up, sd)
<1> DEFINE z  == Zeroed(t, x)
           r0 == [z EXCEPT !.parent[x] = up, !.color[x] = "red"]
           r  == IF up = Null THEN PutRoot(r0, x) ELSE PutLink(r0, up, sd, x)
<1>1. Leaf(t, x, up, sd) = r
  BY DEF Leaf, PutRoot, PutLink
<1>2. /\ z \in Trees /\ z.root = t.root /\ z.fault = t.fault
      /\ \A n \in Nodes, s \in Sides : z.link[n][s] = IF n = x THEN Null ELSE t.link[n][s]
      /\ \A n \in Nodes : z.parent[n] = IF n = x THEN Null ELSE t.parent[n]
      /\ \A n \in Nodes : z.color[n] = IF n = x THEN "black" ELSE t.color[n]
  BY ZeroedIs
<1> HIDE DEF z
<1>3. /\ r0 \in Trees /\ r0.root = z.root /\ r0.fault = z.fault /\ r0.link = z.link
      /\ \A n \in Nodes : r0.parent[n] = IF n = x THEN up ELSE z.parent[n]
      /\ \A n \in Nodes : r0.color[n] = IF n = x THEN "red" ELSE z.color[n]
  BY <1>2 DEF Trees, Colors
<1> HIDE DEF r0
<1>4. CASE up = Null
  <2>1. RootSet(r0, r, x)
    BY <1>3, <1>4, PutRootIs DEF Links
  <2> HIDE DEF r
  <2> QED
    BY <1>1, <1>2, <1>3, <1>4, <2>1, TreeAssumption DEF RootSet, IsLeaf
<1>5. CASE up # Null
  <2>1. LinkSet(r0, r, up, sd, x)
    BY <1>3, <1>5, PutLinkIs DEF Links
  <2> HIDE DEF r
  <2> QED
    BY <1>1, <1>2, <1>3, <1>5, <2>1 DEF LinkSet, IsLeaf
<1> QED
  BY <1>4, <1>5

\* The tree with the new leaf is a search tree of one more element.
LEMMA LeafShape ==
    ASSUME NEW t, NEW S, NEW rank, NEW w, Shape(t, S, rank, w), NEW x \in Nodes \ S, NEW up, NEW sd \in Sides,
           (up = Null /\ t.root = Null) \/ (up \in S /\ t.link[up][sd] = Null /\ Before(rank, sd, x, up)),
           \A a \in S, s \in Sides : up \in w[t.link[a][s]] => Before(rank, s, x, a),
           NEW r, IsLeaf(t, r, x, up, sd)
    PROVE  Shape(r, S \cup {x}, rank, LeafSub(w, x, up))
<1> DEFINE v == LeafSub(w, x, up)
           U == S \cup {x}
<1>1. /\ t \in Trees /\ S \subseteq Nodes /\ x \in Nodes /\ x # Null /\ x \notin S /\ rank \in [Nodes -> Int]
      /\ w \in [Links -> SUBSET S] /\ w[Null] = {} /\ w[t.root] = S /\ t.root \in S \cup {Null}
      /\ \A n \in S : n # Null /\ n # x /\ n \in Links /\ n \in Nodes
      /\ Null \in Links /\ x \in Links
  BY TreeAssumption DEF Shape, Links
<1>2. /\ v \in [Links -> SUBSET U] /\ v[x] = {x}
      /\ \A n \in Links : n # x => \A y : y \in v[n] <=> y \in w[n] \/ (y = x /\ up \in w[n])
  BY <1>1 DEF LeafSub
<1>3. /\ r \in Trees /\ ~r.fault /\ r.root = IF up = Null THEN x ELSE t.root
      /\ \A s \in Sides : r.link[x][s] = Null
      /\ \A n \in S, s \in Sides : r.link[n][s] = IF n = up /\ s = sd THEN x ELSE t.link[n][s]
      /\ \A n \in Nodes : r.parent[n] = IF n = x THEN up ELSE t.parent[n]
  BY <1>1 DEF IsLeaf
<1> HIDE DEF v
<1>4. \A n \in S, s \in Sides : t.link[n][s] \in S \cup {Null} /\ t.link[n][s] \in Links /\ t.link[n][s] # x
  BY <1>1 DEF Shape
<1>5. r.root \in U \cup {Null} /\ (r.root # Null => r.parent[r.root] = Null) /\ v[r.root] = U /\ v[Null] = {}
  <2>1. v[Null] = {}
    BY <1>1, <1>2
  <2>2. CASE up = Null
    <3>1. S = {}
      BY <1>1, <2>2
    <3> QED
      BY <1>1, <1>2, <1>3, <2>1, <2>2, <3>1
  <2>3. CASE up # Null
    <3>1. up \in S /\ t.root \in S /\ t.root # x /\ t.root \in Links /\ t.root \in Nodes
      BY <1>1, <2>3
    <3>2. t.parent[t.root] = Null
      BY <1>1, <3>1 DEF Shape
    <3>3. v[t.root] = U
      BY <1>1, <1>2, <3>1
    <3> QED
      BY <1>3, <2>1, <2>3, <3>1, <3>2, <3>3
  <2> QED
    BY <2>2, <2>3
<1>6. \A n \in U, s \in Sides : r.link[n][s] \in U \cup {Null}
  BY <1>3, <1>4
<1>7. ASSUME NEW n \in U, NEW s \in Sides, r.link[n][s] # Null PROVE r.parent[r.link[n][s]] = n
  <2>1. n \in S
    BY <1>3, <1>7
  <2>2. CASE n = up /\ s = sd
    BY <1>1, <1>3, <2>1, <2>2
  <2>3. CASE ~(n = up /\ s = sd)
    <3>1. r.link[n][s] = t.link[n][s] /\ t.link[n][s] \in S
      BY <1>3, <1>4, <1>7, <2>1, <2>3
    <3>2. t.parent[t.link[n][s]] = n
      BY <1>1, <2>1, <3>1 DEF Shape
    <3> QED
      BY <1>1, <1>3, <3>1, <3>2
  <2> QED
    BY <2>2, <2>3
<1>8. ASSUME NEW n \in S, NEW s \in Sides, NEW y
      PROVE  y \in v[r.link[n][s]] <=> \/ y \in w[t.link[n][s]]
                                       \/ y = x /\ (up \in w[t.link[n][s]] \/ (n = up /\ s = sd))
  <2>1. CASE n = up /\ s = sd
    <3>1. r.link[n][s] = x /\ t.link[n][s] = Null
      BY <1>1, <1>3, <2>1
    <3> QED
      BY <1>1, <1>2, <2>1, <3>1
  <2>2. CASE ~(n = up /\ s = sd)
    BY <1>2, <1>3, <1>4, <2>2
  <2> QED
    BY <2>1, <2>2
<1>9. \A n \in S : \A y : y \in w[n] <=> y = n \/ y \in w[t.link[n]["left"]] \/ y \in w[t.link[n]["right"]]
  BY DEF Shape
<1>10. ASSUME NEW n \in U, NEW y
       PROVE  y \in v[n] <=> y = n \/ y \in v[r.link[n]["left"]] \/ y \in v[r.link[n]["right"]]
  <2>1. CASE n = x
    <3>1. r.link[n]["left"] = Null /\ r.link[n]["right"] = Null
      BY <1>3, <2>1, OtherSide
    <3> QED
      BY <1>2, <1>5, <2>1, <3>1
  <2>2. CASE n \in S
    <3>1. y \in v[n] <=> y \in w[n] \/ (y = x /\ up \in w[n])
      BY <1>1, <1>2, <2>2
    <3>2. /\ y \in w[n] <=> y = n \/ y \in w[t.link[n]["left"]] \/ y \in w[t.link[n]["right"]]
          /\ up \in w[n] <=> up = n \/ up \in w[t.link[n]["left"]] \/ up \in w[t.link[n]["right"]]
      BY <1>9, <2>2
    <3>3. /\ y \in v[r.link[n]["left"]] <=> \/ y \in w[t.link[n]["left"]]
                                            \/ y = x /\ (up \in w[t.link[n]["left"]] \/ (n = up /\ "left" = sd))
          /\ y \in v[r.link[n]["right"]] <=> \/ y \in w[t.link[n]["right"]]
                                             \/ y = x /\ (up \in w[t.link[n]["right"]] \/ (n = up /\ "right" = sd))
      BY <1>8, <2>2, OtherSide
    <3>4. sd = "left" \/ sd = "right"
      BY OtherSide
    <3> QED
      BY <3>1, <3>2, <3>3, <3>4
  <2> QED
    BY <2>1, <2>2
<1>11. ASSUME NEW n \in U, NEW s \in Sides, NEW y \in v[r.link[n][s]] PROVE Before(rank, s, y, n)
  <2>1. CASE n = x
    BY <1>3, <1>5, <1>11, <2>1
  <2>2. CASE n \in S
    <3>1. \A a \in w[t.link[n][s]] : Before(rank, s, a, n)
      BY <2>2 DEF Shape
    <3> QED
      BY <1>1, <1>8, <1>11, <2>2, <3>1
  <2> QED
    BY <2>1, <2>2
<1>12. U \subseteq Nodes
  BY <1>1
<1> HIDE DEF U
<1>13. Shape(r, U, rank, v)
  BY <1>1, <1>2, <1>3, <1>5, <1>6, <1>7, <1>10, <1>11, <1>12 DEF Shape
<1> QED
  BY <1>13 DEF U, v

\* The new leaf is red: the levels are kept, and only its parent may be red too.
LEMMA LeafPending ==
    ASSUME NEW t, NEW S, NEW rank, NEW w, Shape(t, S, rank, w), NEW B, Coloured(t, S, B),
           NEW x \in Nodes \ S, NEW up, NEW sd \in Sides,
           (up = Null /\ t.root = Null) \/ (up \in S /\ t.link[up][sd] = Null),
           NEW r, IsLeaf(t, r, x, up, sd)
    PROVE  \E D : Pending(r, S \cup {x}, D, x)
<1> DEFINE D == [B EXCEPT ![x] = 0]
<1>1. /\ t \in Trees /\ S \subseteq Nodes /\ x \in Nodes /\ x # Null /\ x \notin S /\ t.root \in S \cup {Null}
      /\ \A n \in S : n # Null /\ n # x /\ n \in Links /\ n \in Nodes
      /\ Null \in Links /\ x \in Links
      /\ \A n \in S, s \in Sides : t.link[n][s] \in S \cup {Null}
  BY TreeAssumption DEF Shape, Links
<1>2. B \in [Links -> Nat] /\ B[Null] = 0
  BY DEF Coloured, Depths
<1>3. D \in [Links -> Nat] /\ D[Null] = 0 /\ D[x] = 0 /\ \A n \in Links : n # x => D[n] = B[n]
  BY <1>1, <1>2
<1> HIDE DEF D
<1>4. /\ r.root = IF up = Null THEN x ELSE t.root
      /\ \A s \in Sides : r.link[x][s] = Null
      /\ \A n \in S, s \in Sides : r.link[n][s] = IF n = up /\ s = sd THEN x ELSE t.link[n][s]
      /\ \A n \in Nodes : r.color[n] = IF n = x THEN "red" ELSE t.color[n]
  BY <1>1 DEF IsLeaf
<1>5. Level(r, D, x)
  <2>1. r.link[x]["left"] = Null /\ r.link[x]["right"] = Null
    BY <1>4, OtherSide
  <2>2. Blackness(r, x) = 0
    BY <1>1, <1>4 DEF Blackness
  <2> QED
    BY <1>3, <2>1, <2>2 DEF Level
<1>6. ASSUME NEW n \in S PROVE Level(r, D, n)
  <2>1. ASSUME NEW s \in Sides PROVE D[r.link[n][s]] = B[t.link[n][s]]
    <3>1. CASE n = up /\ s = sd
      BY <1>1, <1>2, <1>3, <1>4, <3>1
    <3>2. CASE ~(n = up /\ s = sd)
      BY <1>1, <1>3, <1>4, <3>2
    <3> QED
      BY <3>1, <3>2
  <2>2. D[n] = B[n] /\ Blackness(r, n) = Blackness(t, n)
    BY <1>1, <1>3, <1>4 DEF Blackness
  <2>3. Level(t, B, n)
    BY DEF Coloured
  <2>4. D[r.link[n]["left"]] = B[t.link[n]["left"]] /\ D[r.link[n]["right"]] = B[t.link[n]["right"]]
    BY <2>1, OtherSide
  <2> QED
    BY <2>2, <2>3, <2>4 DEF Level
<1>7. ASSUME NEW n \in S \cup {x}, NEW s \in Sides, r.color[n] = "red", r.link[n][s] # x
      PROVE  Black(r, r.link[n][s])
  <2>1. CASE n = x
    BY <1>4, <2>1 DEF Black
  <2>2. CASE n \in S
    <3>1. t.color[n] = "red" /\ r.link[n][s] = t.link[n][s] /\ t.link[n][s] \in S \cup {Null}
      BY <1>1, <1>4, <1>7, <2>2
    <3>2. Black(t, t.link[n][s])
      BY <2>2, <3>1 DEF Coloured
    <3> QED
      BY <1>1, <1>4, <1>7, <3>1, <3>2 DEF Black
  <2> QED
    BY <2>1, <2>2
<1>8. r.color[x] = "red"
  BY <1>1, <1>4
<1>9. r.root # x => Black(r, r.root)
  <2>1. Black(t, t.root)
    BY DEF Coloured
  <2> QED
    BY <1>1, <1>4, <2>1 DEF Black
<1>10. Pending(r, S \cup {x}, D, x)
  BY <1>3, <1>5, <1>6, <1>7, <1>8, <1>9 DEF Pending, Depths
<1> QED
  BY <1>10

\* RB_INSERT adds an element whose key is not in the tree.
LEMMA InsertIs ==
    ASSUME NEW t, NEW S, NEW rank, IsTree(t, S, rank), NEW x \in Nodes \ S, NEW key,
           Ranks(rank, key, S \cup {x})
    PROVE  IsTree(Insert(t, key, x), S \cup {x}, rank)
<1> DEFINE k == key[x]
           c == Descent(t, key, k)
           up == c.up
           sd == Side(key, k, up)
           r  == Leaf(t, x, up, sd)
<1>1. PICK w, B : Shape(t, S, rank, w) /\ Coloured(t, S, B)
  BY DEF IsTree
<1>2. Ranks(rank, key, S)
  BY DEF Ranks
<1>3. /\ OnTheWay(t, S, w, key, k, c, Size) /\ ~c.t.fault
      /\ c.at # Null => c.at \in S /\ Cmp(k, key[c.at]) = 0
  BY <1>1, <1>2, DescentIs
<1>4. Insert(t, key, x) = InsertBelow(c, key, x)
  BY DEF Insert
<1>5. k = key[x] /\ up = c.up /\ sd = Side(key, k, up) /\ r = Leaf(t, x, up, sd)
  OBVIOUS
<1> HIDE DEF c, k
<1>6. c.t = t
  BY <1>3 DEF OnTheWay
<1>7. c.at = Null
  <2> SUFFICES ASSUME c.at # Null PROVE FALSE
    OBVIOUS
  <2>1. c.at \in S /\ Cmp(key[x], key[c.at]) = 0
    BY <1>3, <1>5
  <2>2. x = c.at
    BY <2>1 DEF Ranks
  <2> QED
    BY <2>1, <2>2
<1>8. InsertBelow(c, key, x) = InsertColor(r, x)
  BY <1>3, <1>6, <1>7 DEF InsertBelow, Leaf, k
<1> HIDE DEF r, up, sd
<1>9. sd \in Sides
  BY <1>5 DEF Side, Sides
<1>10. \A a \in S : Before(rank, Side(key, k, a), x, a)
  <2> SUFFICES ASSUME NEW a \in S PROVE Before(rank, Side(key, k, a), x, a)
    OBVIOUS
  <2>1. rank[x] \in Int /\ rank[a] \in Int
    BY <1>1 DEF Ranks, Shape
  <2>2. Cmp(k, key[a]) < 0 <=> rank[x] < rank[a]
    BY <1>5 DEF Ranks
  <2>3. rank[x] # rank[a]
    BY DEF Ranks
  <2> QED
    BY <2>1, <2>2, <2>3 DEF Before, Side
<1>11. \/ up = Null /\ t.root = Null
       \/ up \in S /\ t.link[up][sd] = Null /\ Before(rank, sd, x, up)
  <2>1. \/ up = Null /\ c.at = t.root
        \/ up \in S /\ c.at = t.link[up][sd]
    BY <1>3, <1>5 DEF OnTheWay
  <2>2. up \in S => Before(rank, sd, x, up)
    BY <1>5, <1>10
  <2> QED
    BY <1>7, <2>1, <2>2
<1>12. \A a \in S, s \in Sides : up \in w[t.link[a][s]] => Before(rank, s, x, a)
  <2>1. \A a \in S, s \in Sides : up \in w[t.link[a][s]] => s = Side(key, k, a)
    BY <1>3, <1>5 DEF OnTheWay
  <2> QED
    BY <1>10, <2>1
<1>13. t \in Trees /\ ~t.fault /\ up \in Links /\ up # x
  BY <1>1, <1>11, TreeAssumption DEF Shape, Links
<1>14. IsLeaf(t, r, x, up, sd)
  BY <1>5, <1>9, <1>13, LeafIs
<1>15. Shape(r, S \cup {x}, rank, LeafSub(w, x, up))
  BY <1>1, <1>9, <1>11, <1>12, <1>14, LeafShape
<1>16. PICK D : Pending(r, S \cup {x}, D, x)
  BY <1>1, <1>9, <1>11, <1>14, LeafPending
<1> DEFINE v == LeafSub(w, x, up)
<1>17. Weight(v, x) > 0
  <2>1. Weight(v, x) \in Nat /\ Weight(v, x) # 0
    BY <1>15, WeightType, TreeAssumption
  <2> QED
    BY <2>1
<1> HIDE DEF v
<1>18. IsTree(InsertColor(r, x), S \cup {x}, rank)
  BY <1>15, <1>16, <1>17, InsertColorIs DEF v
<1> QED
  BY <1>4, <1>8, <1>18

-----------------------------------------------------------------------------
(* RB_REMOVE_COLOR.  The ways down through at pass one black element too   *)
(* few; at is on side d of up.                                             *)

Short(t, B, at, up, d) ==
    /\ t.link[up][d] = at /\ B[t.link[up][Other(d)]] = B[at] + 1
    /\ B[up] = B[at] + 1 + Blackness(t, up)

\* The element at is black, and its parent is up.
Stage(t, S, rank, w, B, at, up, d) ==
    /\ Shape(t, S, rank, w) /\ Depths(B)
    /\ \A n \in S, s \in Sides : t.color[n] = "red" => Black(t, t.link[n][s])
    /\ Black(t, t.root) /\ Black(t, at)
    /\ up \in S /\ d \in Sides /\ at \in S \cup {Null}
    /\ \A n \in S \ {up} : Level(t, B, n)
    /\ Short(t, B, at, up, d)

\* The element at may be red: then a red element is above or below it.
Lacks(t, S, B, at, up) ==
    /\ Depths(B)
    /\ \A n \in S, s \in Sides :
           t.color[n] = "red" /\ n # at /\ t.link[n][s] # at => Black(t, t.link[n][s])
    /\ Black(t, t.root) \/ t.root = at
    /\ at \in S \cup {Null}
    /\ \A n \in S \ {up} : Level(t, B, n)
    /\ up = Null => at = t.root
    /\ up # Null => up \in S /\ \E d \in Sides : Short(t, B, at, up, d)

StageIs(t, S, w, B, at, up, d, tmp, near, far) ==
    /\ t \in Trees /\ ~t.fault /\ S \subseteq Nodes
    /\ \A n \in S : n # Null /\ n \in Nodes /\ n \in Links
    /\ at \in Links /\ near \in Links /\ far \in Links /\ Null \in Links
    /\ tmp \in S /\ tmp # up /\ tmp # at /\ at # up /\ up \in S
    /\ t.parent[tmp] = up /\ tmp \in w[up]
    /\ near \in S \cup {Null} /\ far \in S \cup {Null} /\ at \in S \cup {Null}
    /\ near # up /\ near # tmp /\ far # up /\ far # tmp
    /\ (at \in S => at # near /\ at # far) /\ (near \in S => near # far)
    /\ B \in [Links -> Nat] /\ B[Null] = 0 /\ B[at] \in Nat
    /\ B[tmp] = B[at] + 1 /\ B[up] = B[at] + 1 + Blackness(t, up)
    /\ B[near] = B[far] /\ B[tmp] = B[near] + Blackness(t, tmp) /\ B[near] \in Nat

\* The sibling of the element that lacks a black one exists, and its children
\* are different elements.
LEMMA StageFacts ==
    ASSUME NEW t, NEW S, NEW rank, NEW w, NEW B, NEW at, NEW up, NEW d, Stage(t, S, rank, w, B, at, up, d),
           NEW tmp, t.link[up][Other(d)] = tmp
    PROVE  StageIs(t, S, w, B, at, up, d, tmp, t.link[tmp][d], t.link[tmp][Other(d)])
<1> DEFINE o == Other(d)
           near == t.link[tmp][d]
           far == t.link[tmp][o]
<1>1. /\ t \in Trees /\ ~t.fault /\ S \subseteq Nodes /\ Shape(t, S, rank, w)
      /\ \A n \in S : n # Null /\ n \in Nodes /\ n \in Links
      /\ d \in Sides /\ up \in S /\ at \in S \cup {Null} /\ at \in Links /\ Null \in Links
      /\ B \in [Links -> Nat] /\ B[Null] = 0
  BY TreeAssumption DEF Stage, Shape, Links, Depths
<1>2. t.link[up][d] = at /\ B[tmp] = B[at] + 1 /\ B[up] = B[at] + 1 + Blackness(t, up)
  BY DEF Stage, Short
<1>3. B[at] \in Nat /\ tmp # Null
  BY <1>1, <1>2
<1>4. o \in Sides /\ o # d /\ Other(o) = d
  BY <1>1, OtherSide
<1>5. /\ tmp \in S /\ tmp # up /\ t.parent[tmp] = up /\ tmp # at /\ up \notin w[tmp] /\ tmp \in w[tmp]
      /\ tmp \in w[up]
  <2>1. /\ tmp \in S /\ tmp # up /\ t.parent[tmp] = up /\ up \notin w[tmp] /\ tmp \in w[tmp]
        /\ w[tmp] \subseteq w[up] /\ t.link[up][Other(o)] # tmp
    BY <1>1, <1>3, <1>4, ChildBelow
  <2> QED
    BY <1>2, <1>4, <2>1
<1>6. at # up /\ (at # Null => t.parent[at] = up)
  BY <1>1, <1>2, <1>4, ChildBelow
<1>7. near \in S \cup {Null} /\ far \in S \cup {Null} /\ near \in Links /\ far \in Links
  BY <1>1, <1>4, <1>5 DEF Shape
<1>8. near # Null => near # up /\ near # tmp /\ t.parent[near] = tmp /\ near # far
  BY <1>1, <1>5, ChildBelow
<1>9. far # Null => far # up /\ far # tmp /\ t.parent[far] = tmp
  BY <1>1, <1>4, <1>5, ChildBelow
<1>10. Level(t, B, tmp)
  BY <1>5 DEF Stage
<1>11. B[near] = B[far] /\ B[tmp] = B[near] + Blackness(t, tmp)
  BY <1>1, <1>10 DEF Level, Sides, Other
<1>12. B[near] \in Nat
  BY <1>1, <1>7
<1> HIDE DEF near, far
<1>13. StageIs(t, S, w, B, at, up, d, tmp, near, far)
  BY <1>1, <1>2, <1>3, <1>5, <1>6, <1>7, <1>8, <1>9, <1>11, <1>12 DEF StageIs
<1> QED
  BY <1>13 DEF near, far

\* The elements that a rotation does not move.
LEMMA RotatedLink ==
    ASSUME NEW t, NEW r, NEW S, NEW elm, NEW tmp, NEW d, IsRotated(t, r, S, elm, tmp, d),
           NEW n \in S, n # elm, n # tmp, NEW s \in Sides
    PROVE  r.link[n][s] = IF t.link[n][s] = elm THEN tmp ELSE t.link[n][s]
  BY DEF IsRotated

\* The levels of the elements that a rotation moves.
LEMMA LevelOf ==
    ASSUME NEW r, NEW D, NEW n, NEW d \in Sides, D[r.link[n][d]] = D[r.link[n][Other(d)]],
           D[n] = D[r.link[n][d]] + Blackness(r, n)
    PROVE  Level(r, D, n)
  BY LevelIs

\* A red sibling is rotated up.
LEMMA RemoveRed ==
    ASSUME NEW t, NEW S, NEW rank, NEW w, NEW B, NEW at, NEW up, NEW d, Stage(t, S, rank, w, B, at, up, d),
           NEW tmp, t.link[up][Other(d)] = tmp, ~Black(t, tmp),
           NEW r, Rotate(SetBlackRed(t, tmp, up), up, d) = r
    PROVE  /\ \E v, D : Stage(r, S, rank, v, D, at, up, d) /\ Weight(v, at) = Weight(w, at)
           /\ Black(r, r.link[up][Other(d)])
<1> DEFINE o == Other(d)
           near == t.link[tmp][d]
           far == t.link[tmp][o]
           t1 == SetBlackRed(t, tmp, up)
           v  == RotatedSub(t1, w, up, tmp, d)
           b  == B[at] + 1
           D  == RotatedDepths(B, up, tmp, b)
<1>1. StageIs(t, S, w, B, at, up, d, tmp, near, far)
  BY StageFacts
<1>2. Shape(t, S, rank, w) /\ d \in Sides /\ t.link[up][d] = at
  BY DEF Stage, Short
<1>3. o \in Sides /\ o # d /\ Other(o) = d
  BY <1>2, OtherSide
<1> HIDE DEF near, far
<1>4. t \in Trees /\ ~t.fault /\ up \in Links /\ tmp \in Links /\ tmp # Null /\ tmp \in S /\ up \in S /\ tmp # up
  BY <1>1 DEF StageIs
<1>5. PaintedTwo(t, t1, tmp, up)
  BY <1>4, SetBlackRedIs
<1>6. SameLinks(t, t1)
  BY <1>5 DEF PaintedTwo
<1>7. t1 = SetBlackRed(t, tmp, up) /\ v = RotatedSub(t1, w, up, tmp, d) /\ D = RotatedDepths(B, up, tmp, b)
      /\ b = B[at] + 1
  OBVIOUS
<1> HIDE DEF t1, v, D, b
<1>8. Shape(t1, S, rank, w)
  BY <1>2, <1>6, SameShape
<1>9. t1.link = t.link /\ t1.root = t.root /\ t1.parent = t.parent
  BY <1>6 DEF SameLinks
<1>10. tmp = t1.link[up][Other(d)]
  BY <1>9
<1>11. IsRotated(t1, r, S, up, tmp, d)
  BY <1>2, <1>4, <1>7, <1>8, <1>10, RotateIs
<1>12. Shape(r, S, rank, v)
  BY <1>2, <1>4, <1>7, <1>8, <1>10, <1>11, RotateShape
<1>13. B \in [Links -> Nat] /\ b \in Nat
  BY <1>1, <1>7 DEF StageIs
<1>14. LevelsKept(t1, r, S, B, D, up, tmp, b)
  BY <1>2, <1>4, <1>7, <1>8, <1>11, <1>13, RotateLevel
<1>15. /\ r.link[up][d] = at /\ r.link[up][o] = near /\ r.link[tmp][d] = up /\ r.link[tmp][o] = far
       /\ r.root = IF t.root = up THEN tmp ELSE t.root
       /\ r.color = t1.color
  BY <1>2, <1>9, <1>11 DEF IsRotated, near, far
<1>16. \A n \in Nodes : r.color[n] = IF n = up THEN "red" ELSE IF n = tmp THEN "black" ELSE t.color[n]
  BY <1>5, <1>15 DEF PaintedTwo
<1>17. t.color[tmp] = "red" /\ t.color[up] = "black"
  <2>1. t.color[tmp] # "black" /\ t.color[tmp] \in Colors /\ t.color[up] \in Colors
    BY <1>1, TreeFields DEF Black, StageIs
  <2>2. t.color[up] = "red" => Black(t, tmp)
    BY <1>3, <1>4 DEF Stage
  <2> QED
    BY <2>1, <2>2 DEF Colors
<1>18. Blackness(t, tmp) = 0 /\ Blackness(t, up) = 1 /\ Blackness(r, up) = 0 /\ Blackness(r, tmp) = 1
  BY <1>1, <1>16, <1>17 DEF Blackness, StageIs
<1>19. /\ D \in [Links -> Nat] /\ D[Null] = 0 /\ D[at] = B[at] /\ D[near] = B[near] /\ D[far] = B[far]
       /\ D[tmp] = B[up] /\ D[up] = b
  BY <1>1, <1>14 DEF LevelsKept, StageIs
<1>20. B[near] = b /\ B[far] = b /\ B[up] = b + 1
  BY <1>1, <1>7, <1>18 DEF StageIs
<1>21. Level(r, D, tmp)
  <2>1. D[r.link[tmp][d]] = D[r.link[tmp][Other(d)]] /\ D[tmp] = D[r.link[tmp][d]] + Blackness(r, tmp)
    BY <1>13, <1>15, <1>18, <1>19, <1>20
  <2> QED
    BY <1>2, <2>1, LevelOf
<1>22. Short(r, D, at, up, d)
  <2>1. D[near] = D[at] + 1 /\ D[up] = D[at] + 1 + Blackness(r, up)
    BY <1>7, <1>13, <1>18, <1>19, <1>20
  <2> QED
    BY <1>15, <2>1 DEF Short
<1>23. \A n \in S \ {up} : Level(r, D, n)
  <2> SUFFICES ASSUME NEW n \in S \ {up, tmp} PROVE Level(r, D, n)
    BY <1>21
  <2>1. Level(t, B, n) /\ t1.color[n] = t.color[n]
    BY <1>1, <1>5 DEF Stage, PaintedTwo, StageIs
  <2>2. Level(t1, B, n)
    BY <1>9, <2>1 DEF Level, Blackness
  <2> QED
    BY <1>14, <2>2 DEF LevelsKept
<1>24. \A n \in Links : n # up /\ Black(t, n) => Black(r, n)
  BY <1>16 DEF Black, Links
<1>25. Black(t, near)
  <2>1. \A s \in Sides : Black(t, t.link[tmp][s])
    BY <1>4, <1>17 DEF Stage
  <2> QED
    BY <1>2, <2>1 DEF near
<1>26. Black(r, near) /\ Black(r, at) /\ Black(r, tmp)
  BY <1>1, <1>16, <1>24, <1>25 DEF Black, StageIs, Stage
<1>27. ASSUME NEW n \in S, NEW s \in Sides, r.color[n] = "red" PROVE Black(r, r.link[n][s])
  <2>1. CASE n = up
    <3>1. s = d \/ s = o
      BY <1>2, OtherSide
    <3> QED
      BY <1>15, <1>26, <2>1, <3>1
  <2>2. CASE n = tmp
    BY <1>1, <1>16, <1>27, <2>2 DEF StageIs
  <2>3. CASE n # up /\ n # tmp
    <3>1. r.link[n][s] = IF t.link[n][s] = up THEN tmp ELSE t.link[n][s]
      <4>1. r.link[n][s] = IF t1.link[n][s] = up THEN tmp ELSE t1.link[n][s]
        BY <1>11, <2>3, RotatedLink
      <4> QED
        BY <1>9, <4>1
    <3>2. t.color[n] = "red"
      BY <1>1, <1>16, <1>27, <2>3 DEF StageIs
    <3>3. Black(t, t.link[n][s]) /\ t.link[n][s] \in Links
      BY <1>1, <3>2, TreeFields DEF Stage, StageIs
    <3> QED
      BY <1>24, <1>26, <3>1, <3>3
  <2> QED
    BY <2>1, <2>2, <2>3
<1>28. Black(r, r.root)
  <2>1. Black(t, t.root) /\ t.root \in Links
    BY <1>4, TreeFields DEF Stage
  <2> QED
    BY <1>15, <1>24, <1>26, <2>1
<1>29. Stage(r, S, rank, v, D, at, up, d)
  <2>1. up \in S /\ at \in S \cup {Null}
    BY <1>1 DEF StageIs
  <2> QED
    BY <1>2, <1>12, <1>19, <1>22, <1>23, <1>26, <1>27, <1>28, <2>1 DEF Stage, Depths
<1>30. Weight(v, at) = Weight(w, at)
  <2>1. at # up /\ at # tmp /\ at \in Links /\ w \in [Links -> SUBSET S]
    BY <1>1, <1>2 DEF StageIs, Shape
  <2> QED
    BY <1>7, <2>1 DEF Weight, RotatedSub
<1> QED
  BY <1>15, <1>26, <1>29, <1>30

\* The children of the black sibling are black: it becomes red.
LEMMA RemovePaint ==
    ASSUME NEW t, NEW S, NEW rank, NEW w, NEW B, NEW at, NEW up, NEW d, Stage(t, S, rank, w, B, at, up, d),
           NEW tmp, t.link[up][Other(d)] = tmp, Black(t, tmp), Black(t, t.link[tmp][d]),
           Black(t, t.link[tmp][Other(d)]), NEW r, Paint(t, tmp, "red") = r
    PROVE  /\ r \in Trees /\ r.parent[up] = t.parent[up]
           /\ Shape(r, S, rank, w) /\ \E D : Lacks(r, S, D, up, r.parent[up])
           /\ Weight(w, up) > Weight(w, at)
<1> DEFINE o == Other(d)
           near == t.link[tmp][d]
           far == t.link[tmp][o]
           q == t.parent[up]
           D  == [B EXCEPT ![tmp] = B[at], ![up] = B[at] + Blackness(t, up)]
<1>1. StageIs(t, S, w, B, at, up, d, tmp, near, far)
  BY StageFacts
<1>2. Shape(t, S, rank, w) /\ d \in Sides /\ t.link[up][d] = at
  BY DEF Stage, Short
<1>3. o \in Sides /\ o # d /\ Other(o) = d
  BY <1>2, OtherSide
<1> HIDE DEF near, far
<1>4. t \in Trees /\ ~t.fault /\ up \in Links /\ tmp \in Links /\ tmp # Null /\ tmp \in S /\ up \in S /\ tmp # up
  BY <1>1 DEF StageIs
<1>5. Painted(t, r, tmp, "red")
  BY <1>4, PaintedIs DEF Colors
<1>6. SameLinks(t, r) /\ r \in Trees /\ r.link = t.link /\ r.root = t.root /\ r.parent = t.parent
      /\ \A n \in Nodes : r.color[n] = IF n = tmp THEN "red" ELSE t.color[n]
  BY <1>5 DEF Painted, SameLinks
<1>7. Shape(r, S, rank, w)
  BY <1>2, <1>6, SameShape
<1>8. Blackness(t, up) \in {0, 1} /\ Blackness(t, tmp) = 1 /\ Blackness(r, tmp) = 0 /\ Blackness(r, up) = Blackness(t, up)
  BY <1>1, <1>6 DEF Blackness, Black, StageIs
<1>9. B[at] \in Nat /\ B[at] + Blackness(t, up) \in Nat /\ B \in [Links -> Nat] /\ B[Null] = 0
  BY <1>1, <1>8 DEF StageIs
<1>10. /\ D \in [Links -> Nat] /\ D[Null] = 0 /\ D[tmp] = B[at] /\ D[up] = B[at] + Blackness(t, up)
       /\ \A n \in Links : n # tmp /\ n # up => D[n] = B[n]
  BY <1>1, <1>4, <1>9 DEF StageIs
<1> HIDE DEF D
<1>11. D[at] = B[at] /\ D[near] = B[near] /\ D[far] = B[far] /\ B[near] = B[at] /\ B[far] = B[at]
       /\ B[up] = D[up] + 1
  BY <1>1, <1>8, <1>10 DEF StageIs
<1>12. Level(r, D, up)
  <2>1. D[r.link[up][d]] = D[r.link[up][Other(d)]] /\ D[up] = D[r.link[up][d]] + Blackness(r, up)
    BY <1>2, <1>6, <1>8, <1>10, <1>11
  <2> QED
    BY <1>2, <2>1, LevelOf
<1>13. Level(r, D, tmp)
  <2>1. r.link[tmp][d] = near /\ r.link[tmp][Other(d)] = far
    BY <1>6 DEF near, far
  <2>2. D[near] = D[far] /\ D[tmp] = D[near] + Blackness(r, tmp)
    <3>1. B[at] = B[at] + 0
      BY <1>9
    <3> QED
      BY <1>8, <1>10, <1>11, <3>1
  <2>3. D[r.link[tmp][d]] = D[r.link[tmp][Other(d)]] /\ D[tmp] = D[r.link[tmp][d]] + Blackness(r, tmp)
    BY <2>1, <2>2
  <2> QED
    BY <1>2, <2>3, LevelOf
<1>14. \A n \in S, s \in Sides : t.link[n][s] \in Links /\ (t.link[n][s] = tmp => n = up)
                                 /\ (t.link[n][s] = up => n = q)
  <2> SUFFICES ASSUME NEW n \in S, NEW s \in Sides
               PROVE  t.link[n][s] \in Links /\ (t.link[n][s] = tmp => n = up) /\ (t.link[n][s] = up => n = q)
    OBVIOUS
  <2>1. up # Null /\ t.parent[tmp] = up /\ t.link[n][s] \in Links
    BY <1>1, <1>4, TreeFields DEF StageIs
  <2> QED
    BY <1>2, <1>4, <2>1, ChildBelow
<1>15. ASSUME NEW n \in S \ {q} PROVE Level(r, D, n)
  <2>1. CASE n = up \/ n = tmp
    BY <1>12, <1>13, <2>1
  <2>2. CASE n # up /\ n # tmp
    <3>1. \A s \in Sides : D[t.link[n][s]] = B[t.link[n][s]]
      BY <1>10, <1>14, <2>2
    <3>2. D[n] = B[n] /\ Blackness(r, n) = Blackness(t, n)
      BY <1>1, <1>6, <1>10, <2>2 DEF StageIs, Blackness
    <3>3. Level(t, B, n)
      BY <2>2 DEF Stage
    <3>4. D[t.link[n]["left"]] = B[t.link[n]["left"]] /\ D[t.link[n]["right"]] = B[t.link[n]["right"]]
      BY <3>1, OtherSide
    <3> QED
      BY <1>6, <3>2, <3>3, <3>4 DEF Level
  <2> QED
    BY <2>1, <2>2
<1>16. q = Null <=> up = t.root
  BY <1>2, <1>4, ParentIsNull
<1>17. ASSUME q # Null PROVE q \in S /\ \E s \in Sides : Short(r, D, up, q, s)
  <2>1. q \in S /\ \E s \in Sides : t.link[q][s] = up
    BY <1>2, <1>4, <1>16, <1>17, ChildOfParent
  <2>2. PICK s \in Sides : t.link[q][s] = up
    BY <2>1
  <2> DEFINE m == t.link[q][Other(s)]
  <2>3. Other(s) \in Sides /\ q # up /\ q # tmp /\ m # up /\ m # tmp /\ m \in Links
    <3>1. Other(s) \in Sides
      BY OtherSide
    <3>2. up # Null /\ tmp \in w[up]
      BY <1>1 DEF StageIs
    <3>3. q # up /\ m # up /\ q \notin w[up]
      BY <1>2, <2>1, <2>2, <3>2, ChildBelow
    <3>4. q # tmp
      BY <3>2, <3>3
    <3> QED
      BY <1>14, <2>1, <3>1, <3>3, <3>4
  <2>4. Level(t, B, q)
    BY <2>1, <2>3 DEF Stage
  <2>5. B[up] = B[m] /\ B[q] = B[up] + Blackness(t, q)
    <3>1. B[t.link[q][s]] = B[m] /\ B[q] = B[t.link[q][s]] + Blackness(t, q)
      BY <2>4 DEF Level, Sides, Other
    <3> QED
      BY <2>2, <3>1
  <2>6. D[q] = B[q] /\ Blackness(r, q) = Blackness(t, q)
    BY <1>1, <1>6, <1>10, <2>1, <2>3 DEF StageIs, Blackness
  <2>7. r.link[q][s] = up /\ r.link[q][Other(s)] = m /\ D[m] = B[m]
    BY <1>6, <1>10, <2>2, <2>3
  <2>8. Short(r, D, up, q, s)
    BY <1>11, <2>5, <2>6, <2>7 DEF Short
  <2> QED
    BY <2>1, <2>8
<1>18. \A n \in Links : n # tmp /\ Black(t, n) => Black(r, n)
  BY <1>6 DEF Black, Links
<1>19. ASSUME NEW n \in S, NEW s \in Sides, r.color[n] = "red", n # up PROVE Black(r, r.link[n][s])
  <2>1. t.link[n][s] # tmp /\ t.link[n][s] \in Links
    BY <1>14, <1>19
  <2>2. CASE n = tmp
    <3>1. s = d \/ s = o
      BY <1>2, OtherSide
    <3>2. Black(t, t.link[n][s])
      BY <2>2, <3>1
    <3> QED
      BY <1>6, <1>18, <2>1, <3>2
  <2>3. CASE n # tmp
    <3>1. t.color[n] = "red"
      BY <1>1, <1>6, <1>19, <2>3 DEF StageIs
    <3>2. Black(t, t.link[n][s])
      BY <3>1 DEF Stage
    <3> QED
      BY <1>6, <1>18, <2>1, <3>2
  <2> QED
    BY <2>2, <2>3
<1>20. Black(r, r.root)
  <2>1. t.parent[tmp] = up /\ up # Null
    BY <1>1 DEF StageIs
  <2>2. tmp # t.root
    BY <1>2, <1>4, <2>1, ParentIsNull
  <2>3. Black(t, t.root) /\ t.root \in Links
    BY <1>4, TreeFields DEF Stage
  <2> QED
    BY <1>6, <1>18, <2>2, <2>3
<1> HIDE DEF q
<1>21. Lacks(r, S, D, up, q)
  BY <1>4, <1>6, <1>10, <1>15, <1>16, <1>17, <1>19, <1>20 DEF Lacks, Depths
<1>22. Weight(w, up) > Weight(w, at)
  <2>1. Weight(w, at) < Weight(w, up) /\ Weight(w, at) \in Nat /\ Weight(w, up) \in Nat
    BY <1>1, <1>2, ChildWeight, WeightType DEF StageIs
  <2> QED
    BY <2>1
<1> QED
  BY <1>6, <1>7, <1>21, <1>22 DEF q

\* The inner child of the black sibling is red, the outer one is not: it is
\* rotated out, and becomes the sibling.
LEMMA RemoveNear ==
    ASSUME NEW t, NEW S, NEW rank, NEW w, NEW B, NEW at, NEW up, NEW d, Stage(t, S, rank, w, B, at, up, d),
           NEW tmp, t.link[up][Other(d)] = tmp, Black(t, tmp), NEW near, t.link[tmp][d] = near,
           ~Black(t, near), Black(t, t.link[tmp][Other(d)]),
           NEW r, Rotate(SetBlackRed(t, near, tmp), tmp, Other(d)) = r
    PROVE  /\ \E v, D : Stage(r, S, rank, v, D, at, up, d)
           /\ r.link[up][Other(d)] = near /\ Black(r, near) /\ near # Null
           /\ r.link[near][Other(d)] = tmp /\ ~Black(r, tmp)
<1> DEFINE o == Other(d)
           far == t.link[tmp][o]
           in  == t.link[near][d]
           out == t.link[near][o]
           t1 == SetBlackRed(t, near, tmp)
           v  == RotatedSub(t1, w, tmp, near, o)
           b  == B[at]
           D  == RotatedDepths(B, tmp, near, b)
<1>0. StageIs(t, S, w, B, at, up, d, tmp, t.link[tmp][d], t.link[tmp][Other(d)])
  BY StageFacts
<1>1. StageIs(t, S, w, B, at, up, d, tmp, near, far)
  BY <1>0
<1>2. Shape(t, S, rank, w) /\ d \in Sides /\ t.link[up][d] = at
  BY DEF Stage, Short
<1>3. o \in Sides /\ o # d /\ Other(o) = d
  BY <1>2, OtherSide
<1> HIDE DEF far, in, out
<1>4. /\ t \in Trees /\ ~t.fault /\ near \in Links /\ tmp \in Links /\ tmp # Null /\ tmp \in S /\ up \in S
      /\ near # Null /\ near \in S /\ near # tmp /\ up # tmp /\ up # near /\ near # at /\ tmp # at
  BY <1>1 DEF StageIs, Black
<1>5. PaintedTwo(t, t1, near, tmp)
  BY <1>4, SetBlackRedIs
<1>6. SameLinks(t, t1)
  BY <1>5 DEF PaintedTwo
<1>7. t1 = SetBlackRed(t, near, tmp) /\ v = RotatedSub(t1, w, tmp, near, o)
      /\ D = RotatedDepths(B, tmp, near, b) /\ b = B[at]
  OBVIOUS
<1> HIDE DEF t1, v, D, b
<1>8. Shape(t1, S, rank, w)
  BY <1>2, <1>6, SameShape
<1>9. t1.link = t.link /\ t1.root = t.root /\ t1.parent = t.parent
  BY <1>6 DEF SameLinks
<1>10. near = t1.link[tmp][Other(o)]
  BY <1>3, <1>9
<1> HIDE DEF o
<1>11. IsRotated(t1, r, S, tmp, near, o)
  <2>1. r = Rotate(t1, tmp, o)
    BY <1>7 DEF o
  <2> QED
    BY <1>3, <1>4, <1>8, <1>10, <2>1, RotateIs
<1>12. Shape(r, S, rank, v)
  BY <1>3, <1>4, <1>7, <1>8, <1>10, <1>11, RotateShape
<1>13. B \in [Links -> Nat] /\ b \in Nat
  BY <1>1, <1>7 DEF StageIs
<1>14. LevelsKept(t1, r, S, B, D, tmp, near, b)
  BY <1>3, <1>4, <1>7, <1>8, <1>11, <1>13, RotateLevel
<1>15. /\ r.link[tmp][o] = far /\ r.link[tmp][d] = out /\ r.link[near][o] = tmp /\ r.link[near][d] = in
       /\ r.root = IF t.root = tmp THEN near ELSE t.root
       /\ r.color = t1.color
  BY <1>3, <1>9, <1>11 DEF IsRotated, far, in, out
<1>16. \A n \in Nodes : r.color[n] = IF n = tmp THEN "red" ELSE IF n = near THEN "black" ELSE t.color[n]
  BY <1>5, <1>15 DEF PaintedTwo
<1>17. t.color[near] = "red" /\ t.color[tmp] = "black" /\ near \in Nodes /\ tmp \in Nodes /\ up \in Nodes
  <2>1. t.color[near] # "black" /\ near \in Nodes /\ tmp \in Nodes /\ up \in Nodes
    BY <1>1, <1>4 DEF Black, StageIs
  <2>2. t.color[near] \in Colors
    BY <1>4, <2>1, TreeFields
  <2> QED
    BY <1>4, <2>1, <2>2 DEF Colors, Black
<1>18. /\ Blackness(t, tmp) = 1 /\ Blackness(t, near) = 0 /\ Blackness(r, tmp) = 0 /\ Blackness(r, near) = 1
       /\ Blackness(r, up) = Blackness(t, up)
  BY <1>4, <1>16, <1>17 DEF Blackness
<1>19. \A s \in Sides : t.link[near][s] \in Links /\ t.link[near][s] # near /\ t.link[near][s] # tmp
                        /\ Black(t, t.link[near][s])
  <2> SUFFICES ASSUME NEW s \in Sides
               PROVE  t.link[near][s] \in Links /\ t.link[near][s] # near /\ t.link[near][s] # tmp
                      /\ Black(t, t.link[near][s])
    OBVIOUS
  <2>1. t.link[near][s] \in Links /\ Black(t, t.link[near][s])
    BY <1>4, <1>17, TreeFields DEF Stage
  <2>2. tmp \notin w[near]
    BY <1>2, <1>4, ChildBelow
  <2>3. t.link[near][s] # Null => t.link[near][s] # near /\ t.link[near][s] \in w[near]
    BY <1>2, <1>4, ChildBelow
  <2> QED
    BY <1>4, <2>1, <2>2, <2>3
<1>20. in \in Links /\ in # near /\ in # tmp /\ out \in Links /\ out # near /\ out # tmp /\ Black(t, in) /\ Black(t, out)
  BY <1>2, <1>3, <1>19 DEF in, out
<1>21. B[near] = b /\ B[far] = b /\ B[in] = b /\ B[out] = b /\ B[tmp] = b + 1
  <2>1. B[near] = b /\ B[far] = b /\ B[tmp] = b + 1
    BY <1>1, <1>7, <1>18 DEF StageIs
  <2>2. Level(t, B, near)
    BY <1>4 DEF Stage
  <2>3. B[in] = B[out] /\ B[near] = B[in] + Blackness(t, near)
    BY <1>2, <2>2 DEF Level, Sides, Other, in, out, o
  <2>4. B[in] \in Nat
    BY <1>13, <1>20
  <2> QED
    BY <1>18, <2>1, <2>3, <2>4
<1>22. /\ D \in [Links -> Nat] /\ D[Null] = 0 /\ D[at] = b /\ D[far] = b /\ D[in] = b /\ D[out] = b
       /\ D[near] = b + 1 /\ D[tmp] = b /\ D[up] = B[up]
  BY <1>1, <1>4, <1>7, <1>14, <1>20, <1>21 DEF LevelsKept, StageIs
<1>23. Level(r, D, tmp)
  <2>1. D[r.link[tmp][d]] = D[r.link[tmp][Other(d)]] /\ D[tmp] = D[r.link[tmp][d]] + Blackness(r, tmp)
    BY <1>13, <1>15, <1>18, <1>22 DEF o
  <2> QED
    BY <1>2, <2>1, LevelOf
<1>24. Level(r, D, near)
  <2>1. D[r.link[near][d]] = D[r.link[near][Other(d)]] /\ D[near] = D[r.link[near][d]] + Blackness(r, near)
    BY <1>13, <1>15, <1>18, <1>22 DEF o
  <2> QED
    BY <1>2, <2>1, LevelOf
<1>25. r.link[up][d] = at /\ r.link[up][o] = near
  <2>1. \A s \in Sides : r.link[up][s] = IF t1.link[up][s] = tmp THEN near ELSE t1.link[up][s]
    BY <1>4, <1>11, RotatedLink
  <2>2. t.link[up][o] = tmp
    BY DEF o
  <2> QED
    BY <1>2, <1>3, <1>4, <1>9, <2>1, <2>2
<1>26. Short(r, D, at, up, d)
  <2>1. D[near] = D[at] + 1 /\ D[up] = D[at] + 1 + Blackness(r, up)
    BY <1>1, <1>7, <1>18, <1>22 DEF StageIs
  <2> QED
    BY <1>25, <2>1 DEF Short, o
<1>27. \A n \in S \ {up} : Level(r, D, n)
  <2> SUFFICES ASSUME NEW n \in S \ {up, tmp, near} PROVE Level(r, D, n)
    BY <1>23, <1>24
  <2>1. Level(t, B, n) /\ t1.color[n] = t.color[n]
    BY <1>1, <1>5 DEF Stage, PaintedTwo, StageIs
  <2>2. Level(t1, B, n)
    BY <1>9, <2>1 DEF Level, Blackness
  <2> QED
    BY <1>14, <2>2 DEF LevelsKept
<1>28. \A n \in Links : n # tmp /\ Black(t, n) => Black(r, n)
  BY <1>16 DEF Black, Links
<1>29. Black(r, far) /\ Black(r, at) /\ Black(r, near) /\ Black(r, out) /\ ~Black(r, tmp)
  <2>1. Black(t, far) /\ Black(t, at)
    BY DEF Stage, far, o
  <2> QED
    BY <1>1, <1>4, <1>16, <1>17, <1>20, <1>28, <2>1 DEF Black, StageIs
<1>30. ASSUME NEW n \in S, NEW s \in Sides, r.color[n] = "red" PROVE Black(r, r.link[n][s])
  <2>1. CASE n = tmp
    <3>1. s = d \/ s = o
      BY <1>2, OtherSide DEF o
    <3> QED
      BY <1>15, <1>29, <2>1, <3>1
  <2>2. CASE n = near
    BY <1>4, <1>16, <1>17, <1>30, <2>2
  <2>3. CASE n # near /\ n # tmp
    <3>1. r.link[n][s] = IF t1.link[n][s] = tmp THEN near ELSE t1.link[n][s]
      BY <1>11, <2>3, RotatedLink
    <3>2. t.color[n] = "red"
      BY <1>1, <1>16, <1>30, <2>3 DEF StageIs
    <3>3. Black(t, t.link[n][s]) /\ t.link[n][s] \in Links
      BY <1>1, <3>2, TreeFields DEF Stage, StageIs
    <3> QED
      BY <1>9, <1>28, <1>29, <3>1, <3>3
  <2> QED
    BY <2>1, <2>2, <2>3
<1>31. Black(r, r.root)
  <2>1. Black(t, t.root) /\ t.root \in Links
    BY <1>4, TreeFields DEF Stage
  <2> QED
    BY <1>15, <1>28, <1>29, <2>1
<1>32. Stage(r, S, rank, v, D, at, up, d)
  <2>1. up \in S /\ at \in S \cup {Null}
    BY <1>1 DEF StageIs
  <2> QED
    BY <1>2, <1>12, <1>22, <1>26, <1>27, <1>29, <1>30, <1>31, <2>1 DEF Stage, Depths
<1> QED
  BY <1>4, <1>15, <1>25, <1>29, <1>32 DEF o

\* The outer child of the black sibling is red: the last rotation.
LEMMA RemoveLast ==
    ASSUME NEW t, NEW S, NEW rank, NEW w, NEW B, NEW at, NEW up, NEW d, Stage(t, S, rank, w, B, at, up, d),
           NEW tmp, t.link[up][Other(d)] = tmp, Black(t, tmp), NEW far, t.link[tmp][Other(d)] = far,
           ~Black(t, far),
           NEW r, Rotate(Paint(Paint(Paint(t, tmp, t.color[up]), up, "black"), far, "black"), up, d) = r
    PROVE  /\ r \in Trees /\ \E v : Shape(r, S, rank, v)
           /\ \E D : Lacks(r, S, D, r.root, Null)
<1> DEFINE o == Other(d)
           near == t.link[tmp][d]
           ta == Paint(t, tmp, t.color[up])
           tb == Paint(ta, up, "black")
           t1 == Paint(tb, far, "black")
           v  == RotatedSub(t1, w, up, tmp, d)
           b  == B[at] + 1
           A  == [B EXCEPT ![far] = b]
           D  == RotatedDepths(A, up, tmp, b)
<1>0. StageIs(t, S, w, B, at, up, d, tmp, t.link[tmp][d], t.link[tmp][Other(d)])
  BY StageFacts
<1>1. StageIs(t, S, w, B, at, up, d, tmp, near, far)
  BY <1>0
<1>2. Shape(t, S, rank, w) /\ d \in Sides /\ t.link[up][d] = at
  BY DEF Stage, Short
<1>3. o \in Sides /\ o # d /\ Other(o) = d
  BY <1>2, OtherSide
<1> HIDE DEF near
<1>4. /\ t \in Trees /\ ~t.fault /\ far \in Links /\ tmp \in Links /\ up \in Links /\ tmp # Null /\ tmp \in S /\ up \in S
      /\ far # Null /\ far \in S /\ far # tmp /\ up # tmp /\ up # far /\ far # at /\ tmp # at
      /\ far # near /\ at # up
      /\ up \in Nodes /\ tmp \in Nodes /\ far \in Nodes
  BY <1>1 DEF StageIs, Black
<1>5. t.color[up] \in Colors
  BY <1>4, TreeFields
<1>6. /\ ta = Paint(t, tmp, t.color[up]) /\ tb = Paint(ta, up, "black") /\ t1 = Paint(tb, far, "black")
      /\ v = RotatedSub(t1, w, up, tmp, d) /\ D = RotatedDepths(A, up, tmp, b) /\ b = B[at] + 1
      /\ Rotate(t1, up, d) = r
  OBVIOUS
<1> HIDE DEF t1, tb, ta, v, D
<1>7. Painted(t, ta, tmp, t.color[up]) /\ ta \in Trees /\ ~ta.fault
  <2>1. Painted(t, ta, tmp, t.color[up])
    BY <1>4, <1>5, <1>6, PaintedIs
  <2> QED
    BY <2>1 DEF Painted, SameLinks
<1>8. Painted(ta, tb, up, "black") /\ tb \in Trees /\ ~tb.fault
  <2>1. Painted(ta, tb, up, "black")
    BY <1>4, <1>6, <1>7, PaintedIs DEF Colors
  <2> QED
    BY <2>1 DEF Painted, SameLinks
<1>9. Painted(tb, t1, far, "black")
  BY <1>4, <1>6, <1>8, PaintedIs DEF Colors
<1>10. SameLinks(t, t1)
  BY <1>7, <1>8, <1>9 DEF Painted, SameLinks
<1>11. \A n \in Nodes : t1.color[n] = IF n = far \/ n = up THEN "black" ELSE IF n = tmp THEN t.color[up]
                                      ELSE t.color[n]
  BY <1>7, <1>8, <1>9 DEF Painted
<1>12. Shape(t1, S, rank, w)
  BY <1>2, <1>10, SameShape
<1>13. t1.link = t.link /\ t1.root = t.root /\ t1.parent = t.parent
  BY <1>10 DEF SameLinks
<1>14. tmp = t1.link[up][Other(d)]
  BY <1>13
<1>15. IsRotated(t1, r, S, up, tmp, d)
  BY <1>2, <1>4, <1>6, <1>12, <1>14, RotateIs
<1>16. Shape(r, S, rank, v)
  BY <1>2, <1>4, <1>6, <1>12, <1>14, <1>15, RotateShape
<1>17. B \in [Links -> Nat] /\ b \in Nat /\ B[Null] = 0 /\ Null \in Links
  BY <1>1, <1>6 DEF StageIs
<1> HIDE DEF b
<1>18. A \in [Links -> Nat] /\ A[far] = b /\ \A n \in Links : n # far => A[n] = B[n]
  BY <1>4, <1>17
<1> HIDE DEF A
<1>19. LevelsKept(t1, r, S, A, D, up, tmp, b)
  BY <1>2, <1>4, <1>6, <1>12, <1>15, <1>17, <1>18, RotateLevel
<1>20. /\ r.link[up][d] = at /\ r.link[up][o] = near /\ r.link[tmp][d] = up /\ r.link[tmp][o] = far
       /\ r.root = IF t.root = up THEN tmp ELSE t.root
       /\ r.color = t1.color /\ r \in Trees
  BY <1>2, <1>13, <1>15 DEF IsRotated, near
<1>21. /\ Blackness(t, tmp) = 1 /\ Blackness(t, far) = 0 /\ t.color[far] = "red" /\ t.color[tmp] = "black"
       /\ Blackness(r, up) = 1 /\ Blackness(r, tmp) = Blackness(t, up) /\ Blackness(t1, far) = 1
       /\ Blackness(t, up) \in {0, 1}
  <2>1. t.color[far] # "black" /\ t.color[far] \in Colors /\ t.color[tmp] = "black"
    BY <1>4, TreeFields DEF Black
  <2> QED
    BY <1>4, <1>11, <1>20, <2>1 DEF Blackness, Colors
<1>22. B[at] + 1 = b /\ B[at] \in Nat /\ B[near] = B[at] /\ B[far] = B[at] /\ B[up] = b + Blackness(t, up)
  BY <1>1, <1>6, <1>21 DEF StageIs
<1>23. /\ D \in [Links -> Nat] /\ D[Null] = 0 /\ D[at] = B[at] /\ D[near] = B[at] /\ D[far] = b
       /\ D[tmp] = B[up] /\ D[up] = b
  <2>1. at \in Links /\ near \in Links /\ at # up /\ at # tmp /\ near # up /\ near # tmp
    BY <1>1 DEF StageIs
  <2>2. A[Null] = 0 /\ A[up] = B[up] /\ A[at] = B[at] /\ A[near] = B[near]
    BY <1>4, <1>17, <1>18, <2>1
  <2> QED
    BY <1>4, <1>18, <1>19, <1>22, <2>1, <2>2 DEF LevelsKept
<1>24. Level(r, D, up)
  <2>1. D[r.link[up][d]] = D[r.link[up][Other(d)]] /\ D[up] = D[r.link[up][d]] + Blackness(r, up)
    BY <1>20, <1>21, <1>22, <1>23
  <2> QED
    BY <1>2, <2>1, LevelOf
<1>25. Level(r, D, tmp)
  <2>1. D[r.link[tmp][d]] = D[r.link[tmp][Other(d)]] /\ D[tmp] = D[r.link[tmp][d]] + Blackness(r, tmp)
    BY <1>20, <1>21, <1>22, <1>23
  <2> QED
    BY <1>2, <2>1, LevelOf
<1>26. \A n \in S, s \in Sides : t.link[n][s] \in Links /\ (t.link[n][s] = far => n = tmp)
  <2> SUFFICES ASSUME NEW n \in S, NEW s \in Sides
               PROVE  t.link[n][s] \in Links /\ (t.link[n][s] = far => n = tmp)
    OBVIOUS
  <2>1. t.link[n][s] \in Links
    BY <1>1, TreeFields DEF StageIs
  <2>2. t.parent[far] = tmp
    BY <1>2, <1>3, <1>4, ChildBelow
  <2> QED
    BY <1>2, <1>4, <2>1, <2>2, ChildBelow
<1>27. \A n \in S : Level(r, D, n)
  <2> SUFFICES ASSUME NEW n \in S \ {up, tmp} PROVE Level(r, D, n)
    BY <1>24, <1>25
  <2>1. Level(t, B, n) /\ n \in Nodes /\ n \in Links
    BY <1>1 DEF Stage, StageIs
  <2>2. A[t.link[n]["left"]] = B[t.link[n]["left"]] /\ A[t.link[n]["right"]] = B[t.link[n]["right"]]
    BY <1>18, <1>26, OtherSide
  <2>3. B[n] + Blackness(t1, n) = A[n] + Blackness(t, n) /\ A[n] \in Nat /\ B[n] \in Nat
    <3>1. CASE n = far
      BY <1>17, <1>18, <1>21, <1>22, <2>1, <3>1
    <3>2. CASE n # far
      <4>1. Blackness(t1, n) = Blackness(t, n)
        BY <1>11, <2>1, <3>2 DEF Blackness
      <4> QED
        BY <1>17, <1>18, <2>1, <3>2, <4>1
    <3> QED
      BY <3>1, <3>2
  <2>4. B[t.link[n]["left"]] \in Nat
    BY <1>17, <1>26, OtherSide
  <2>5. Level(t1, A, n)
    <3>1. B[t.link[n]["left"]] = B[t.link[n]["right"]] /\ B[n] = B[t.link[n]["left"]] + Blackness(t, n)
      BY <2>1 DEF Level
    <3>2. Blackness(t, n) \in {0, 1} /\ Blackness(t1, n) \in {0, 1}
      BY DEF Blackness
    <3>3. A[n] = B[t.link[n]["left"]] + Blackness(t1, n)
      BY <2>3, <2>4, <3>1, <3>2
    <3> QED
      BY <1>13, <2>2, <3>1, <3>3 DEF Level
  <2> QED
    BY <1>19, <2>5 DEF LevelsKept
<1>28. \A n \in Links : n # tmp /\ Black(t, n) => Black(r, n)
  BY <1>11, <1>20 DEF Black, Links
<1>29. Black(r, up) /\ Black(r, far)
  BY <1>4, <1>11, <1>20 DEF Black
<1>30. Black(t, up) => Black(r, tmp)
  BY <1>4, <1>11, <1>20, TreeAssumption DEF Black
<1>31. ASSUME NEW n \in S, NEW s \in Sides, r.color[n] = "red" PROVE Black(r, r.link[n][s])
  <2>1. CASE n = tmp
    <3>1. s = d \/ s = o
      BY <1>2, OtherSide
    <3> QED
      BY <1>20, <1>29, <2>1, <3>1
  <2>2. CASE n = up \/ n = far
    BY <1>4, <1>11, <1>20, <1>31, <2>2
  <2>3. CASE n # up /\ n # tmp /\ n # far
    <3>1. r.link[n][s] = IF t1.link[n][s] = up THEN tmp ELSE t1.link[n][s]
      BY <1>15, <2>3, RotatedLink
    <3>2. t.color[n] = "red"
      BY <1>1, <1>11, <1>20, <1>31, <2>3 DEF StageIs
    <3>3. Black(t, t.link[n][s]) /\ t.link[n][s] \in Links
      BY <1>26, <3>2 DEF Stage
    <3>4. t.link[n][s] # tmp
      BY <1>13, <1>15, <2>3 DEF IsRotated
    <3> QED
      BY <1>13, <1>28, <1>30, <3>1, <3>3, <3>4
  <2> QED
    BY <2>1, <2>2, <2>3
<1>32. r.root \in S \cup {Null}
  BY <1>16 DEF Shape
<1>33. Null \notin S
  BY <1>2, TreeAssumption DEF Shape
<1>34. Lacks(r, S, D, r.root, Null)
  BY <1>23, <1>27, <1>31, <1>32, <1>33 DEF Lacks, Depths
<1> QED
  BY <1>16, <1>20, <1>34

\* After i turns of the loop of RB_REMOVE_COLOR.
RemoveWay(S, rank, c, i) ==
    /\ c \in Cursors
    /\ \E w, B : /\ Shape(c.t, S, rank, w) /\ Lacks(c.t, S, B, c.at, c.up)
                 /\ RemoveColorWhile(c) => Weight(w, c.at) >= i

\* A cursor with another tree.
LEMMA MoveTreeIs ==
    ASSUME NEW c \in Cursors, NEW t \in Trees
    PROVE  /\ [c EXCEPT !.t = t] \in Cursors /\ [c EXCEPT !.t = t].t = t
           /\ [c EXCEPT !.t = t].at = c.at /\ [c EXCEPT !.t = t].up = c.up
  BY DEF Cursors

\* The last rotation of RB_REMOVE_COLOR makes all levels right.
LEMMA RemoveColorLastIs ==
    ASSUME NEW c \in Cursors, NEW S, NEW rank, NEW w, NEW B, NEW d, Stage(c.t, S, rank, w, B, c.at, c.up, d),
           Black(c.t, c.t.link[c.up][Other(d)]),
           ~Black(c.t, c.t.link[c.t.link[c.up][Other(d)]][Other(d)]), NEW i
    PROVE  RemoveWay(S, rank, RemoveColorLast(c, d), i)
<1> DEFINE t == c.t
           at == c.at
           up == c.up
           tmp == t.link[up][Other(d)]
           far == t.link[tmp][Other(d)]
           r == Rotate(Paint(Paint(Paint(t, tmp, t.color[up]), up, "black"), far, "black"), up, d)
           e == RemoveColorLast(c, d)
<1>1. /\ Stage(t, S, rank, w, B, at, up, d) /\ t.link[up][Other(d)] = tmp /\ Black(t, tmp)
      /\ t.link[tmp][Other(d)] = far /\ ~Black(t, far)
      /\ Rotate(Paint(Paint(Paint(t, tmp, t.color[up]), up, "black"), far, "black"), up, d) = r
  OBVIOUS
<1>2. ~t.fault /\ tmp # Null
  <2> HIDE DEF t, at, up, tmp, far, r
  <2>1. StageIs(t, S, w, B, at, up, d, tmp, t.link[tmp][d], t.link[tmp][Other(d)])
    BY <1>1, StageFacts
  <2> QED
    BY <2>1 DEF StageIs
<1>3. e = AtRoot(r)
  BY <1>2 DEF RemoveColorLast
<1> HIDE DEF t, at, up, tmp, far, r, e
<1>4. r \in Trees /\ (\E v : Shape(r, S, rank, v)) /\ \E D : Lacks(r, S, D, r.root, Null)
  BY <1>1, RemoveLast
<1>5. e \in Cursors /\ e.t = r /\ e.at = r.root /\ e.up = Null
  <2>1. r.root \in Links /\ Null \in Links
    BY <1>4, TreeFields DEF Links
  <2>2. e = Cursor(r, r.root, Null)
    BY <1>3 DEF AtRoot
  <2> QED
    BY <1>4, <2>1, <2>2, CursorIs
<1>6. ~RemoveColorWhile(e)
  BY <1>5 DEF RemoveColorWhile
<1>7. RemoveWay(S, rank, e, i)
  BY <1>4, <1>5, <1>6 DEF RemoveWay
<1> QED
  BY <1>7 DEF e

\* A turn of RB_REMOVE_COLOR with a black sibling.
LEMMA RemoveColorSiblingIs ==
    ASSUME NEW c \in Cursors, NEW S, NEW rank, NEW w, NEW B, NEW d, Stage(c.t, S, rank, w, B, c.at, c.up, d),
           Black(c.t, c.t.link[c.up][Other(d)]), NEW i \in Nat, Weight(w, c.at) >= i
    PROVE  RemoveWay(S, rank, RemoveColorSibling(c, d), i + 1)
<1> DEFINE t == c.t
           at == c.at
           up == c.up
           tmp == t.link[up][Other(d)]
           near == t.link[tmp][d]
           far == t.link[tmp][Other(d)]
           e == RemoveColorSibling(c, d)
<1>1. /\ Stage(t, S, rank, w, B, at, up, d) /\ t.link[up][Other(d)] = tmp /\ Black(t, tmp)
      /\ t.link[tmp][d] = near /\ t.link[tmp][Other(d)] = far
  OBVIOUS
<1>2. StageIs(t, S, w, B, at, up, d, tmp, near, far)
  <2>1. StageIs(t, S, w, B, at, up, d, tmp, t.link[tmp][d], t.link[tmp][Other(d)])
    <3> HIDE DEF t, at, up, tmp, near, far
    <3> QED
      BY <1>1, StageFacts
  <2> QED
    BY <2>1
<1>3. ~t.fault /\ tmp # Null /\ t \in Trees
  <2> HIDE DEF t, at, up, tmp, near, far
  <2> QED
    BY <1>2 DEF StageIs
<1>4. CASE Black(t, near) /\ Black(t, far)
  <2> DEFINE r == Paint(t, tmp, "red")
  <2>1. e = Cursor(r, up, t.parent[up])
    BY <1>3, <1>4 DEF RemoveColorSibling
  <2>2. Paint(t, tmp, "red") = r /\ Weight(w, at) >= i /\ up \in Links /\ at \in Links
    BY DEF Cursors
  <2> HIDE DEF t, at, up, tmp, near, far, r, e
  <2>3. /\ r \in Trees /\ r.parent[up] = t.parent[up]
        /\ Shape(r, S, rank, w) /\ \E D : Lacks(r, S, D, up, r.parent[up])
        /\ Weight(w, up) > Weight(w, at)
    <3>1. Black(t, t.link[tmp][d]) /\ Black(t, t.link[tmp][Other(d)])
      BY <1>1, <1>4
    <3> QED
      BY <1>1, <2>2, <3>1, RemovePaint
  <2>4. t.parent[up] \in Links
    BY <1>2, <1>3, TreeFields DEF StageIs
  <2>5. e \in Cursors /\ e.t = r /\ e.at = up /\ e.up = t.parent[up]
    BY <2>1, <2>2, <2>3, <2>4, CursorIs
  <2>6. Weight(w, up) >= i + 1
    <3>1. Weight(w, up) \in Nat /\ Weight(w, at) \in Nat
      <4>1. Shape(t, S, rank, w) /\ up \in S \cup {Null} /\ at \in S \cup {Null}
        BY <1>1 DEF Stage
      <4> QED
        BY <4>1, WeightType
    <3> QED
      BY <2>2, <2>3, <3>1
  <2>7. RemoveWay(S, rank, e, i + 1)
    BY <2>3, <2>5, <2>6 DEF RemoveWay
  <2> QED
    BY <2>7 DEF e
<1>5. CASE ~Black(t, near) /\ Black(t, far)
  <2> DEFINE r == Rotate(SetBlackRed(t, near, tmp), tmp, Other(d))
             c1 == [c EXCEPT !.t = r]
  <2>1. e = RemoveColorLast(c1, d)
    BY <1>3, <1>5 DEF RemoveColorSibling
  <2>2. Rotate(SetBlackRed(t, near, tmp), tmp, Other(d)) = r /\ c1 = [c EXCEPT !.t = r]
        /\ at = c.at /\ up = c.up
    OBVIOUS
  <2> HIDE DEF t, at, up, tmp, near, far, r, e, c1
  <2>3. /\ \E v, D : Stage(r, S, rank, v, D, at, up, d)
        /\ r.link[up][Other(d)] = near /\ Black(r, near) /\ near # Null
        /\ r.link[near][Other(d)] = tmp /\ ~Black(r, tmp)
    <3>1. Black(t, t.link[tmp][Other(d)])
      BY <1>1, <1>5
    <3> QED
      BY <1>1, <1>5, <2>2, <3>1, RemoveNear
  <2>4. PICK v, D : Stage(r, S, rank, v, D, at, up, d)
    BY <2>3
  <2>5. r \in Trees
    BY <2>4 DEF Stage, Shape
  <2>6. c1 \in Cursors /\ c1.t = r /\ c1.at = at /\ c1.up = up
    BY <2>2, <2>5, MoveTreeIs
  <2>7. /\ Stage(c1.t, S, rank, v, D, c1.at, c1.up, d) /\ Black(c1.t, c1.t.link[c1.up][Other(d)])
        /\ ~Black(c1.t, c1.t.link[c1.t.link[c1.up][Other(d)]][Other(d)])
    BY <2>3, <2>4, <2>6
  <2>8. RemoveWay(S, rank, e, i + 1)
    BY <2>1, <2>6, <2>7, RemoveColorLastIs
  <2> QED
    BY <2>8 DEF e
<1>6. CASE ~Black(t, far)
  <2>1. e = RemoveColorLast(c, d)
    BY <1>3, <1>6 DEF RemoveColorSibling
  <2>2. /\ Stage(c.t, S, rank, w, B, c.at, c.up, d) /\ Black(c.t, c.t.link[c.up][Other(d)])
        /\ ~Black(c.t, c.t.link[c.t.link[c.up][Other(d)]][Other(d)])
    BY <1>6
  <2> HIDE DEF e, t, at, up, tmp, near, far
  <2>3. RemoveWay(S, rank, e, i + 1)
    BY <2>1, <2>2, RemoveColorLastIs
  <2> QED
    BY <2>3 DEF e
<1> QED
  BY <1>4, <1>5, <1>6

\* A black element that lacks a black element, and is not the root.
LEMMA LacksStage ==
    ASSUME NEW t, NEW S, NEW rank, NEW w, NEW B, NEW at, NEW up, Shape(t, S, rank, w), Lacks(t, S, B, at, up),
           Black(t, at), at # t.root
    PROVE  up # Null /\ Stage(t, S, rank, w, B, at, up, LeftOrRight(t, up, at))
<1>1. up # Null /\ up \in S
  BY DEF Lacks
<1>2. PICK d \in Sides : Short(t, B, at, up, d)
  BY <1>1 DEF Lacks
<1>3. at \in Links /\ B[at] \in Nat /\ Null \notin S
  BY TreeAssumption DEF Lacks, Depths, Shape, Links
<1>4. t.link[up][d] = at /\ t.link[up][Other(d)] # at
  BY <1>2, <1>3 DEF Short
<1>5. LeftOrRight(t, up, at) = d
  BY <1>4 DEF LeftOrRight, Sides, Other
<1>6. \A n \in S, s \in Sides : t.color[n] = "red" => Black(t, t.link[n][s])
  <2> SUFFICES ASSUME NEW n \in S, NEW s \in Sides, t.color[n] = "red" PROVE Black(t, t.link[n][s])
    OBVIOUS
  <2>1. n # at
    BY <1>3 DEF Black
  <2>2. t.link[n][s] = at \/ t.link[n][s] # at
    OBVIOUS
  <2> QED
    BY <2>1, <2>2 DEF Lacks
<1> QED
  BY <1>1, <1>2, <1>5, <1>6 DEF Stage, Lacks

\* A turn of RB_REMOVE_COLOR ends the loop or takes the missing black element up.
LEMMA RemoveTurn ==
    ASSUME NEW S, NEW rank, NEW c, NEW i \in Nat, RemoveWay(S, rank, c, i)
    PROVE  RemoveWay(S, rank, Turn(RemoveColorWhile, RemoveColorBody, c), i + 1)
<1>0. PICK w, B : /\ Shape(c.t, S, rank, w) /\ Lacks(c.t, S, B, c.at, c.up)
                  /\ RemoveColorWhile(c) => Weight(w, c.at) >= i
  BY DEF RemoveWay
<1>1. c \in Cursors /\ ~c.t.fault
  BY <1>0 DEF RemoveWay, Shape
<1>2. CASE ~RemoveColorWhile(c)
  <2>1. Turn(RemoveColorWhile, RemoveColorBody, c) = c
    BY <1>2 DEF Turn, Goes
  <2> QED
    BY <1>0, <1>1, <1>2, <2>1 DEF RemoveWay
<1>3. CASE RemoveColorWhile(c)
  <2> DEFINE t == c.t
             at == c.at
             up == c.up
             d == LeftOrRight(t, up, at)
             tmp == t.link[up][Other(d)]
             e == RemoveColorBody(c)
  <2>1. Turn(RemoveColorWhile, RemoveColorBody, c) = e
    BY <1>1, <1>3 DEF Turn, Goes
  <2>2. Black(t, at) /\ at # t.root /\ Weight(w, at) >= i
    BY <1>0, <1>3 DEF RemoveColorWhile
  <2>3. up # Null /\ Stage(t, S, rank, w, B, at, up, d)
    BY <1>0, <2>2, LacksStage
  <2>4. /\ t.link[up][Other(d)] = tmp /\ t = c.t /\ at = c.at /\ up = c.up
    OBVIOUS
  <2>5. tmp # Null
    <3>1. StageIs(t, S, w, B, at, up, d, tmp, t.link[tmp][d], t.link[tmp][Other(d)])
      <4> HIDE DEF t, at, up, tmp, d
      <4> QED
        BY <2>3, <2>4, StageFacts
    <3> HIDE DEF t, at, up, tmp, d
    <3> QED
      BY <3>1 DEF StageIs
  <2>6. CASE Black(t, tmp)
    <3>1. e = RemoveColorSibling(c, d)
      BY <2>3, <2>5, <2>6 DEF RemoveColorBody, LeftOrRight
    <3> HIDE DEF t, at, up, tmp, d, e
    <3>2. RemoveWay(S, rank, e, i + 1)
      BY <1>1, <2>2, <2>3, <2>4, <2>6, <3>1, RemoveColorSiblingIs
    <3> QED
      BY <2>1, <3>2
  <2>7. CASE ~Black(t, tmp)
    <3> DEFINE r == Rotate(SetBlackRed(t, tmp, up), up, d)
               c1 == [c EXCEPT !.t = r]
    <3>1. e = RemoveColorSibling(c1, d)
      BY <2>3, <2>5, <2>7 DEF RemoveColorBody, LeftOrRight
    <3>2. Rotate(SetBlackRed(t, tmp, up), up, d) = r /\ c1 = [c EXCEPT !.t = r]
      OBVIOUS
    <3> HIDE DEF t, at, up, tmp, d, e, r, c1
    <3>3. /\ \E v, D : Stage(r, S, rank, v, D, at, up, d) /\ Weight(v, at) = Weight(w, at)
          /\ Black(r, r.link[up][Other(d)])
      BY <2>3, <2>4, <2>7, <3>2, RemoveRed
    <3>4. PICK v, D : Stage(r, S, rank, v, D, at, up, d) /\ Weight(v, at) = Weight(w, at)
      BY <3>3
    <3>5. r \in Trees
      BY <3>4 DEF Stage, Shape
    <3>6. c1 \in Cursors /\ c1.t = r /\ c1.at = at /\ c1.up = up
      BY <1>1, <2>4, <3>2, <3>5, MoveTreeIs
    <3>7. /\ Stage(c1.t, S, rank, v, D, c1.at, c1.up, d) /\ Black(c1.t, c1.t.link[c1.up][Other(d)])
          /\ Weight(v, c1.at) >= i
      BY <2>2, <3>3, <3>4, <3>6
    <3>8. RemoveWay(S, rank, e, i + 1)
      BY <3>1, <3>6, <3>7, RemoveColorSiblingIs
    <3> QED
      BY <2>1, <3>8
  <2> QED
    BY <2>6, <2>7
<1> QED
  BY <1>2, <1>3

\* The loop ends at a red element or at the root.
LEMMA RemoveLoop ==
    ASSUME NEW S, NEW rank, NEW c, RemoveWay(S, rank, c, 0)
    PROVE  \E e : RemoveWay(S, rank, e, Size) /\ Loop(RemoveColorWhile, RemoveColorBody, c) = Ended(RemoveColorWhile, e)
<1> DEFINE n == Size
           s[i \in 0 .. n] == IF i = 0 THEN c ELSE Turn(RemoveColorWhile, RemoveColorBody, s[i - 1])
           G == {x \in Cursors : \E i \in Nat : RemoveWay(S, rank, x, i)}
           F == [x \in G |-> Turn(RemoveColorWhile, RemoveColorBody, x)]
<1>0. \A x : \A i \in Nat : RemoveWay(S, rank, x, i) => RemoveWay(S, rank, Turn(RemoveColorWhile, RemoveColorBody, x), i + 1)
  BY RemoveTurn
<1>1. \A x \in G : Turn(RemoveColorWhile, RemoveColorBody, x) \in G
  <2>1. \A x : \A i \in Nat : RemoveWay(S, rank, x, i) => x \in Cursors
    BY DEF RemoveWay
  <2>2. \A i \in Nat : i + 1 \in Nat
    OBVIOUS
  <2> QED
    BY <1>0, <2>1, <2>2, Zenon
<1>2. F \in [G -> G] /\ \A x \in G : F[x] = Turn(RemoveColorWhile, RemoveColorBody, x)
  BY <1>1
<1>3. Loop(RemoveColorWhile, RemoveColorBody, c) = Ended(RemoveColorWhile, s[n])
  BY DEF Loop
<1>4. n \in Nat /\ c \in G
  BY SizeType DEF RemoveWay
<1> HIDE DEF F, G, n
<1>5. \E g : g = [i \in 0 .. n |-> IF i = 0 THEN c ELSE Turn(RemoveColorWhile, RemoveColorBody, g[i - 1])]
  <2>1. PICK g : IsRun(g, G, F, c, n)
    BY <1>2, <1>4, RunExists
  <2>2. ASSUME NEW i \in 0 .. n
        PROVE  g[i] = IF i = 0 THEN c ELSE Turn(RemoveColorWhile, RemoveColorBody, g[i - 1])
    BY <1>2, <1>4, <2>1 DEF IsRun
  <2>3. g = [i \in 0 .. n |-> IF i = 0 THEN c ELSE Turn(RemoveColorWhile, RemoveColorBody, g[i - 1])]
    BY <2>1, <2>2 DEF IsRun
  <2> QED
    BY <2>3
<1>6. s = [i \in 0 .. n |-> IF i = 0 THEN c ELSE Turn(RemoveColorWhile, RemoveColorBody, s[i - 1])]
  BY <1>5
<1> HIDE DEF s
<1>7. s[0] = c /\ \A i \in 0 .. n - 1 : s[i + 1] = Turn(RemoveColorWhile, RemoveColorBody, s[i])
  BY <1>4, <1>6
<1> DEFINE P == {i \in 0 .. n : RemoveWay(S, rank, s[i], i)}
<1>8. 0 \in P
  BY <1>4, <1>7
<1>9. ASSUME NEW i \in 0 .. n - 1, i \in P PROVE i + 1 \in P
  <2>1. RemoveWay(S, rank, s[i], i) /\ i \in Nat /\ i + 1 \in 0 .. n
    BY <1>4, <1>9
  <2>2. RemoveWay(S, rank, Turn(RemoveColorWhile, RemoveColorBody, s[i]), i + 1)
    BY <1>0, <2>1
  <2> QED
    BY <1>7, <2>1, <2>2
<1> HIDE DEF P
<1>10. 0 .. n \subseteq P
  BY <1>4, <1>8, <1>9, UpTo
<1>11. RemoveWay(S, rank, s[n], n)
  BY <1>4, <1>10 DEF P
<1> QED
  BY <1>3, <1>11 DEF n

\* A red element that lacks a black one becomes black.
LEMMA PaintLacking ==
    ASSUME NEW t, NEW S, NEW rank, NEW w, Shape(t, S, rank, w), NEW B, NEW at, NEW up, Lacks(t, S, B, at, up),
           ~Black(t, at), at # t.root
    PROVE  IsTree(Paint(t, at, "black"), S, rank)
<1> DEFINE r == Paint(t, at, "black")
           D == [B EXCEPT ![at] = B[at] + 1]
<1>1. /\ t \in Trees /\ ~t.fault /\ S \subseteq Nodes /\ at \in S /\ at \in Nodes /\ at \in Links /\ at # Null
      /\ \A n \in S : n \in Nodes /\ n \in Links /\ n # Null
      /\ Null \in Links /\ t.color[at] # "black"
  BY TreeAssumption DEF Shape, Links, Lacks, Black
<1>2. Painted(t, r, at, "black")
  BY <1>1, PaintedIs DEF Colors
<1> HIDE DEF r
<1>3. SameLinks(t, r) /\ r.link = t.link /\ r.root = t.root
      /\ \A n \in Nodes : r.color[n] = IF n = at THEN "black" ELSE t.color[n]
  BY <1>2 DEF Painted, SameLinks
<1>4. Shape(r, S, rank, w)
  BY <1>3, SameShape
<1>5. B \in [Links -> Nat] /\ B[Null] = 0 /\ B[at] \in Nat
  BY <1>1 DEF Lacks, Depths
<1>6. D \in [Links -> Nat] /\ D[Null] = 0 /\ D[at] = B[at] + 1 /\ \A n \in Links : n # at => D[n] = B[n]
  BY <1>1, <1>5
<1> HIDE DEF D
<1>7. up # Null /\ up \in S
  BY DEF Lacks
<1>8. PICK d \in Sides : Short(t, B, at, up, d)
  BY <1>7 DEF Lacks
<1>9. /\ t.link[up][d] = at /\ t.link[up][Other(d)] # at /\ up # at /\ Other(d) \in Sides
      /\ B[t.link[up][Other(d)]] = B[at] + 1 /\ B[up] = B[at] + 1 + Blackness(t, up)
  BY <1>1, <1>7, <1>8, OtherSide, ChildBelow DEF Short
<1>10. \A n \in S, s \in Sides : t.link[n][s] \in Links /\ (t.link[n][s] = at => n = up)
  <2> SUFFICES ASSUME NEW n \in S, NEW s \in Sides
               PROVE  t.link[n][s] \in Links /\ (t.link[n][s] = at => n = up)
    OBVIOUS
  <2>1. t.link[n][s] \in Links
    BY <1>1, TreeFields
  <2>2. t.parent[at] = up
    BY <1>1, <1>7, <1>9, ChildBelow
  <2> QED
    BY <1>1, <2>1, <2>2, ChildBelow
<1>11. Level(r, D, up)
  <2>1. Blackness(r, up) = Blackness(t, up)
    BY <1>1, <1>3, <1>7, <1>9 DEF Blackness
  <2>2. D[t.link[up][Other(d)]] = B[at] + 1 /\ D[up] = B[up]
    BY <1>1, <1>6, <1>7, <1>9, <1>10
  <2>3. D[r.link[up][d]] = D[r.link[up][Other(d)]] /\ D[up] = D[r.link[up][d]] + Blackness(r, up)
    BY <1>3, <1>6, <1>9, <2>1, <2>2
  <2> QED
    BY <2>3, LevelOf
<1>12. ASSUME NEW n \in S, n # up PROVE Level(r, D, n)
  <2>1. Level(t, B, n)
    BY <1>12 DEF Lacks
  <2>2. D[t.link[n]["left"]] = B[t.link[n]["left"]] /\ D[t.link[n]["right"]] = B[t.link[n]["right"]]
    BY <1>6, <1>10, <1>12, OtherSide
  <2>3. B[t.link[n]["left"]] = B[t.link[n]["right"]] /\ B[n] = B[t.link[n]["left"]] + Blackness(t, n)
        /\ B[t.link[n]["left"]] \in Nat
    BY <1>5, <1>10, <2>1, OtherSide DEF Level
  <2>4. CASE n = at
    <3>1. Blackness(r, n) = 1 /\ Blackness(t, n) = 0
      BY <1>1, <1>3, <2>4 DEF Blackness
    <3> QED
      BY <1>3, <1>6, <2>2, <2>3, <2>4, <3>1 DEF Level
  <2>5. CASE n # at
    <3>1. Blackness(r, n) = Blackness(t, n) /\ D[n] = B[n]
      BY <1>1, <1>3, <1>6, <2>5 DEF Blackness
    <3> QED
      BY <1>3, <2>2, <2>3, <3>1 DEF Level
  <2> QED
    BY <2>4, <2>5
<1>13. \A n \in Links : Black(t, n) => Black(r, n)
  BY <1>3 DEF Black, Links
<1>14. Black(r, at)
  BY <1>1, <1>3 DEF Black
<1>15. ASSUME NEW n \in S, NEW s \in Sides, r.color[n] = "red" PROVE Black(r, r.link[n][s])
  <2>1. n # at /\ t.color[n] = "red"
    BY <1>1, <1>3, <1>15
  <2>2. CASE t.link[n][s] = at
    BY <1>3, <1>14, <2>2
  <2>3. CASE t.link[n][s] # at
    <3>1. Black(t, t.link[n][s])
      BY <2>1, <2>3 DEF Lacks
    <3> QED
      BY <1>3, <1>10, <1>13, <3>1
  <2> QED
    BY <2>2, <2>3
<1>16. Black(r, r.root)
  <2>1. Black(t, t.root) /\ t.root \in Links
    BY <1>1, TreeFields DEF Lacks
  <2> QED
    BY <1>3, <1>13, <2>1
<1>17. Coloured(r, S, D)
  BY <1>6, <1>11, <1>12, <1>15, <1>16 DEF Coloured, Depths
<1> QED
  BY <1>4, <1>17 DEF IsTree, r

\* RB_REMOVE_COLOR makes a red-black tree of a tree that lacks a black element.
LEMMA RemoveColorIs ==
    ASSUME NEW t, NEW S, NEW rank, NEW w, Shape(t, S, rank, w), NEW B, NEW x, NEW p, Lacks(t, S, B, x, p)
    PROVE  IsTree(RemoveColor(t, p, x), S, rank)
<1> DEFINE c == Cursor(t, x, p)
<1>0. t \in Trees /\ x \in Links /\ p \in Links
  BY DEF Shape, Lacks, Links
<1>1. RemoveWay(S, rank, c, 0)
  <2>1. c.t = t /\ c.at = x /\ c.up = p /\ c \in Cursors
    BY <1>0, CursorIs
  <2>2. Weight(w, x) >= 0
    <3>1. Weight(w, x) \in Nat
      BY WeightType DEF Lacks
    <3> QED
      BY <3>1
  <2> HIDE DEF c
  <2> QED
    BY <2>1, <2>2 DEF RemoveWay
<1>2. RemoveColor(t, p, x) = CursorBlack(Loop(RemoveColorWhile, RemoveColorBody, c))
  BY DEF RemoveColor
<1> HIDE DEF c
<1>3. PICK e : /\ RemoveWay(S, rank, e, Size)
               /\ Loop(RemoveColorWhile, RemoveColorBody, c) = Ended(RemoveColorWhile, e)
  BY <1>1, RemoveLoop
<1>4. PICK v, D : /\ Shape(e.t, S, rank, v) /\ Lacks(e.t, S, D, e.at, e.up)
                  /\ RemoveColorWhile(e) => Weight(v, e.at) >= Size
  BY <1>3 DEF RemoveWay
<1>5. ~RemoveColorWhile(e)
  <2> SUFFICES ASSUME RemoveColorWhile(e) PROVE FALSE
    OBVIOUS
  <2> DEFINE d == LeftOrRight(e.t, e.up, e.at)
  <2>1. Stage(e.t, S, rank, v, D, e.at, e.up, d)
    BY <1>4, LacksStage DEF RemoveColorWhile
  <2> HIDE DEF d
  <2>2. e.t.link[e.up][d] = e.at /\ e.up \in S /\ d \in Sides /\ e.at \in S \cup {Null}
    BY <2>1 DEF Stage, Short
  <2>3. Weight(v, e.at) < Weight(v, e.up)
    BY <1>4, <2>2, ChildWeight
  <2>4. Weight(v, e.at) \in 0 .. Size /\ Weight(v, e.up) \in 0 .. Size
    BY <1>4, <2>2, WeightType
  <2> QED
    BY <1>4, <2>3, <2>4, SizeType
<1>6. Loop(RemoveColorWhile, RemoveColorBody, c) = e
  BY <1>3, <1>5 DEF Ended, Goes
<1> DEFINE r == e.t
           at == e.at
           up == e.up
<1>7. RemoveColor(t, p, x) = Paint(r, at, "black") /\ (~Black(r, at) \/ at = r.root)
  BY <1>2, <1>5, <1>6 DEF CursorBlack, RemoveColorWhile
<1>8. Shape(r, S, rank, v) /\ Lacks(r, S, D, at, up)
  BY <1>4
<1> HIDE DEF r, at, up
<1>9. CASE at # r.root
  BY <1>7, <1>8, <1>9, PaintLacking
<1>10. CASE at = r.root
  <2>1. Paint(r, at, "black") = RootBlack(r)
    BY <1>10 DEF RootBlack
  <2>2. \A n \in S, s \in Sides : r.link[n][s] = at => at = Null
    <3> SUFFICES ASSUME NEW n \in S, NEW s \in Sides, r.link[n][s] = at, at # Null PROVE FALSE
      OBVIOUS
    <3>1. r.parent[at] = n /\ r.parent[at] = Null
      BY <1>8, <1>10 DEF Shape
    <3> QED
      BY <1>8, <3>1, TreeAssumption DEF Shape
  <2>3. up = Null
    <3> SUFFICES ASSUME up # Null PROVE FALSE
      OBVIOUS
    <3>1. up \in S /\ \E d \in Sides : r.link[up][d] = at
      BY <1>8 DEF Lacks, Short
    <3>2. r.root = Null
      BY <1>10, <2>2, <3>1
    <3> QED
      BY <1>8, <3>1, <3>2 DEF Shape
  <2>4. Null \notin S
    BY <1>8, TreeAssumption DEF Shape
  <2>5. Depths(D) /\ \A n \in S : Level(r, D, n)
    BY <1>8, <2>3, <2>4 DEF Lacks
  <2>6. \A n \in S, s \in Sides : r.color[n] = "red" => Black(r, r.link[n][s]) \/ n = r.root
    <3> SUFFICES ASSUME NEW n \in S, NEW s \in Sides, r.color[n] = "red", n # r.root
                 PROVE  Black(r, r.link[n][s])
      OBVIOUS
    <3>1. CASE r.link[n][s] = at
      BY <2>2, <3>1 DEF Black
    <3>2. CASE r.link[n][s] # at
      BY <1>8, <1>10, <3>2 DEF Lacks
    <3> QED
      BY <3>1, <3>2
  <2>7. IsTree(RootBlack(r), S, rank)
    BY <1>8, <2>5, <2>6, RootBlackIs
  <2> QED
    BY <1>7, <2>1, <2>7
<1> QED
  BY <1>9, <1>10

-----------------------------------------------------------------------------
(* RB_REMOVE.                                                              *)

\* The one link that points to an element.
LEMMA PlaceOf ==
    ASSUME NEW t, NEW S, NEW rank, NEW w, Shape(t, S, rank, w), NEW elm \in S,
           NEW p, t.parent[elm] = p
    PROVE  /\ p \in S \cup {Null} /\ p # elm /\ (p = Null <=> elm = t.root)
           /\ p # Null => t.link[p][LeftOrRight(t, p, elm)] = elm /\ LeftOrRight(t, p, elm) \in Sides
           /\ \A n \in S : \A s \in Sides : t.link[n][s] = elm => n = p /\ s = LeftOrRight(t, p, elm)
<1>0. elm # Null /\ LeftOrRight(t, p, elm) \in Sides /\ Null \notin S
  BY OtherSide, TreeAssumption DEF Shape, LeftOrRight
<1>1. p = Null <=> elm = t.root
  BY ParentIsNull
<1>2. p # Null => p \in S /\ \E s \in Sides : t.link[p][s] = elm
  BY <1>1, ChildOfParent
<1>3. p # Null => t.link[p][LeftOrRight(t, p, elm)] = elm
  BY <1>2, OtherSide DEF LeftOrRight
<1>4. p # elm
  BY <1>0, <1>2, ChildBelow
<1>5. ASSUME NEW n \in S, NEW s \in Sides, t.link[n][s] = elm
      PROVE  n = p /\ s = LeftOrRight(t, p, elm)
  <2>1. t.parent[elm] = n /\ t.link[n][Other(s)] # elm
    BY <1>0, <1>5, ChildBelow
  <2>2. n = p /\ p # Null
    BY <1>0, <2>1
  <2> QED
    BY <1>0, <1>3, <2>1, <2>2, OtherSide
<1> QED
  BY <1>0, <1>1, <1>2, <1>3, <1>4, <1>5

\* r is t without elm: child has taken its place.
IsDetached(t, r, S, elm, child) ==
    /\ r \in Trees /\ ~r.fault /\ r.color = t.color
    /\ r.root = IF t.root = elm THEN child ELSE t.root
    /\ \A n \in S \ {elm} : \A s \in Sides :
           r.link[n][s] = IF t.link[n][s] = elm THEN child ELSE t.link[n][s]
    /\ \A n \in Nodes : r.parent[n] = IF n = child THEN t.parent[elm] ELSE t.parent[n]

\* What the assignments that take an element out do.
LEMMA DetachIs ==
    ASSUME NEW t, NEW S, NEW rank, NEW w, Shape(t, S, rank, w), NEW elm \in S,
           NEW child \in S \cup {Null}, NEW r, Detach(t, elm, child) = r
    PROVE  IsDetached(t, r, S, elm, child)
<1> DEFINE p == t.parent[elm]
           t1 == SetParent(t, child, p)
<1>0. t \in Trees /\ ~t.fault /\ S \subseteq Nodes /\ child \in Links /\ Null \notin S
  BY TreeAssumption DEF Shape, Links
<1>1. /\ p \in S \cup {Null} /\ p # elm /\ (p = Null <=> elm = t.root)
      /\ p # Null => t.link[p][LeftOrRight(t, p, elm)] = elm
      /\ \A n \in S : \A s \in Sides : t.link[n][s] = elm => n = p /\ s = LeftOrRight(t, p, elm)
  BY PlaceOf
<1>2. t1 = SetParent(t, child, p) /\ r = Replace(t1, p, elm, child) /\ p = t.parent[elm]
  BY DEF Detach
<1> HIDE DEF p, t1
<1>3. p \in Links
  BY <1>0, <1>1 DEF Links
<1>4. ParentSet(t, t1, child, p)
  BY <1>0, <1>2, <1>3, SetParentIs
<1>5. t1 \in Trees /\ t1.link = t.link /\ t1.root = t.root /\ t1.color = t.color /\ ~t1.fault
      /\ \A n \in Nodes : t1.parent[n] = IF n = child THEN p ELSE t.parent[n]
  BY <1>0, <1>4 DEF ParentSet
<1>6. ChildSet(t1, r, p, elm, child)
  BY <1>0, <1>2, <1>3, <1>5, ReplaceIs
<1>7. LeftOrRight(t1, p, elm) = LeftOrRight(t, p, elm)
  BY <1>5 DEF LeftOrRight
<1>8. /\ r \in Trees /\ ~r.fault /\ r.color = t.color /\ r.parent = t1.parent
      /\ r.root = IF p = Null THEN child ELSE t.root
      /\ \A n \in Nodes, s \in Sides :
             r.link[n][s] = IF n = p /\ s = LeftOrRight(t, p, elm) THEN child ELSE t.link[n][s]
  BY <1>5, <1>6, <1>7 DEF ChildSet
<1>9. ASSUME NEW n \in S \ {elm}, NEW s \in Sides
      PROVE  r.link[n][s] = IF t.link[n][s] = elm THEN child ELSE t.link[n][s]
  BY <1>0, <1>1, <1>8
<1>10. r.root = IF t.root = elm THEN child ELSE t.root
  BY <1>1, <1>8
<1> QED
  BY <1>2, <1>5, <1>8, <1>9, <1>10 DEF IsDetached

\* The subtrees without elm.
DetachedSub(w, elm) == [n \in Links |-> w[n] \ {elm}]

\* An element with one child at most is taken out.
LEMMA DetachShape ==
    ASSUME NEW t, NEW S, NEW rank, NEW w, Shape(t, S, rank, w), NEW elm \in S, NEW d \in Sides,
           t.link[elm][Other(d)] = Null, NEW child, t.link[elm][d] = child,
           NEW r, IsDetached(t, r, S, elm, child), NEW U, S \ {elm} = U,
           NEW v, DetachedSub(w, elm) = v
    PROVE  Shape(r, U, rank, v)
<1>0. /\ t \in Trees /\ ~t.fault /\ S \subseteq Nodes /\ Null \notin S /\ elm # Null
      /\ rank \in [Nodes -> Int] /\ w \in [Links -> SUBSET S] /\ U \subseteq Nodes
      /\ \A n \in S : n \in Links
      /\ Null \in Links
  BY TreeAssumption DEF Shape, Links
<1>1. v \in [Links -> SUBSET U] /\ \A n \in Links : \A x : x \in v[n] <=> x \in w[n] /\ x # elm
  BY <1>0 DEF DetachedSub
<1>2. child \in S \cup {Null} /\ child # elm /\ (child # Null => t.parent[child] = elm) /\ child \in Links
  <2>1. child \in S \cup {Null}
    BY DEF Shape
  <2> QED
    BY <1>0, <2>1, ChildBelow
<1>3. w[Null] = {} /\ w[t.root] = S /\ t.root \in S \cup {Null} /\ (t.root # Null => t.parent[t.root] = Null)
  BY DEF Shape
<1>4. \A x : x \in w[elm] <=> x = elm \/ x \in w[child]
  <2>1. \A x : x \in w[elm] <=> x = elm \/ x \in w[t.link[elm]["left"]] \/ x \in w[t.link[elm]["right"]]
    BY DEF Shape
  <2>2. \A x : x \in w[elm] <=> x = elm \/ x \in w[t.link[elm][d]] \/ x \in w[t.link[elm][Other(d)]]
    BY <2>1 DEF Sides, Other
  <2> QED
    BY <1>3, <2>2
<1>5. elm \notin w[child]
  BY <1>2, <1>3, ChildBelow
<1>6. v[elm] = v[child] /\ v[Null] = {}
  <2>1. \A x : x \in v[elm] <=> x \in v[child]
    BY <1>0, <1>1, <1>2, <1>4
  <2>2. v[elm] = v[child]
    BY <2>1
  <2>3. \A x : x \notin v[Null]
    BY <1>0, <1>1, <1>3
  <2> QED
    BY <2>2, <2>3
<1>7. /\ r \in Trees /\ ~r.fault /\ r.root = IF t.root = elm THEN child ELSE t.root
      /\ \A n \in U, s \in Sides : r.link[n][s] = IF t.link[n][s] = elm THEN child ELSE t.link[n][s]
      /\ \A n \in Nodes : r.parent[n] = IF n = child THEN t.parent[elm] ELSE t.parent[n]
  BY DEF IsDetached
<1>8. /\ \A n \in S, s \in Sides : t.link[n][s] \in S \cup {Null}
      /\ \A n \in S, s \in Sides : t.link[n][s] # Null => t.parent[t.link[n][s]] = n
  BY DEF Shape
<1>9. ASSUME NEW n \in U, NEW s \in Sides
      PROVE  /\ r.link[n][s] \in U \cup {Null}
             /\ r.link[n][s] # Null => r.parent[r.link[n][s]] = n
             /\ v[r.link[n][s]] = v[t.link[n][s]]
  <2>1. n \in S /\ n # elm
    OBVIOUS
  <2>2. CASE t.link[n][s] = elm
    <3>1. r.link[n][s] = child /\ t.parent[elm] = n
      BY <1>0, <1>7, <1>8, <2>1, <2>2
    <3> QED
      BY <1>0, <1>2, <1>6, <1>7, <2>2, <3>1
  <2>3. CASE t.link[n][s] # elm
    <3>1. r.link[n][s] = t.link[n][s]
      BY <1>7, <2>3
    <3>2. t.link[n][s] # Null => t.link[n][s] # child
      BY <1>2, <1>8, <2>1
    <3> QED
      BY <1>0, <1>7, <1>8, <2>1, <2>3, <3>1, <3>2
  <2> QED
    BY <2>2, <2>3
<1>10. r.root \in U \cup {Null} /\ v[r.root] = U /\ (r.root # Null => r.parent[r.root] = Null)
  <2>1. CASE t.root = elm
    <3>1. r.root = child /\ t.parent[elm] = Null
      BY <1>0, <1>3, <1>7, <2>1
    <3>2. \A x : x \in v[child] <=> x \in U
      BY <1>0, <1>1, <1>3, <1>6, <2>1
    <3>3. v[child] = U
      BY <3>2
    <3> QED
      BY <1>0, <1>2, <1>7, <3>1, <3>3
  <2>2. CASE t.root # elm
    <3>1. r.root = t.root
      BY <1>7, <2>2
    <3>2. t.root # Null => t.root # child
      BY <1>0, <1>2, <1>3
    <3>3. \A x : x \in v[t.root] <=> x \in U
      BY <1>0, <1>1, <1>3
    <3>4. v[t.root] = U
      BY <3>3
    <3>5. r.root # Null => r.parent[r.root] = Null
      BY <1>0, <1>3, <1>7, <3>1, <3>2
    <3> QED
      BY <1>3, <2>2, <3>1, <3>4, <3>5
  <2> QED
    BY <2>1, <2>2
<1>11. ASSUME NEW n \in U
       PROVE  \A x : x \in v[n] <=> x = n \/ x \in v[r.link[n]["left"]] \/ x \in v[r.link[n]["right"]]
  <2>1. \A x : x \in w[n] <=> x = n \/ x \in w[t.link[n]["left"]] \/ x \in w[t.link[n]["right"]]
    BY DEF Shape
  <2>2. t.link[n]["left"] \in Links /\ t.link[n]["right"] \in Links /\ n \in Links /\ n # elm
    BY <1>0, <1>8, OtherSide
  <2>3. v[r.link[n]["left"]] = v[t.link[n]["left"]] /\ v[r.link[n]["right"]] = v[t.link[n]["right"]]
    BY <1>9, OtherSide
  <2> QED
    BY <1>1, <2>1, <2>2, <2>3
<1>12. ASSUME NEW n \in U, NEW s \in Sides, NEW x \in v[r.link[n][s]] PROVE Before(rank, s, x, n)
  <2>1. x \in w[t.link[n][s]]
    BY <1>0, <1>1, <1>8, <1>9
  <2> QED
    BY <2>1 DEF Shape
<1> QED
  BY <1>0, <1>1, <1>6, <1>7, <1>9, <1>10, <1>11, <1>12 DEF Shape

\* A red element may be taken out as it is.
LEMMA DetachRed ==
    ASSUME NEW t, NEW S, NEW rank, NEW w, Shape(t, S, rank, w), NEW B, Coloured(t, S, B),
           NEW elm \in S, NEW d \in Sides, NEW child, t.link[elm][d] = child,
           NEW r, IsDetached(t, r, S, elm, child), t.color[elm] = "red"
    PROVE  Coloured(r, S \ {elm}, B)
<1>0. /\ B \in [Links -> Nat] /\ B[Null] = 0 /\ Null \notin S /\ elm # Null
      /\ \A n \in S, s \in Sides : t.link[n][s] \in Links
  BY TreeAssumption DEF Shape, Links, Coloured, Depths
<1>1. /\ \A n \in S : Level(t, B, n)
      /\ \A n \in S, s \in Sides : t.color[n] = "red" => Black(t, t.link[n][s])
      /\ Black(t, t.root)
  BY DEF Coloured
<1>2. B[child] = B[elm]
  <2>0. Level(t, B, elm)
    BY <1>1
  <2>1. B[elm] = B[child] + Blackness(t, elm)
    BY <2>0 DEF Level, Sides, Other
  <2>2. Blackness(t, elm) = 0 /\ B[child] \in Nat
    BY <1>0 DEF Blackness
  <2> QED
    BY <2>1, <2>2
<1>3. ~Black(t, elm)
  BY <1>0 DEF Black
<1>4. /\ r.color = t.color /\ r.root = t.root
      /\ \A n \in S \ {elm} : \A s \in Sides :
             r.link[n][s] = IF t.link[n][s] = elm THEN child ELSE t.link[n][s]
  BY <1>1, <1>3 DEF IsDetached
<1>5. \A m : Black(r, m) <=> Black(t, m)
  BY <1>4 DEF Black
<1>6. ASSUME NEW n \in S \ {elm} PROVE Level(r, B, n)
  <2>1. B[r.link[n]["left"]] = B[t.link[n]["left"]] /\ B[r.link[n]["right"]] = B[t.link[n]["right"]]
    BY <1>2, <1>4, OtherSide
  <2>2. Blackness(r, n) = Blackness(t, n)
    BY <1>4 DEF Blackness
  <2> QED
    BY <1>1, <2>1, <2>2 DEF Level
<1>7. ASSUME NEW n \in S \ {elm}, NEW s \in Sides, r.color[n] = "red" PROVE Black(r, r.link[n][s])
  BY <1>1, <1>3, <1>4, <1>5, <1>7
<1> QED
  BY <1>0, <1>1, <1>4, <1>5, <1>6, <1>7 DEF Coloured, Depths

\* A black element leaves the ways through its child one black element short.
LEMMA DetachBlack ==
    ASSUME NEW t, NEW S, NEW rank, NEW w, Shape(t, S, rank, w), NEW B, Coloured(t, S, B),
           NEW elm \in S, NEW d \in Sides, NEW child, t.link[elm][d] = child,
           NEW p, t.parent[elm] = p,
           NEW r, IsDetached(t, r, S, elm, child), t.color[elm] = "black"
    PROVE  Lacks(r, S \ {elm}, B, child, p)
<1>0. /\ B \in [Links -> Nat] /\ B[Null] = 0 /\ Null \notin S /\ elm # Null
      /\ \A n \in S, s \in Sides : t.link[n][s] \in Links /\ t.link[n][s] \in S \cup {Null}
  BY TreeAssumption DEF Shape, Links, Coloured, Depths
<1>1. /\ \A n \in S : Level(t, B, n)
      /\ \A n \in S, s \in Sides : t.color[n] = "red" => Black(t, t.link[n][s])
      /\ Black(t, t.root)
  BY DEF Coloured
<1>2. B[elm] = B[child] + 1 /\ B[child] \in Nat
  <2>0. Level(t, B, elm)
    BY <1>1
  <2>1. B[elm] = B[child] + Blackness(t, elm)
    BY <2>0 DEF Level, Sides, Other
  <2>2. Blackness(t, elm) = 1 /\ B[child] \in Nat
    BY <1>0 DEF Blackness
  <2> QED
    BY <2>1, <2>2
<1>3. /\ r.color = t.color /\ r.root = IF t.root = elm THEN child ELSE t.root
      /\ \A n \in S \ {elm} : \A s \in Sides :
             r.link[n][s] = IF t.link[n][s] = elm THEN child ELSE t.link[n][s]
  BY DEF IsDetached
<1>4. \A m : Black(r, m) <=> Black(t, m)
  BY <1>3 DEF Black
<1>5. \A m : Blackness(r, m) = Blackness(t, m)
  BY <1>3 DEF Blackness
<1>6. /\ p \in S \cup {Null} /\ p # elm /\ (p = Null <=> elm = t.root)
      /\ p # Null => t.link[p][LeftOrRight(t, p, elm)] = elm /\ LeftOrRight(t, p, elm) \in Sides
      /\ \A n \in S : \A s \in Sides : t.link[n][s] = elm => n = p /\ s = LeftOrRight(t, p, elm)
  BY PlaceOf
<1>7. ASSUME NEW n \in S \ {elm}, n # p PROVE Level(r, B, n)
  <2>1. r.link[n]["left"] = t.link[n]["left"] /\ r.link[n]["right"] = t.link[n]["right"]
    BY <1>3, <1>6, <1>7, OtherSide
  <2> QED
    BY <1>1, <1>5, <2>1 DEF Level
<1>8. ASSUME p # Null PROVE p \in S \ {elm} /\ \E s \in Sides : Short(r, B, child, p, s)
  <2> DEFINE s == LeftOrRight(t, p, elm)
  <2>1. p \in S \ {elm} /\ s \in Sides /\ Other(s) \in Sides /\ Other(s) # s
    BY <1>6, <1>8, OtherSide
  <2>2. t.link[p][s] = elm /\ t.link[p][Other(s)] # elm
    BY <1>6, <1>8, <2>1
  <2>3. r.link[p][s] = child /\ r.link[p][Other(s)] = t.link[p][Other(s)]
    BY <1>3, <2>1, <2>2
  <2>4. B[t.link[p][s]] = B[t.link[p][Other(s)]] /\ B[p] = B[t.link[p][s]] + Blackness(t, p)
    BY <1>1, <2>1, LevelIs
  <2>5. Short(r, B, child, p, s)
    BY <1>2, <1>5, <2>2, <2>3, <2>4 DEF Short
  <2> QED
    BY <2>1, <2>5
<1>9. ASSUME NEW n \in S \ {elm}, NEW s \in Sides, r.color[n] = "red", r.link[n][s] # child
      PROVE  Black(r, r.link[n][s])
  BY <1>1, <1>3, <1>4, <1>9
<1>10. child \in (S \ {elm}) \cup {Null}
  BY <1>0, ChildBelow
<1> QED
  BY <1>0, <1>1, <1>3, <1>4, <1>6, <1>7, <1>8, <1>9, <1>10 DEF Lacks, Depths

\* The element elm takes the place of old.
Ren(old, elm, m)  == IF m = old THEN elm ELSE m
Back(old, elm, n) == IF n = elm THEN old ELSE n
RenSet(U, old, elm) == (U \ {old}) \cup {elm}

IsRenamed(u, r, U, old, elm) ==
    /\ r \in Trees /\ ~r.fault /\ r.root = Ren(old, elm, u.root)
    /\ \A n \in RenSet(U, old, elm) :
           /\ r.parent[n] = Ren(old, elm, u.parent[Back(old, elm, n)])
           /\ r.color[n] = u.color[Back(old, elm, n)]
           /\ \A s \in Sides : r.link[n][s] = Ren(old, elm, u.link[Back(old, elm, n)][s])

\* The two renamings are inverse to each other, between U and V.
Inverses(U, V, old, elm) ==
    /\ V \subseteq Nodes
    /\ \A n \in V : /\ Back(old, elm, n) \in U /\ Ren(old, elm, Back(old, elm, n)) = n
                    /\ n \in Nodes /\ n # Null
    /\ \A m \in U \cup {Null} :
           /\ Ren(old, elm, m) \in V \cup {Null} /\ Back(old, elm, Ren(old, elm, m)) = m
           /\ Ren(old, elm, m) = Null <=> m = Null
    /\ Ren(old, elm, Null) = Null /\ Back(old, elm, Null) = Null
    /\ \A n \in Links : Back(old, elm, n) \in Links

\* The renamings between a set with old and a set with elm in its place.
LEMMA RenBack ==
    ASSUME NEW U, U \subseteq Nodes, NEW old \in U, NEW elm \in Nodes \ U,
           NEW V, RenSet(U, old, elm) = V
    PROVE  Inverses(U, V, old, elm)
  BY TreeAssumption DEF Ren, Back, RenSet, Links, Inverses

\* elm takes the fields of old.
FieldsSet(t, r, old, elm) ==
    /\ r \in Trees /\ r.root = t.root /\ (~t.fault => ~r.fault)
    /\ \A n \in Nodes : /\ r.parent[n] = t.parent[Back(old, elm, n)]
                        /\ r.color[n] = t.color[Back(old, elm, n)]
                        /\ \A s \in Sides : r.link[n][s] = t.link[Back(old, elm, n)][s]

\* The assignment of all fields at once.
LEMMA FieldsIs ==
    ASSUME NEW t \in Trees, NEW old \in Nodes, NEW elm \in Nodes, NEW r, Fields(t, old, elm) = r
    PROVE  FieldsSet(t, r, old, elm)
<1>1. /\ r.root = t.root /\ r.fault = t.fault
      /\ r = [root |-> t.root, link |-> [t.link EXCEPT ![elm] = t.link[old]],
              parent |-> [t.parent EXCEPT ![elm] = t.parent[old]],
              color |-> [t.color EXCEPT ![elm] = t.color[old]], fault |-> t.fault]
  BY DEF Trees, Fields
<1>2. /\ r.link = [t.link EXCEPT ![elm] = t.link[old]]
      /\ r.parent = [t.parent EXCEPT ![elm] = t.parent[old]]
      /\ r.color = [t.color EXCEPT ![elm] = t.color[old]]
  BY <1>1
<1>3. /\ t.link \in [Nodes -> [Sides -> Links]] /\ t.parent \in [Nodes -> Links]
      /\ t.color \in [Nodes -> Colors] /\ t.root \in Links /\ t.fault \in BOOLEAN
  BY DEF Trees
<1>4. /\ r.link \in [Nodes -> [Sides -> Links]] /\ r.parent \in [Nodes -> Links]
      /\ r.color \in [Nodes -> Colors]
  BY <1>2, <1>3
<1>5. r \in Trees
  BY <1>1, <1>2, <1>3, <1>4 DEF Trees
<1> QED
  BY <1>1, <1>2, <1>3, <1>5 DEF Back, FieldsSet

\* The assignments by which elm takes the place of old rename old to elm.
LEMMA SettleIs ==
    ASSUME NEW u, NEW U, NEW rank, NEW w, Shape(u, U, rank, w), NEW old \in U, NEW elm \in Nodes \ U,
           u.link[old]["left"] # Null,
           NEW r, Settle(Fields(u, old, elm), old, elm) = r
    PROVE  IsRenamed(u, r, U, old, elm)
<1> DEFINE t0 == Fields(u, old, elm)
           p  == u.parent[old]
           t1 == Replace(t0, p, old, elm)
           a  == u.link[old]["left"]
           b  == u.link[old]["right"]
           t2 == SetParent(t1, a, elm)
           t3 == SetParent(t2, b, elm)
<1>0. /\ u \in Trees /\ ~u.fault /\ U \subseteq Nodes /\ Null \notin U /\ elm # old /\ old \in Nodes /\ elm # Null
      /\ \A n \in U, s \in Sides : u.link[n][s] \in U \cup {Null}
      /\ \A n \in U, s \in Sides : u.link[n][s] # Null => u.parent[u.link[n][s]] = n
      /\ elm \in Links
  BY TreeAssumption DEF Shape, Links
<1>1. /\ p \in U \cup {Null} /\ p # old /\ (p = Null <=> old = u.root)
      /\ p # Null => u.link[p][LeftOrRight(u, p, old)] = old
      /\ \A n \in U : \A s \in Sides : u.link[n][s] = old => n = p /\ s = LeftOrRight(u, p, old)
  BY PlaceOf
<1>2. /\ a \in U \cup {Null} /\ b \in U \cup {Null} /\ a # Null /\ a # old /\ b # old
      /\ u.parent[a] = old /\ (b # Null => u.parent[b] = old) /\ a # elm /\ b # elm
      /\ a \in Links /\ b \in Links /\ p \in Links /\ p # elm
  <2>1. a \in U \cup {Null} /\ b \in U \cup {Null}
    BY <1>0, OtherSide
  <2>2. a # old /\ b # old
    BY <1>0, <2>1, ChildBelow, OtherSide
  <2> QED
    BY <1>0, <1>1, <2>1, <2>2, OtherSide DEF Links
<1>3. \A n \in U : u.parent[n] = old <=> n = a \/ n = b
  <2> SUFFICES ASSUME NEW n \in U PROVE u.parent[n] = old => n = a \/ n = b
    BY <1>0, <1>2
  <2>1. u.parent[n] = old => \E s \in Sides : u.link[old][s] = n
    BY <1>0, ChildOfParent, ParentIsNull
  <2> QED
    BY <2>1, OtherSide
<1>4. t0 = Fields(u, old, elm) /\ t1 = Replace(t0, p, old, elm) /\ t2 = SetParent(t1, a, elm) /\ t3 = SetParent(t2, b, elm)
      /\ a = u.link[old]["left"] /\ b = u.link[old]["right"] /\ p = u.parent[old]
  OBVIOUS
<1>4a. r = Adopt(Replace(t0, t0.parent[old], old, elm), old, elm)
  BY DEF Settle
<1> HIDE DEF t0, t1, t2, t3, a, b, p
<1>5. /\ t0 \in Trees /\ t0.root = u.root /\ ~t0.fault
      /\ \A n \in Nodes : /\ t0.parent[n] = u.parent[Back(old, elm, n)]
                          /\ t0.color[n] = u.color[Back(old, elm, n)]
                          /\ \A s \in Sides : t0.link[n][s] = u.link[Back(old, elm, n)][s]
  <2>1. FieldsSet(u, t0, old, elm)
    BY <1>0, <1>4, FieldsIs
  <2> QED
    BY <1>0, <2>1 DEF FieldsSet
<1>6. ChildSet(t0, t1, p, old, elm)
  BY <1>0, <1>2, <1>4, <1>5, ReplaceIs
<1>7. t0.parent[old] = p
  BY <1>0, <1>4, <1>5 DEF Back
<1>8. p # Null => LeftOrRight(t0, p, old) = LeftOrRight(u, p, old)
  <2>1. p # Null => p \in Nodes /\ Back(old, elm, p) = p
    BY <1>0, <1>1, <1>2 DEF Back
  <2>2. p # Null => t0.link[p]["left"] = u.link[p]["left"]
    BY <1>5, <2>1, OtherSide
  <2> QED
    BY <2>2 DEF LeftOrRight
<1>9. /\ t1 \in Trees /\ t1.parent = t0.parent /\ t1.color = t0.color /\ ~t1.fault
      /\ t1.root = IF p = Null THEN elm ELSE u.root
      /\ \A n \in Nodes, s \in Sides :
             t1.link[n][s] = IF n = p /\ s = LeftOrRight(u, p, old) THEN elm ELSE u.link[Back(old, elm, n)][s]
  <2>1. \A n \in Nodes, s \in Sides :
             t1.link[n][s] = IF n = p /\ s = LeftOrRight(t0, p, old) THEN elm ELSE t0.link[n][s]
    BY <1>6 DEF ChildSet
  <2>2. ASSUME NEW n \in Nodes, NEW s \in Sides
        PROVE t1.link[n][s] = IF n = p /\ s = LeftOrRight(u, p, old) THEN elm ELSE u.link[Back(old, elm, n)][s]
    <3>1. n = p => p # Null
      BY TreeAssumption
    <3> QED
      BY <1>5, <1>8, <2>1, <3>1
  <2> QED
    BY <1>5, <1>6, <2>2 DEF ChildSet
<1>10. t1.link[old]["left"] = a /\ t1.link[old]["right"] = b
  <2>1. Back(old, elm, old) = old
    BY DEF Back
  <2> QED
    BY <1>0, <1>1, <1>4, <1>9, <2>1, OtherSide
<1>11. r = t3
  <2>1. SetParent(SetParent(t1, t1.link[old]["left"], elm), t1.link[old]["right"], elm) = t3
    BY <1>4, <1>10
  <2>2. r = Adopt(t1, old, elm)
    BY <1>4, <1>4a, <1>7
  <2> QED
    BY <1>2, <1>10, <2>1, <2>2 DEF Adopt
<1>12. ParentSet(t1, t2, a, elm)
  BY <1>0, <1>2, <1>4, <1>9, SetParentIs
<1>13. t2 \in Trees
  BY <1>12 DEF ParentSet
<1>14. ParentSet(t2, t3, b, elm)
  BY <1>0, <1>2, <1>4, <1>13, SetParentIs
<1>15. /\ r \in Trees /\ ~r.fault /\ r.root = t1.root /\ r.link = t1.link /\ r.color = t0.color
       /\ \A n \in Nodes : r.parent[n] = IF n = a \/ n = b THEN elm ELSE t0.parent[n]
  BY <1>9, <1>11, <1>12, <1>14 DEF ParentSet
<1>16. r.root = Ren(old, elm, u.root)
  BY <1>1, <1>9, <1>15 DEF Ren
<1>17. ASSUME NEW n \in RenSet(U, old, elm)
       PROVE  n \in Nodes /\ Back(old, elm, n) \in U /\ (n = elm \/ n \in U \ {old})
  BY <1>0 DEF RenSet, Back
<1>18. ASSUME NEW n \in RenSet(U, old, elm)
       PROVE  r.parent[n] = Ren(old, elm, u.parent[Back(old, elm, n)])
  <2>1. CASE n = elm
    <3>1. Back(old, elm, n) = old
      BY <2>1 DEF Back
    <3>2. r.parent[n] = p
      BY <1>2, <1>4, <1>5, <1>15, <1>17, <2>1, <3>1
    <3> QED
      BY <1>1, <1>4, <3>1, <3>2 DEF Ren
  <2>2. CASE n \in U \ {old}
    <3>1. Back(old, elm, n) = n
      BY <2>2 DEF Back
    <3>2. r.parent[n] = IF n = a \/ n = b THEN elm ELSE u.parent[n]
      BY <1>5, <1>15, <1>17, <3>1
    <3> QED
      BY <1>3, <2>2, <3>1, <3>2 DEF Ren
  <2> QED
    BY <1>17, <2>1, <2>2
<1>19. ASSUME NEW n \in RenSet(U, old, elm), NEW s \in Sides
       PROVE  r.link[n][s] = Ren(old, elm, u.link[Back(old, elm, n)][s])
  <2>0. r.link[n][s] = IF n = p /\ s = LeftOrRight(u, p, old) THEN elm ELSE u.link[Back(old, elm, n)][s]
    BY <1>9, <1>15, <1>17
  <2>1. CASE n = elm
    <3>1. Back(old, elm, n) = old
      BY <2>1 DEF Back
    <3>2. u.link[old][s] # old
      BY <1>1
    <3> QED
      BY <1>2, <2>0, <2>1, <3>1, <3>2 DEF Ren
  <2>2. CASE n \in U \ {old}
    <3>1. Back(old, elm, n) = n
      BY <2>2 DEF Back
    <3>2. n = p => p # Null
      BY <1>0, <2>2
    <3> QED
      BY <1>1, <2>0, <2>2, <3>1, <3>2 DEF Ren
  <2> QED
    BY <1>17, <2>1, <2>2
<1>20. \A n \in RenSet(U, old, elm) : r.color[n] = u.color[Back(old, elm, n)]
  BY <1>5, <1>15, <1>17
<1> QED
  BY <1>15, <1>16, <1>18, <1>19, <1>20 DEF IsRenamed

\* The subtrees and the depths after the renaming.
RenamedSub(w, V, old, elm) == [n \in Links |-> {y \in V : Back(old, elm, y) \in w[Back(old, elm, n)]}]
RenamedDepths(B, old, elm) == [n \in Links |-> B[Back(old, elm, n)]]

\* The other elements of U are on one side of old and elm.
SameOrder(U, rank, old, elm) ==
    \A x \in U \ {old} : /\ rank[x] < rank[old] <=> rank[x] < rank[elm]
                         /\ rank[old] < rank[x] <=> rank[elm] < rank[x]

\* The renamed tree is a search tree if elm has the place of old in the order.
LEMMA RenamedShape ==
    ASSUME NEW u, NEW U, NEW rank, NEW w, Shape(u, U, rank, w), NEW old \in U, NEW elm \in Nodes \ U,
           NEW r, IsRenamed(u, r, U, old, elm), NEW V, RenSet(U, old, elm) = V,
           NEW v, RenamedSub(w, V, old, elm) = v,
           SameOrder(U, rank, old, elm)
    PROVE  Shape(r, V, rank, v)
<1> DEFINE f(m) == Ren(old, elm, m)
           g(n) == Back(old, elm, n)
<1>0. /\ U \subseteq Nodes /\ rank \in [Nodes -> Int] /\ w \in [Links -> SUBSET U]
      /\ \A n \in U, s \in Sides : u.link[n][s] \in U \cup {Null}
      /\ \A n \in U, s \in Sides : u.link[n][s] # Null => u.parent[u.link[n][s]] = n
      /\ u.root \in U \cup {Null} /\ (u.root # Null => u.parent[u.root] = Null)
      /\ w[Null] = {} /\ w[u.root] = U /\ Null \in Links
  BY DEF Shape, Links
<1>1. /\ V \subseteq Nodes /\ \A n \in V : g(n) \in U /\ f(g(n)) = n /\ n \in Nodes /\ n # Null
      /\ \A m \in U \cup {Null} : f(m) \in V \cup {Null} /\ g(f(m)) = m /\ (f(m) = Null <=> m = Null)
      /\ f(Null) = Null /\ g(Null) = Null /\ \A n \in Links : g(n) \in Links
  <2>1. Inverses(U, V, old, elm)
    BY <1>0, RenBack
  <2> QED
    BY <2>1 DEF Inverses
<1>2. /\ r \in Trees /\ ~r.fault /\ r.root = f(u.root)
      /\ \A n \in V : /\ r.parent[n] = f(u.parent[g(n)])
                      /\ \A s \in Sides : r.link[n][s] = f(u.link[g(n)][s])
  BY DEF IsRenamed
<1>3. v \in [Links -> SUBSET V] /\ \A n \in Links : \A y : y \in v[n] <=> y \in V /\ g(y) \in w[g(n)]
  BY DEF RenamedSub
<1>a. \A x, n \in V : g(x) = g(n) <=> x = n
  BY <1>1
<1>b. \A x \in V : (x = elm /\ g(x) = old) \/ (x # elm /\ g(x) = x /\ x \in U \ {old})
  BY DEF RenSet, Back
<1> HIDE DEF f, g
<1>4. ASSUME NEW n \in V, NEW s \in Sides
      PROVE  /\ r.link[n][s] \in V \cup {Null} /\ g(r.link[n][s]) = u.link[g(n)][s]
             /\ r.link[n][s] # Null => r.parent[r.link[n][s]] = n
  <2>1. g(n) \in U /\ u.link[g(n)][s] \in U \cup {Null} /\ r.link[n][s] = f(u.link[g(n)][s])
    BY <1>0, <1>1, <1>2
  <2>2. r.link[n][s] \in V \cup {Null} /\ g(r.link[n][s]) = u.link[g(n)][s]
        /\ (r.link[n][s] = Null <=> u.link[g(n)][s] = Null)
    BY <1>1, <2>1
  <2>3. ASSUME r.link[n][s] # Null PROVE r.parent[r.link[n][s]] = n
    <3>1. r.parent[r.link[n][s]] = f(u.parent[u.link[g(n)][s]])
      BY <1>2, <2>2, <2>3
    <3>2. u.parent[u.link[g(n)][s]] = g(n)
      BY <1>0, <2>1, <2>2, <2>3
    <3> QED
      BY <1>1, <3>1, <3>2
  <2> QED
    BY <2>2, <2>3
<1>5. r.root \in V \cup {Null} /\ g(r.root) = u.root /\ (r.root = Null <=> u.root = Null)
  BY <1>0, <1>1, <1>2
<1>6. r.root # Null => r.parent[r.root] = Null
  BY <1>0, <1>1, <1>2, <1>5
<1>7. v[Null] = {} /\ v[r.root] = V
  <2>1. \A y : y \notin v[Null]
    BY <1>0, <1>1, <1>3
  <2>2. r.root \in Links
    BY <1>1, <1>5 DEF Links
  <2>3. \A y : y \in v[r.root] <=> y \in V
    BY <1>0, <1>1, <1>3, <1>5, <2>2
  <2>4. v[r.root] = V
    BY <2>3
  <2> QED
    BY <2>1, <2>4
<1>8. ASSUME NEW n \in V
      PROVE  \A x : x \in v[n] <=> x = n \/ x \in v[r.link[n]["left"]] \/ x \in v[r.link[n]["right"]]
  <2>1. g(n) \in U /\ n \in Links /\ r.link[n]["left"] \in Links /\ r.link[n]["right"] \in Links
    BY <1>1, <1>4, OtherSide DEF Links
  <2>2. \A x : x \in w[g(n)] <=> x = g(n) \/ x \in w[u.link[g(n)]["left"]] \/ x \in w[u.link[g(n)]["right"]]
    BY <2>1 DEF Shape
  <2>3. g(r.link[n]["left"]) = u.link[g(n)]["left"] /\ g(r.link[n]["right"]) = u.link[g(n)]["right"]
    BY <1>4, OtherSide
  <2>4. /\ \A y : y \in v[n] <=> y \in V /\ g(y) \in w[g(n)]
        /\ \A y : y \in v[r.link[n]["left"]] <=> y \in V /\ g(y) \in w[u.link[g(n)]["left"]]
        /\ \A y : y \in v[r.link[n]["right"]] <=> y \in V /\ g(y) \in w[u.link[g(n)]["right"]]
    BY <1>3, <2>1, <2>3
  <2> QED
    BY <1>a, <2>2, <2>4
<1>9. ASSUME NEW n \in V, NEW s \in Sides, NEW x \in v[r.link[n][s]] PROVE Before(rank, s, x, n)
  <2>1. r.link[n][s] \in Links
    BY <1>1, <1>4 DEF Links
  <2>2. x \in V /\ g(x) \in w[u.link[g(n)][s]]
    BY <1>3, <1>4, <2>1
  <2>3. g(n) \in U /\ g(x) \in U
    BY <1>1, <2>2
  <2>4. Before(rank, s, g(x), g(n))
    BY <2>2, <2>3 DEF Shape
  <2>5. rank[g(x)] \in Int /\ rank[g(n)] \in Int /\ rank[old] \in Int
    BY <1>0, <2>3
  <2>6. g(x) # g(n)
    BY <2>4, <2>5 DEF Before
  <2>7. rank[g(x)] < rank[g(n)] <=> rank[x] < rank[n]
    BY <1>b, <2>2, <2>6 DEF SameOrder
  <2>8. rank[g(n)] < rank[g(x)] <=> rank[n] < rank[x]
    BY <1>b, <2>2, <2>6 DEF SameOrder
  <2> QED
    BY <2>4, <2>7, <2>8 DEF Before
<1> QED
  BY <1>0, <1>1, <1>2, <1>3, <1>4, <1>5, <1>6, <1>7, <1>8, <1>9 DEF Shape

\* What the renaming keeps: the colours and the depths.
LEMMA RenamedColors ==
    ASSUME NEW u, NEW U, NEW rank, NEW w, Shape(u, U, rank, w), NEW old \in U, NEW elm \in Nodes \ U,
           NEW r, IsRenamed(u, r, U, old, elm), NEW V, RenSet(U, old, elm) = V,
           NEW B, Depths(B), NEW D, RenamedDepths(B, old, elm) = D
    PROVE  /\ Depths(D)
           /\ \A n \in V : /\ Back(old, elm, n) \in U /\ Ren(old, elm, Back(old, elm, n)) = n
                           /\ r.color[n] = u.color[Back(old, elm, n)]
                           /\ Blackness(r, n) = Blackness(u, Back(old, elm, n))
                           /\ Level(u, B, Back(old, elm, n)) => Level(r, D, n)
           /\ \A n \in V, s \in Sides :
                  /\ D[r.link[n][s]] = B[u.link[Back(old, elm, n)][s]]
                  /\ r.link[n][s] = Ren(old, elm, u.link[Back(old, elm, n)][s])
                  /\ Black(u, u.link[Back(old, elm, n)][s]) => Black(r, r.link[n][s])
           /\ \A m \in U \cup {Null} : /\ Black(u, m) <=> Black(r, Ren(old, elm, m))
                                       /\ D[Ren(old, elm, m)] = B[m]
<1> DEFINE f(m) == Ren(old, elm, m)
           g(n) == Back(old, elm, n)
<1>0. /\ U \subseteq Nodes /\ B \in [Links -> Nat] /\ B[Null] = 0 /\ Null \in Links /\ Null \notin U
      /\ \A n \in U, s \in Sides : u.link[n][s] \in U \cup {Null}
  BY TreeAssumption DEF Shape, Links, Depths
<1>1. /\ V \subseteq Nodes /\ \A n \in V : g(n) \in U /\ f(g(n)) = n /\ n \in Nodes /\ n # Null
      /\ \A m \in U \cup {Null} : f(m) \in V \cup {Null} /\ g(f(m)) = m /\ (f(m) = Null <=> m = Null)
      /\ f(Null) = Null /\ g(Null) = Null /\ \A n \in Links : g(n) \in Links
  <2>1. Inverses(U, V, old, elm)
    BY <1>0, RenBack
  <2> QED
    BY <2>1 DEF Inverses
<1>2. /\ r.root = f(u.root)
      /\ \A n \in V : /\ r.color[n] = u.color[g(n)]
                      /\ \A s \in Sides : r.link[n][s] = f(u.link[g(n)][s])
  BY DEF IsRenamed
<1>3. D = [n \in Links |-> B[g(n)]]
  BY DEF RenamedDepths
<1> HIDE DEF f, g
<1>4. D \in [Links -> Nat] /\ D[Null] = 0 /\ \A n \in Links : D[n] = B[g(n)]
  BY <1>0, <1>1, <1>3
<1>5. \A m \in U \cup {Null} : f(m) \in Links /\ D[f(m)] = B[m]
  BY <1>1, <1>4 DEF Links
<1>6. ASSUME NEW m \in U \cup {Null} PROVE Black(u, m) <=> Black(r, f(m))
  <2>1. m # Null => f(m) \in V /\ r.color[f(m)] = u.color[m]
    BY <1>1, <1>2
  <2> QED
    BY <1>1, <2>1 DEF Black
<1>7. ASSUME NEW n \in V, NEW s \in Sides
      PROVE  /\ D[r.link[n][s]] = B[u.link[g(n)][s]]
             /\ Black(u, u.link[g(n)][s]) => Black(r, r.link[n][s])
  <2>1. u.link[g(n)][s] \in U \cup {Null} /\ r.link[n][s] = f(u.link[g(n)][s])
    BY <1>0, <1>1, <1>2
  <2> QED
    BY <1>5, <1>6, <2>1
<1>8. ASSUME NEW n \in V
      PROVE  Blackness(r, n) = Blackness(u, g(n)) /\ (Level(u, B, g(n)) => Level(r, D, n))
  <2>1. Blackness(r, n) = Blackness(u, g(n))
    BY <1>2 DEF Blackness
  <2>2. D[n] = B[g(n)]
    BY <1>1, <1>4 DEF Links
  <2>3. D[r.link[n]["left"]] = B[u.link[g(n)]["left"]] /\ D[r.link[n]["right"]] = B[u.link[g(n)]["right"]]
    BY <1>7, OtherSide
  <2> QED
    BY <2>1, <2>2, <2>3 DEF Level
<1>9. Depths(D)
  BY <1>4 DEF Depths
<1> QED
  BY <1>1, <1>2, <1>5, <1>6, <1>7, <1>8, <1>9 DEF f, g

\* The renamed tree has its colors right if the tree had.
LEMMA RenamedColoured ==
    ASSUME NEW u, NEW U, NEW rank, NEW w, Shape(u, U, rank, w), NEW old \in U, NEW elm \in Nodes \ U,
           NEW r, IsRenamed(u, r, U, old, elm), NEW V, RenSet(U, old, elm) = V,
           NEW B, Coloured(u, U, B), NEW D, RenamedDepths(B, old, elm) = D
    PROVE  Coloured(r, V, D)
<1> DEFINE g(n) == Back(old, elm, n)
<1>1. Depths(B) /\ u.root \in U \cup {Null} /\ r.root = Ren(old, elm, u.root)
  BY DEF Coloured, Shape, IsRenamed
<1>2. /\ Depths(D)
      /\ \A n \in V : /\ g(n) \in U /\ r.color[n] = u.color[g(n)]
                      /\ Level(u, B, g(n)) => Level(r, D, n)
      /\ \A n \in V, s \in Sides : Black(u, u.link[g(n)][s]) => Black(r, r.link[n][s])
      /\ \A m \in U \cup {Null} : Black(u, m) <=> Black(r, Ren(old, elm, m))
  BY <1>1, RenamedColors
<1> HIDE DEF g
<1>3. /\ \A n \in U : Level(u, B, n) /\ \A s \in Sides : u.color[n] = "red" => Black(u, u.link[n][s])
      /\ Black(u, u.root)
  BY DEF Coloured
<1> QED
  BY <1>1, <1>2, <1>3 DEF Coloured

\* The renamed tree lacks a black element where the tree did.
LEMMA RenamedLacks ==
    ASSUME NEW u, NEW U, NEW rank, NEW w, Shape(u, U, rank, w), NEW old \in U, NEW elm \in Nodes \ U,
           NEW r, IsRenamed(u, r, U, old, elm), NEW V, RenSet(U, old, elm) = V,
           NEW B, NEW at, NEW up, Lacks(u, U, B, at, up), at # old, NEW D, RenamedDepths(B, old, elm) = D
    PROVE  Lacks(r, V, D, at, Ren(old, elm, up))
<1> DEFINE f(m) == Ren(old, elm, m)
           g(n) == Back(old, elm, n)
<1>1. Depths(B) /\ u.root \in U \cup {Null} /\ r.root = f(u.root) /\ U \subseteq Nodes /\ Null \notin U
  BY TreeAssumption DEF Lacks, Shape, IsRenamed
<1>2. /\ Depths(D)
      /\ \A n \in V : /\ g(n) \in U /\ f(g(n)) = n /\ r.color[n] = u.color[g(n)]
                      /\ Blackness(r, n) = Blackness(u, g(n))
                      /\ Level(u, B, g(n)) => Level(r, D, n)
      /\ \A n \in V, s \in Sides : /\ D[r.link[n][s]] = B[u.link[g(n)][s]]
                                   /\ r.link[n][s] = f(u.link[g(n)][s])
                                   /\ Black(u, u.link[g(n)][s]) => Black(r, r.link[n][s])
      /\ \A m \in U \cup {Null} : (Black(u, m) <=> Black(r, f(m))) /\ D[f(m)] = B[m]
  BY <1>1, RenamedColors
<1>3. /\ \A m \in U \cup {Null} : f(m) \in V \cup {Null} /\ g(f(m)) = m /\ (f(m) = Null <=> m = Null)
  <2>1. Inverses(U, V, old, elm)
    BY <1>1, RenBack
  <2> QED
    BY <2>1 DEF Inverses
<1>4. /\ at \in U \cup {Null} /\ \A n \in U \ {up} : Level(u, B, n)
      /\ \A n \in U, s \in Sides : u.color[n] = "red" /\ n # at /\ u.link[n][s] # at => Black(u, u.link[n][s])
      /\ Black(u, u.root) \/ u.root = at
      /\ up = Null => at = u.root
      /\ up # Null => up \in U /\ \E d \in Sides : Short(u, B, at, up, d)
  BY DEF Lacks
<1>5. f(at) = at
  BY DEF Ren
<1> HIDE DEF f, g
<1>6. at \in V \cup {Null} /\ g(at) = at /\ up \in U \cup {Null}
  BY <1>3, <1>4, <1>5
<1>7. ASSUME NEW n \in V, NEW s \in Sides, r.color[n] = "red", n # at, r.link[n][s] # at
      PROVE  Black(r, r.link[n][s])
  <2>1. g(n) \in U /\ g(n) # at /\ u.link[g(n)][s] # at /\ u.color[g(n)] = "red"
    BY <1>2, <1>5, <1>7
  <2> QED
    BY <1>2, <1>4, <2>1
<1>8. Black(r, r.root) \/ r.root = at
  BY <1>1, <1>2, <1>4, <1>5
<1>9. ASSUME NEW n \in V \ {f(up)} PROVE Level(r, D, n)
  <2>1. g(n) \in U \ {up}
    BY <1>2
  <2> QED
    BY <1>2, <1>4, <2>1
<1>10. f(up) = Null => at = r.root
  BY <1>1, <1>3, <1>4, <1>5, <1>6
<1>11. ASSUME f(up) # Null PROVE f(up) \in V /\ \E d \in Sides : Short(r, D, at, f(up), d)
  <2>1. up # Null /\ f(up) \in V /\ g(f(up)) = up /\ up \in U
    BY <1>3, <1>4, <1>6, <1>11
  <2>2. PICK d \in Sides : Short(u, B, at, up, d)
    BY <1>4, <2>1
  <2>3. u.link[up][d] = at /\ B[u.link[up][Other(d)]] = B[at] + 1 /\ B[up] = B[at] + 1 + Blackness(u, up)
    BY <2>2 DEF Short
  <2>4. r.link[f(up)][d] = at /\ D[r.link[f(up)][Other(d)]] = B[u.link[up][Other(d)]]
    BY <1>2, <1>5, <2>1, <2>3, OtherSide
  <2>5. D[at] = B[at] /\ D[f(up)] = B[up] /\ Blackness(r, f(up)) = Blackness(u, up)
    BY <1>2, <1>4, <1>5, <2>1
  <2>6. Short(r, D, at, f(up), d)
    BY <2>3, <2>4, <2>5 DEF Short
  <2> QED
    BY <2>1, <2>6
<1>12. Lacks(r, V, D, at, f(up))
  BY <1>2, <1>6, <1>7, <1>8, <1>9, <1>10, <1>11 DEF Lacks
<1> QED
  BY <1>12 DEF f

\* An element with one child at most is taken out.
LEMMA RemoveOuterIs ==
    ASSUME NEW t, NEW S, NEW rank, IsTree(t, S, rank), NEW old \in S, NEW d \in Sides,
           t.link[old][Other(d)] = Null, NEW child, t.link[old][d] = child
    PROVE  IsTree(RemoveOuter(t, old, child), S \ {old}, rank)
<1>1. PICK w, B : Shape(t, S, rank, w) /\ Coloured(t, S, B)
  BY DEF IsTree
<1> DEFINE r == Detach(t, old, child)
           p == t.parent[old]
           U == S \ {old}
           v == DetachedSub(w, old)
<1>2. /\ Detach(t, old, child) = r /\ t.parent[old] = p /\ S \ {old} = U /\ DetachedSub(w, old) = v
      /\ RemoveOuter(t, old, child) = Balance(r, t.color[old], p, child)
  BY DEF RemoveOuter
<1> HIDE DEF r, p, U, v
<1>3. child \in S \cup {Null} /\ t.color[old] \in Colors
  BY <1>1, TreeFields DEF Shape
<1>4. IsDetached(t, r, S, old, child)
  BY <1>1, <1>2, <1>3, DetachIs
<1>5. Shape(r, U, rank, v)
  BY <1>1, <1>2, <1>4, DetachShape
<1>6. CASE t.color[old] = "red"
  <2>1. Coloured(r, U, B)
    BY <1>1, <1>2, <1>4, <1>6, DetachRed
  <2>2. RemoveOuter(t, old, child) = r
    BY <1>2, <1>6 DEF Balance
  <2> QED
    BY <1>2, <1>5, <2>1, <2>2 DEF IsTree
<1>7. CASE t.color[old] = "black"
  <2>1. Lacks(r, U, B, child, p)
    BY <1>1, <1>2, <1>4, <1>7, DetachBlack
  <2>2. RemoveOuter(t, old, child) = RemoveColor(r, p, child)
    BY <1>2, <1>7 DEF Balance
  <2> QED
    BY <1>2, <1>5, <2>1, <2>2, RemoveColorIs
<1> QED
  BY <1>3, <1>6, <1>7 DEF Colors

\* The successor of an element with two children has no left child, and is the
\* next in the order.
LEMMA SuccessorIs ==
    ASSUME NEW t, NEW S, NEW rank, NEW w, Shape(t, S, rank, w), NEW old \in S,
           t.link[old]["left"] # Null, t.link[old]["right"] # Null,
           \A x, y \in S : rank[x] = rank[y] => x = y,
           NEW c, Outermost(t, t.link[old]["right"], "left") = c, NEW elm, c.at = elm
    PROVE  /\ ~c.t.fault /\ elm \in S /\ elm # old /\ t.link[elm]["left"] = Null
           /\ elm # t.link[old]["left"] /\ t.link[elm]["right"] # old
           /\ \A x \in S \ {old, elm} : /\ rank[x] < rank[old] <=> rank[x] < rank[elm]
                                        /\ rank[old] < rank[x] <=> rank[elm] < rank[x]
<1> DEFINE r == t.link[old]["right"]
<1>1. r \in S /\ old \notin w[r] /\ t.link[old]["left"] \notin w[r]
  <2>1. /\ r \in S /\ old \notin w[r] /\ \A x \in w[r] : x \notin w[t.link[old][Other("right")]]
    BY ChildBelow, OtherSide
  <2>2. Other("right") = "left"
    BY DEF Other
  <2>3. t.link[old]["left"] \in w[t.link[old]["left"]]
    BY ChildBelow, OtherSide
  <2> QED
    BY <2>1, <2>2, <2>3
<1>2. ~c.t.fault /\ elm \in S /\ elm \in w[r] /\ t.link[elm]["left"] = Null
  BY <1>1, LeftIs
<1>3. NextOf(t, old) = elm
  BY DEF NextOf
<1>4. IsNext(S, rank, old, elm)
  BY <1>3, NextIs
<1>5. /\ rank[old] \in Int /\ rank[elm] \in Int /\ \A x \in S : rank[x] \in Int
      /\ elm # Null
  BY <1>2, TreeAssumption DEF Shape
<1>6. elm # old /\ elm # t.link[old]["left"]
  BY <1>1, <1>2
<1>7. t.link[elm]["right"] # old
  <2>1. old \in w[old] /\ rank[old] < rank[elm]
    BY <1>4, <1>5 DEF Shape, IsNext
  <2>2. t.link[elm]["right"] = old => Before(rank, "right", old, elm)
    BY <1>2, <2>1, OtherSide DEF Shape
  <2> QED
    BY <1>5, <2>1, <2>2 DEF Before
<1>8. ASSUME NEW x \in S \ {old, elm}
      PROVE  /\ rank[x] < rank[old] <=> rank[x] < rank[elm]
             /\ rank[old] < rank[x] <=> rank[elm] < rank[x]
  <2>1. rank[x] # rank[old] /\ rank[x] # rank[elm] /\ rank[x] \in Int
    BY <1>2, <1>5
  <2>2. rank[old] < rank[elm] /\ (rank[old] < rank[x] => rank[elm] <= rank[x])
    BY <1>4, <1>5 DEF IsNext
  <2> QED
    BY <1>5, <2>1, <2>2
<1> QED
  BY <1>2, <1>6, <1>7, <1>8

\* An element with two children is replaced by its successor.
LEMMA RemoveInnerIs ==
    ASSUME NEW t, NEW S, NEW rank, IsTree(t, S, rank), NEW old \in S,
           t.link[old]["left"] # Null, t.link[old]["right"] # Null,
           \A x, y \in S : rank[x] = rank[y] => x = y,
           NEW c, Outermost(t, t.link[old]["right"], "left") = c
    PROVE  IsTree(RemoveInner(t, old, c), S \ {old}, rank)
<1>1. PICK w, B : Shape(t, S, rank, w) /\ Coloured(t, S, B)
  BY DEF IsTree
<1> DEFINE elm == c.at
           child == t.link[elm]["right"]
           p == t.parent[elm]
           u == Detach(t, elm, child)
           U == S \ {elm}
           v == DetachedSub(w, elm)
           r == Settle(Fields(u, old, elm), old, elm)
           V == RenSet(U, old, elm)
           x == RenamedSub(v, V, old, elm)
           D == RenamedDepths(B, old, elm)
<1>2. /\ ~c.t.fault /\ elm \in S /\ elm # old /\ t.link[elm]["left"] = Null
      /\ elm # t.link[old]["left"] /\ child # old
      /\ \A y \in S \ {old, elm} : /\ rank[y] < rank[old] <=> rank[y] < rank[elm]
                                   /\ rank[old] < rank[y] <=> rank[elm] < rank[y]
  BY <1>1, SuccessorIs
<1>3. RemoveInner(t, old, c) = Balance(r, t.color[elm], Ren(old, elm, p), child)
  BY <1>2 DEF RemoveInner, Ren
<1>4. /\ Detach(t, elm, child) = u /\ t.parent[elm] = p /\ S \ {elm} = U /\ DetachedSub(w, elm) = v
      /\ t.link[elm]["right"] = child /\ Settle(Fields(u, old, elm), old, elm) = r
      /\ RenSet(U, old, elm) = V /\ RenamedSub(v, V, old, elm) = x /\ RenamedDepths(B, old, elm) = D
  OBVIOUS
<1> HIDE DEF elm, child, p, u, U, v, r, V, x, D
<1>5. child \in S \cup {Null} /\ t.color[elm] \in Colors /\ elm \in Nodes /\ S \subseteq Nodes
  BY <1>1, <1>2, <1>4, TreeFields, OtherSide DEF Shape
<1>6. IsDetached(t, u, S, elm, child)
  BY <1>1, <1>2, <1>4, <1>5, DetachIs
<1>7. Other("right") = "left" /\ "right" \in Sides /\ "left" \in Sides
  BY OtherSide DEF Other
<1>8. t.link[elm][Other("right")] = Null
  BY <1>2, <1>7
<1>9. Shape(u, U, rank, v)
  BY <1>1, <1>2, <1>4, <1>6, <1>7, <1>8, DetachShape
<1>10. old \in U /\ elm \in Nodes \ U
  BY <1>2, <1>4, <1>5
<1>10a. V = S \ {old}
  BY <1>2, <1>4, <1>5 DEF RenSet
<1>10b. RenSet(U, old, elm) = V /\ RenamedSub(v, V, old, elm) = x /\ RenamedDepths(B, old, elm) = D
  BY <1>4
<1>11. u.link[old]["left"] # Null
  BY <1>2, <1>6, <1>7 DEF IsDetached
<1>12. IsRenamed(u, r, U, old, elm)
  BY <1>4, <1>9, <1>10, <1>11, SettleIs
<1>13. SameOrder(U, rank, old, elm)
  BY <1>2, <1>4 DEF SameOrder
<1>14. Shape(r, V, rank, x)
  BY <1>9, <1>10, <1>10b, <1>12, <1>13, RenamedShape
<1>15. CASE t.color[elm] = "red"
  <2>1. Coloured(u, U, B)
    BY <1>1, <1>2, <1>4, <1>6, <1>7, <1>15, DetachRed
  <2>2. Coloured(r, V, D)
    BY <1>9, <1>10, <1>10b, <1>12, <2>1, RenamedColoured
  <2>3. RemoveInner(t, old, c) = r
    BY <1>3, <1>15 DEF Balance
  <2> QED
    BY <1>10a, <1>14, <2>2, <2>3 DEF IsTree
<1>16. CASE t.color[elm] = "black"
  <2>1. Lacks(u, U, B, child, p)
    BY <1>1, <1>2, <1>4, <1>6, <1>7, <1>16, DetachBlack
  <2>2. Lacks(r, V, D, child, Ren(old, elm, p))
    BY <1>2, <1>9, <1>10, <1>10b, <1>12, <2>1, RenamedLacks
  <2>3. RemoveInner(t, old, c) = RemoveColor(r, Ren(old, elm, p), child)
    BY <1>3, <1>16 DEF Balance
  <2> QED
    BY <1>10a, <1>14, <2>2, <2>3, RemoveColorIs
<1> QED
  BY <1>5, <1>15, <1>16 DEF Colors

\* RB_REMOVE takes one element out of a red-black search tree.
LEMMA RemoveIs ==
    ASSUME NEW t, NEW S, NEW rank, IsTree(t, S, rank), NEW old \in S,
           \A x, y \in S : rank[x] = rank[y] => x = y
    PROVE  IsTree(Remove(t, old), S \ {old}, rank)
<1>1. ~t.fault
  BY DEF IsTree, Shape
<1>2. Other("right") = "left" /\ Other("left") = "right" /\ "right" \in Sides /\ "left" \in Sides
  BY OtherSide DEF Other
<1>3. CASE t.link[old]["left"] = Null
  <2>1. Remove(t, old) = RemoveOuter(t, old, t.link[old]["right"])
    BY <1>1, <1>3 DEF Remove
  <2> QED
    BY <1>2, <1>3, <2>1, RemoveOuterIs
<1>4. CASE t.link[old]["left"] # Null /\ t.link[old]["right"] = Null
  <2>1. Remove(t, old) = RemoveOuter(t, old, t.link[old]["left"])
    BY <1>1, <1>4 DEF Remove
  <2> QED
    BY <1>2, <1>4, <2>1, RemoveOuterIs
<1>5. CASE t.link[old]["left"] # Null /\ t.link[old]["right"] # Null
  <2>1. Remove(t, old) = RemoveInner(t, old, Outermost(t, t.link[old]["right"], "left"))
    BY <1>1, <1>5 DEF Remove
  <2> QED
    BY <1>5, <2>1, RemoveInnerIs
<1> QED
  BY <1>3, <1>4, <1>5

-----------------------------------------------------------------------------
(* The elements that the tree links, and the elements above one.           *)

LinkedWay(t, S, w, R, i) ==
    /\ R \in SUBSET S /\ (t.root # Null => t.root \in R)
    /\ \A n \in S : Size - Weight(w, n) <= i => n \in R

\* Each turn of Linked reaches the elements one step further down.
LEMMA LinkedTurn ==
    ASSUME NEW t, NEW S, NEW rank, NEW w, Shape(t, S, rank, w), NEW R, NEW i \in Nat, LinkedWay(t, S, w, R, i)
    PROVE  LinkedWay(t, S, w, WithChildren(t, R), i + 1)
<1>1. R \in SUBSET S /\ (t.root # Null => t.root \in R) /\ \A n \in S : Size - Weight(w, n) <= i => n \in R
  BY DEF LinkedWay
<1>2. WithChildren(t, R) \in SUBSET S
  BY <1>1 DEF WithChildren, Shape
<1>3. ASSUME NEW n \in S, Size - Weight(w, n) <= i + 1 PROVE n \in WithChildren(t, R)
  <2>1. CASE n = t.root
    BY <1>1, <2>1, TreeAssumption DEF WithChildren, Shape
  <2>2. CASE n # t.root
    <3>1. PICK p \in S, d \in Sides : t.link[p][d] = n
      BY <2>2, ChildOfParent
    <3>2. Weight(w, n) < Weight(w, p)
      BY <3>1, ChildWeight
    <3>3. Weight(w, n) \in Nat /\ Weight(w, p) \in Nat /\ Size \in Nat
      BY <3>1, WeightType, SizeType
    <3>4. p \in R
      BY <1>1, <1>3, <3>1, <3>2, <3>3
    <3>5. n # Null
      BY TreeAssumption DEF Shape
    <3> QED
      BY <3>1, <3>4, <3>5 DEF WithChildren
  <2> QED
    BY <2>1, <2>2
<1>4. t.root # Null => t.root \in WithChildren(t, R)
  BY <1>1 DEF WithChildren
<1> QED
  BY <1>2, <1>3, <1>4 DEF LinkedWay

\* The turns of Linked.
LEMMA LinkedRun ==
    ASSUME NEW t, NEW S, NEW rank, NEW w, Shape(t, S, rank, w), NEW C,
           LinkedWay(t, S, w, C, 0), {t.root} \ {Null} = C
    PROVE  LinkedWay(t, S, w, Linked(t), Size)
<1> DEFINE n == Size
           s[i \in 0 .. n] == IF i = 0 THEN C ELSE WithChildren(t, s[i - 1])
           G == SUBSET S
           F == [R \in G |-> WithChildren(t, R)]
<1>0. \A R : \A i \in Nat : LinkedWay(t, S, w, R, i) => LinkedWay(t, S, w, WithChildren(t, R), i + 1)
  BY LinkedTurn
<1>1. \A R \in G : WithChildren(t, R) \in G
  BY DEF WithChildren, Shape
<1>2. F \in [G -> G] /\ \A R \in G : F[R] = WithChildren(t, R)
  BY <1>1
<1>3. Linked(t) = s[n]
  BY DEF Linked
<1>4. n \in Nat /\ C \in G
  BY SizeType DEF LinkedWay
<1> HIDE DEF F, G, n
<1>5. \E g : g = [i \in 0 .. n |-> IF i = 0 THEN C ELSE WithChildren(t, g[i - 1])]
  <2>1. PICK g : IsRun(g, G, F, C, n)
    BY <1>2, <1>4, RunExists
  <2>2. ASSUME NEW i \in 0 .. n
        PROVE  g[i] = IF i = 0 THEN C ELSE WithChildren(t, g[i - 1])
    BY <1>2, <1>4, <2>1 DEF IsRun
  <2>3. g = [i \in 0 .. n |-> IF i = 0 THEN C ELSE WithChildren(t, g[i - 1])]
    BY <2>1, <2>2 DEF IsRun
  <2> QED
    BY <2>3
<1>6. s = [i \in 0 .. n |-> IF i = 0 THEN C ELSE WithChildren(t, s[i - 1])]
  BY <1>5
<1> HIDE DEF s
<1>7. s[0] = C /\ \A i \in 0 .. n - 1 : s[i + 1] = WithChildren(t, s[i])
  BY <1>4, <1>6
<1> DEFINE P == {i \in 0 .. n : LinkedWay(t, S, w, s[i], i)}
<1>8. 0 \in P
  BY <1>4, <1>7
<1>9. ASSUME NEW i \in 0 .. n - 1, i \in P PROVE i + 1 \in P
  <2>1. LinkedWay(t, S, w, s[i], i) /\ i \in Nat /\ i + 1 \in 0 .. n
    BY <1>4, <1>9
  <2>2. LinkedWay(t, S, w, WithChildren(t, s[i]), i + 1)
    BY <1>0, <2>1
  <2> QED
    BY <1>7, <2>1, <2>2
<1> HIDE DEF P
<1>10. 0 .. n \subseteq P
  BY <1>4, <1>8, <1>9, UpTo
<1>11. LinkedWay(t, S, w, s[n], n)
  BY <1>4, <1>10 DEF P
<1> QED
  BY <1>3, <1>11 DEF n


\* The tree links exactly its elements.
LEMMA LinkedIs ==
    ASSUME NEW t, NEW S, NEW rank, NEW w, Shape(t, S, rank, w)
    PROVE  Linked(t) = S
<1> DEFINE C == {t.root} \ {Null}
<1>1. C \in SUBSET S /\ (t.root # Null => t.root \in C)
  BY DEF Shape
<1>2. ASSUME NEW n \in S, Size - Weight(w, n) <= 0 PROVE n \in C
  <2>0. n # Null
    BY TreeAssumption DEF Shape
  <2> SUFFICES ASSUME n # t.root PROVE FALSE
    BY <2>0
  <2>1. PICK p \in S, d \in Sides : t.link[p][d] = n
    BY ChildOfParent
  <2>2. Weight(w, n) < Weight(w, p)
    BY <2>1, ChildWeight
  <2>3. Weight(w, n) \in Nat /\ Weight(w, p) \in 0 .. Size /\ Size \in Nat
    BY <2>1, WeightType, SizeType
  <2> QED
    BY <1>2, <2>2, <2>3
<1>3. LinkedWay(t, S, w, C, 0)
  BY <1>1, <1>2 DEF LinkedWay
<1>4. LinkedWay(t, S, w, Linked(t), Size)
  BY <1>3, LinkedRun
<1>5. \A n \in S : Size - Weight(w, n) <= Size
  BY WeightType, SizeType
<1> QED
  BY <1>4, <1>5 DEF LinkedWay

\* The elements at or above n.
Upwards(S, w, n) == {a \in S : n \in w[a]}

AboveWay(t, S, w, n, R, i) ==
    /\ R \in SUBSET S /\ n \in R /\ R \subseteq Upwards(S, w, n)
    /\ \A a \in S : n \in w[a] /\ Weight(w, a) <= i => a \in R

\* The parents of elements are elements.
LEMMA AboveStays ==
    ASSUME NEW t, NEW S, NEW rank, NEW w, Shape(t, S, rank, w), NEW R \in SUBSET S
    PROVE  WithParents(t, R) \in SUBSET S
<1>1. \A m \in S : t.parent[m] \in S \cup {Null}
  BY ChildOfParent, ParentIsNull
<1> QED
  BY <1>1 DEF WithParents

\* Each turn of Above reaches one step further up.
LEMMA AboveTurn ==
    ASSUME NEW t, NEW S, NEW rank, NEW w, Shape(t, S, rank, w), NEW n \in S,
           NEW R, NEW i \in Nat, AboveWay(t, S, w, n, R, i)
    PROVE  AboveWay(t, S, w, n, WithParents(t, R), i + 1)
<1>1. /\ R \in SUBSET S /\ n \in R /\ \A a \in R : a \in S /\ n \in w[a]
      /\ \A a \in S : n \in w[a] /\ Weight(w, a) <= i => a \in R
  BY DEF AboveWay, Upwards
<1>2. WithParents(t, R) \in SUBSET S
  BY <1>1, AboveStays
<1>3. ASSUME NEW m \in R, t.parent[m] # Null PROVE t.parent[m] \in S /\ n \in w[t.parent[m]]
  <2>1. m \in S /\ m # t.root /\ m # Null
    BY <1>1, <1>3, ParentIsNull, TreeAssumption DEF Shape
  <2>2. PICK d \in Sides : t.parent[m] \in S /\ t.link[t.parent[m]][d] = m
    BY <2>1, ChildOfParent
  <2>3. w[m] \subseteq w[t.parent[m]]
    BY <2>1, <2>2, ChildBelow
  <2> QED
    BY <1>1, <2>2, <2>3
<1>4. WithParents(t, R) \subseteq Upwards(S, w, n)
  BY <1>1, <1>3 DEF WithParents, Upwards
<1>5. ASSUME NEW a \in S, n \in w[a], Weight(w, a) <= i + 1 PROVE a \in WithParents(t, R)
  <2>1. CASE a = n
    BY <1>1, <2>1 DEF WithParents
  <2>2. CASE a # n
    <3>1. PICK d \in Sides : n \in w[t.link[a][d]]
      BY <1>5, <2>2, OtherSide DEF Shape
    <3> DEFINE c == t.link[a][d]
    <3>2. c # Null
      BY <3>1 DEF Shape
    <3>3. c \in S /\ t.parent[c] = a /\ Weight(w, c) < Weight(w, a)
      BY <3>2, ChildBelow, ChildWeight
    <3>4. Weight(w, c) \in Nat /\ Weight(w, a) \in Nat
      BY <3>3, WeightType
    <3>5. c \in R
      BY <1>1, <1>5, <3>1, <3>3, <3>4
    <3>6. a # Null
      BY TreeAssumption DEF Shape
    <3> QED
      BY <3>3, <3>5, <3>6 DEF WithParents
  <2> QED
    BY <2>1, <2>2
<1>6. n \in WithParents(t, R)
  BY <1>1 DEF WithParents
<1> QED
  BY <1>2, <1>4, <1>5, <1>6 DEF AboveWay

\* The turns of Above.
LEMMA AboveRun ==
    ASSUME NEW t, NEW S, NEW rank, NEW w, Shape(t, S, rank, w), NEW a \in S, NEW C,
           AboveWay(t, S, w, a, C, 0), {a} = C
    PROVE  AboveWay(t, S, w, a, Above(t, a), Size)
<1> DEFINE n == Size
           s[i \in 0 .. n] == IF i = 0 THEN C ELSE WithParents(t, s[i - 1])
           G == SUBSET S
           F == [R \in G |-> WithParents(t, R)]
<1>0. \A R : \A i \in Nat : AboveWay(t, S, w, a, R, i) => AboveWay(t, S, w, a, WithParents(t, R), i + 1)
  BY AboveTurn
<1>1. \A R \in G : WithParents(t, R) \in G
  BY AboveStays
<1>2. F \in [G -> G] /\ \A R \in G : F[R] = WithParents(t, R)
  BY <1>1
<1>3. Above(t, a) = s[n]
  BY DEF Above
<1>4. n \in Nat /\ C \in G
  BY SizeType DEF AboveWay
<1> HIDE DEF F, G, n
<1>5. \E g : g = [i \in 0 .. n |-> IF i = 0 THEN C ELSE WithParents(t, g[i - 1])]
  <2>1. PICK g : IsRun(g, G, F, C, n)
    BY <1>2, <1>4, RunExists
  <2>2. ASSUME NEW i \in 0 .. n
        PROVE  g[i] = IF i = 0 THEN C ELSE WithParents(t, g[i - 1])
    BY <1>2, <1>4, <2>1 DEF IsRun
  <2>3. g = [i \in 0 .. n |-> IF i = 0 THEN C ELSE WithParents(t, g[i - 1])]
    BY <2>1, <2>2 DEF IsRun
  <2> QED
    BY <2>3
<1>6. s = [i \in 0 .. n |-> IF i = 0 THEN C ELSE WithParents(t, s[i - 1])]
  BY <1>5
<1> HIDE DEF s
<1>7. s[0] = C /\ \A i \in 0 .. n - 1 : s[i + 1] = WithParents(t, s[i])
  BY <1>4, <1>6
<1> DEFINE P == {i \in 0 .. n : AboveWay(t, S, w, a, s[i], i)}
<1>8. 0 \in P
  BY <1>4, <1>7
<1>9. ASSUME NEW i \in 0 .. n - 1, i \in P PROVE i + 1 \in P
  <2>1. AboveWay(t, S, w, a, s[i], i) /\ i \in Nat /\ i + 1 \in 0 .. n
    BY <1>4, <1>9
  <2>2. AboveWay(t, S, w, a, WithParents(t, s[i]), i + 1)
    BY <1>0, <2>1
  <2> QED
    BY <1>7, <2>1, <2>2
<1> HIDE DEF P
<1>10. 0 .. n \subseteq P
  BY <1>4, <1>8, <1>9, UpTo
<1>11. AboveWay(t, S, w, a, s[n], n)
  BY <1>4, <1>10 DEF P
<1> QED
  BY <1>3, <1>11 DEF n


\* Above finds exactly the elements that have n below them.
LEMMA AboveIs ==
    ASSUME NEW t, NEW S, NEW rank, NEW w, Shape(t, S, rank, w), NEW n \in S
    PROVE  Above(t, n) = Upwards(S, w, n)
<1>1. n \in w[n]
  BY DEF Shape
<1>2. \A a \in S : Weight(w, a) \in 1 .. Size
  BY WeightType, SizeType, TreeAssumption DEF Shape
<1>3. AboveWay(t, S, w, n, {n}, 0)
  BY <1>1, <1>2 DEF AboveWay, Upwards
<1>4. AboveWay(t, S, w, n, Above(t, n), Size)
  BY <1>3, AboveRun
<1> QED
  BY <1>2, <1>4 DEF AboveWay, Upwards

\* A subtree holds the children of its elements.
LEMMA BelowClosed ==
    ASSUME NEW t, NEW S, NEW rank, NEW w, Shape(t, S, rank, w), NEW p \in S, NEW d \in Sides,
           NEW n, t.link[p][d] = n, n # Null, NEW b \in S, p \in w[b]
    PROVE  n \in w[b]
<1> DEFINE Q == {a \in S : p \in w[a] /\ n \notin w[a]}
           T == {Weight(w, a) : a \in Q}
<1> SUFFICES ASSUME n \notin w[b] PROVE FALSE
  OBVIOUS
<1>1. T \in SUBSET Nat /\ T # {}
  <2>1. b \in Q
    OBVIOUS
  <2>2. \A a \in S : Weight(w, a) \in Nat
    BY WeightType
  <2> QED
    BY <2>1, <2>2
<1>2. PICK k \in T : \A y \in T : k <= y
  BY <1>1, LeastNat, Zenon
<1>3. PICK a \in Q : Weight(w, a) = k
  BY <1>2
<1>4. n \in w[n] /\ w[n] \subseteq w[p]
  BY ChildBelow
<1>5. a \in S /\ a # p /\ p \in w[a] /\ n \notin w[a]
  BY <1>3, <1>4
<1>6. PICK s \in Sides : p \in w[t.link[a][s]]
  BY <1>5, OtherSide DEF Shape
<1> DEFINE c == t.link[a][s]
<1>7. c # Null
  BY <1>6 DEF Shape
<1>8. c \in S /\ w[c] \subseteq w[a] /\ Weight(w, c) < Weight(w, a)
  BY <1>5, <1>7, ChildBelow, ChildWeight
<1>9. c \in Q
  BY <1>5, <1>6, <1>8
<1>10. k <= Weight(w, c) /\ k \in Nat /\ Weight(w, c) \in Nat
  BY <1>1, <1>2, <1>9
<1> QED
  BY <1>3, <1>8, <1>10

\* The elements above an element are those above its parent, and itself.
LEMMA UpwardsIs ==
    ASSUME NEW t, NEW S, NEW rank, NEW w, Shape(t, S, rank, w), NEW n \in S
    PROVE  /\ n = t.root => Upwards(S, w, n) = {n}
           /\ n # t.root => LET p == t.parent[n]
                            IN  Upwards(S, w, n) = Upwards(S, w, p) \cup {n} /\ n \notin Upwards(S, w, p)
<1>0. n \in w[n] /\ n # Null
  BY TreeAssumption DEF Shape
<1>1. ASSUME NEW a \in S, n \in w[a], a # n
      PROVE  n # t.root /\ t.parent[n] \in w[a]
  <2>1. PICK p \in w[a], d \in Sides : t.link[p][d] = n
    BY <1>1, ParentBelow
  <2>2. p \in S
    BY DEF Shape, Links
  <2>3. t.parent[n] = p
    BY <1>0, <2>1, <2>2, ChildBelow
  <2>4. p # Null
    BY <2>2, TreeAssumption DEF Shape
  <2> QED
    BY <2>1, <2>3, <2>4, ParentIsNull
<1>2. n = t.root => Upwards(S, w, n) = {n}
  BY <1>0, <1>1 DEF Upwards
<1>3. ASSUME n # t.root, NEW p, t.parent[n] = p
      PROVE  Upwards(S, w, n) = Upwards(S, w, p) \cup {n} /\ n \notin Upwards(S, w, p)
  <2>1. PICK d \in Sides : p \in S /\ t.link[p][d] = n
    BY <1>3, ChildOfParent
  <2>2. p \notin w[n]
    BY <1>0, <2>1, ChildBelow
  <2>3. \A b \in S : p \in w[b] => n \in w[b]
    BY <1>0, <2>1, BelowClosed
  <2>4. \A b \in S : n \in w[b] /\ b # n => p \in w[b]
    BY <1>1, <1>3
  <2> QED
    BY <1>0, <2>2, <2>3, <2>4 DEF Upwards
<1> QED
  BY <1>2, <1>3

-----------------------------------------------------------------------------
(* What RedBlack and SearchTree say follows.                               *)

\* The black elements above an element and itself.
BlackAbove(t, S, w, n) == {m \in Upwards(S, w, n) : t.color[m] = "black"}

\* One step down adds the element if it is black.
LEMMA BlackAboveIs ==
    ASSUME NEW t, NEW S, NEW rank, NEW w, Shape(t, S, rank, w), NEW n \in S
    PROVE  /\ IsFiniteSet(BlackAbove(t, S, w, n)) /\ Cardinality(BlackAbove(t, S, w, n)) \in Nat
           /\ n = t.root => Cardinality(BlackAbove(t, S, w, n)) = Blackness(t, n)
           /\ n # t.root => Cardinality(BlackAbove(t, S, w, n))
                            = Cardinality(BlackAbove(t, S, w, t.parent[n])) + Blackness(t, n)
<1>1. \A m : IsFiniteSet(BlackAbove(t, S, w, m))
  <2>1. IsFiniteSet(S)
    BY WeightType
  <2> QED
    BY <2>1, FS_Subset DEF BlackAbove, Upwards
<1>2. \A m : Cardinality(BlackAbove(t, S, w, m)) \in Nat
  BY <1>1, FS_CardinalityType
<1>3. ASSUME n = t.root PROVE Cardinality(BlackAbove(t, S, w, n)) = Blackness(t, n)
  <2>1. BlackAbove(t, S, w, n) = IF t.color[n] = "black" THEN {n} ELSE {}
    <3>1. Upwards(S, w, n) = {n}
      BY <1>3, UpwardsIs
    <3> QED
      BY <3>1 DEF BlackAbove
  <2>2. Cardinality({n}) = 1 /\ Cardinality({}) = 0
    BY FS_EmptySet, FS_Singleton
  <2> QED
    BY <2>1, <2>2 DEF Blackness
<1>4. ASSUME n # t.root, NEW p, t.parent[n] = p
      PROVE  Cardinality(BlackAbove(t, S, w, n)) = Cardinality(BlackAbove(t, S, w, p)) + Blackness(t, n)
  <2>1. Upwards(S, w, n) = Upwards(S, w, p) \cup {n} /\ n \notin Upwards(S, w, p)
    BY <1>4, UpwardsIs
  <2>2. n \notin BlackAbove(t, S, w, p)
    BY <2>1 DEF BlackAbove
  <2>3. CASE t.color[n] = "black"
    <3>1. BlackAbove(t, S, w, n) = BlackAbove(t, S, w, p) \cup {n}
      BY <2>1, <2>3 DEF BlackAbove
    <3>2. Cardinality(BlackAbove(t, S, w, p) \cup {n}) = Cardinality(BlackAbove(t, S, w, p)) + 1
      BY <1>1, <2>2, FS_AddElement
    <3> QED
      BY <2>3, <3>1, <3>2 DEF Blackness
  <2>4. CASE t.color[n] # "black"
    <3>1. BlackAbove(t, S, w, n) = BlackAbove(t, S, w, p)
      BY <2>1, <2>4 DEF BlackAbove
    <3> QED
      BY <1>2, <2>4, <3>1 DEF Blackness
  <2> QED
    BY <2>3, <2>4
<1> QED
  BY <1>1, <1>2, <1>3, <1>4

\* The black elements above an element and below it are those below the root.
LEMMA DepthIs ==
    ASSUME NEW t, NEW S, NEW rank, NEW w, Shape(t, S, rank, w), NEW B, Coloured(t, S, B), NEW n \in S
    PROVE  Cardinality(BlackAbove(t, S, w, n)) + B[t.link[n]["left"]] = B[t.root]
<1> DEFINE N(m) == Cardinality(BlackAbove(t, S, w, m))
           Holds(m) == N(m) + B[t.link[m]["left"]] = B[t.root]
           Q == {m \in S : ~Holds(m)}
           T == {Size - Weight(w, m) : m \in Q}
<1> SUFFICES ASSUME ~Holds(n) PROVE FALSE
  OBVIOUS
<1>1. T \in SUBSET Nat /\ T # {}
  <2>1. n \in Q
    OBVIOUS
  <2>2. \A b \in S : Size - Weight(w, b) \in Nat
    BY WeightType, SizeType
  <2> HIDE DEF Holds
  <2> QED
    BY <2>1, <2>2
<1>2. PICK k \in T : \A y \in T : k <= y
  BY <1>1, LeastNat, Zenon
<1>3. PICK m \in Q : Size - Weight(w, m) = k
  BY <1>2
<1>4. m \in S /\ ~Holds(m)
  BY <1>3
<1>5. /\ Level(t, B, m) /\ \A b \in S \cup {Null} : B[b] \in Nat
      /\ \A b \in S, d \in Sides : B[t.link[b][d]] \in Nat
  <2>1. S \cup {Null} \subseteq Links /\ B \in [Links -> Nat]
    BY DEF Shape, Links, Coloured, Depths
  <2> QED
    BY <1>4, <2>1 DEF Coloured, Shape
<1>6. B[m] = B[t.link[m]["left"]] + Blackness(t, m) /\ Blackness(t, m) \in Nat
  BY <1>5 DEF Level, Blackness
<1>7. B[m] \in Nat /\ B[t.link[m]["left"]] \in Nat
  BY <1>4, <1>5, OtherSide
<1>8. CASE m = t.root
  <2>1. N(m) = Blackness(t, m)
    BY <1>4, <1>8, BlackAboveIs
  <2> QED
    BY <1>4, <1>6, <1>7, <1>8, <2>1
<1>9. CASE m # t.root
  <2>1. PICK p \in S, d \in Sides : t.parent[m] = p /\ t.link[p][d] = m
    BY <1>4, <1>9, ChildOfParent
  <2>2. N(m) = N(p) + Blackness(t, m) /\ N(p) \in Nat
    BY <1>4, <1>9, <2>1, BlackAboveIs
  <2>3. Weight(w, m) < Weight(w, p)
    BY <2>1, ChildWeight
  <2>4. Weight(w, m) \in 0 .. Size /\ Weight(w, p) \in 0 .. Size /\ Size \in Nat
    BY <1>4, <2>1, WeightType, SizeType
  <2>5. Holds(p)
    <3> SUFFICES ASSUME ~Holds(p) PROVE FALSE
      OBVIOUS
    <3>1. p \in Q
      OBVIOUS
    <3>2. k <= Size - Weight(w, p)
      BY <1>2, <3>1
    <3> QED
      BY <1>3, <2>3, <2>4, <3>2
  <2>6. Level(t, B, p)
    BY DEF Coloured
  <2>7. B[m] = B[t.link[p]["left"]]
    BY <2>1, <2>6 DEF Level, Sides
  <2>8. N(p) + B[m] = B[t.root]
    BY <2>5, <2>7
  <2> HIDE DEF N
  <2> QED
    BY <1>4, <1>6, <1>7, <2>2, <2>8
<1> QED
  BY <1>8, <1>9

\* A tree of this shape and these colours is what RedBlack says.
LEMMA RedBlackIs ==
    ASSUME NEW t, NEW S, NEW rank, IsTree(t, S, rank)
    PROVE  RedBlack(t)
<1>1. PICK w, B : Shape(t, S, rank, w) /\ Coloured(t, S, B)
  BY DEF IsTree
<1>2. Linked(t) = S
  BY <1>1, LinkedIs
<1>3. ASSUME NEW n \in S, NEW d \in Sides, t.link[n][d] # Null
      PROVE  /\ t.parent[t.link[n][d]] = n
             /\ t.color[n] = "red" => t.color[t.link[n][d]] = "black"
  BY <1>1, <1>3 DEF Shape, Coloured, Black
<1>4. t.root # Null => t.parent[t.root] = Null /\ t.color[t.root] = "black"
  BY <1>1 DEF Shape, Coloured, Black
<1>5. ASSUME NEW n \in S, Null \in {t.link[n][d] : d \in Sides}
      PROVE  BlackDepth(t, n) = B[t.root]
  <2>1. BlackDepth(t, n) = Cardinality(BlackAbove(t, S, w, n))
    BY <1>1, AboveIs DEF BlackDepth, BlackAbove
  <2>2. Cardinality(BlackAbove(t, S, w, n)) + B[t.link[n]["left"]] = B[t.root]
    BY <1>1, DepthIs
  <2>3. Cardinality(BlackAbove(t, S, w, n)) \in Nat
    BY <1>1, BlackAboveIs
  <2>4. Level(t, B, n) /\ B[Null] = 0
    BY <1>1 DEF Coloured, Depths
  <2>5. B[t.link[n]["left"]] = 0
    BY <1>5, <2>4 DEF Level, Sides
  <2> QED
    BY <2>1, <2>2, <2>3, <2>5
<1> QED
  BY <1>2, <1>3, <1>4, <1>5 DEF RedBlack

\* ... and with ranks that order the keys, what SearchTree says.
LEMMA SearchTreeIs ==
    ASSUME NEW t, NEW S, NEW rank, IsTree(t, S, rank), NEW key \in [Nodes -> Addresses],
           Ranks(rank, key, S)
    PROVE  SearchTree(t, key, S)
<1>1. PICK w : Shape(t, S, rank, w)
  BY DEF IsTree
<1>2. Linked(t) = S
  BY <1>1, LinkedIs
<1>3. S \subseteq Nodes /\ Null \notin S
  BY <1>1, TreeAssumption DEF Shape
<1>4. ASSUME NEW n \in S PROVE Find(t, key, key[n]) = n
  <2>1. key[n] \in Addresses
    BY <1>3
  <2> QED
    BY <1>1, <2>1, FindIs
<1>5. ASSUME NEW n \in S, NEW m, NextOf(t, n) = m, m # Null PROVE Cmp(key[n], key[m]) < 0
  <2>1. IsNext(S, rank, n, m)
    BY <1>1, <1>5, NextIs
  <2>2. m \in S /\ rank[n] < rank[m]
    BY <1>5, <2>1 DEF IsNext
  <2> QED
    BY <2>2 DEF Ranks
<1> QED
  BY <1>2, <1>4, <1>5 DEF SearchTree

\* The tree of RB_INIT holds no element.
LEMMA EmptyTreeIs ==
    ASSUME NEW rank \in [Nodes -> Int]
    PROVE  IsTree(EmptyTree, {}, rank)
<1> DEFINE w == [n \in Links |-> {}]
           B == [n \in Links |-> 0]
<1>1. EmptyTree \in Trees /\ ~EmptyTree.fault /\ EmptyTree.root = Null
  BY DEF EmptyTree, Trees, Links, Colors
<1>2. w \in [Links -> SUBSET {}] /\ w[Null] = {} /\ B \in [Links -> Nat] /\ B[Null] = 0
  BY DEF Links
<1>3. Shape(EmptyTree, {}, rank, w)
  BY <1>1, <1>2 DEF Shape
<1>4. Coloured(EmptyTree, {}, B)
  BY <1>1, <1>2 DEF Coloured, Depths, Black
<1> QED
  BY <1>3, <1>4 DEF IsTree

\* Two rankings that order the elements alike rank the same trees.
LEMMA Rerank ==
    ASSUME NEW t, NEW S, NEW rank, IsTree(t, S, rank), NEW other \in [Nodes -> Int],
           \A m, n \in S : rank[m] < rank[n] <=> other[m] < other[n]
    PROVE  IsTree(t, S, other)
<1>1. PICK w, B : Shape(t, S, rank, w) /\ Coloured(t, S, B)
  BY DEF IsTree
<1>2. ASSUME NEW n \in S, NEW d \in Sides, NEW x \in w[t.link[n][d]] PROVE Before(other, d, x, n)
  <2>1. x \in S
    BY <1>1 DEF Shape, Links
  <2>2. Before(rank, d, x, n)
    BY <1>1 DEF Shape
  <2> QED
    BY <2>1, <2>2 DEF Before
<1>3. Shape(t, S, other, w)
  BY <1>1, <1>2 DEF Shape
<1> QED
  BY <1>1, <1>3 DEF IsTree

\* An entry that is not in the tree may be cleared.
LEMMA ZeroedTree ==
    ASSUME NEW t, NEW S, NEW rank, IsTree(t, S, rank), NEW e \in Nodes \ S
    PROVE  IsTree(Zeroed(t, e), S, rank)
<1>1. PICK w, B : Shape(t, S, rank, w) /\ Coloured(t, S, B)
  BY DEF IsTree
<1> DEFINE r == Zeroed(t, e)
<1>2. t \in Trees /\ S \subseteq Nodes /\ ~t.fault /\ Null \notin S
  BY <1>1, TreeAssumption DEF Shape
<1>3. /\ r \in Trees /\ r.root = t.root /\ r.fault = t.fault
      /\ \A n \in Nodes \ {e} : /\ r.parent[n] = t.parent[n] /\ r.color[n] = t.color[n]
                                /\ r.link[n] = t.link[n]
  BY <1>2 DEF Zeroed, Trees, Links, Colors
<1> HIDE DEF r
<1>4. \A n \in S : r.link[n] = t.link[n] /\ r.parent[n] = t.parent[n] /\ r.color[n] = t.color[n]
  BY <1>2, <1>3
<1>5. Shape(r, S, rank, w)
  BY <1>1, <1>2, <1>3, <1>4 DEF Shape
<1>6. \A m \in S \cup {Null} : Black(t, m) => Black(r, m)
  BY <1>4 DEF Black
<1>7. \A n \in S : Level(t, B, n) => Level(r, B, n)
  BY <1>4 DEF Level, Blackness
<1>8. /\ \A n \in S, s \in Sides : t.link[n][s] \in S \cup {Null}
      /\ t.root \in S \cup {Null}
  BY <1>1 DEF Shape
<1>9. Coloured(r, S, B)
  BY <1>1, <1>3, <1>4, <1>6, <1>7, <1>8 DEF Coloured
<1> QED
  BY <1>5, <1>9 DEF IsTree, r

-----------------------------------------------------------------------------
(* Trees with their keys.                                                  *)

\* The tree t holds the elements U in the order of their keys.
HasTree(t, key, U) == \E rank : Ranks(rank, key, U) /\ IsTree(t, U, rank)

\* Such a tree has not met NULL, its elements have different keys, and it is
\* red-black.
LEMMA HasTreeFacts ==
    ASSUME NEW t, NEW U, NEW key, HasTree(t, key, U)
    PROVE  /\ ~t.fault /\ t.root \in U \cup {Null} /\ U \subseteq Nodes
           /\ \A m, n \in U : key[m] = key[n] => m = n
           /\ RedBlack(t)
<1>1. PICK rank : Ranks(rank, key, U) /\ IsTree(t, U, rank)
  BY DEF HasTree
<1>2. ~t.fault /\ t.root \in U \cup {Null} /\ U \subseteq Nodes
  BY <1>1 DEF IsTree, Shape
<1>3. ASSUME NEW m \in U, NEW n \in U, key[m] = key[n] PROVE m = n
  <2>1. Cmp(key[m], key[m]) = 0
    BY <1>1 DEF Ranks
  <2>2. Cmp(key[m], key[n]) = 0
    BY <1>3, <2>1
  <2> QED
    BY <1>1, <2>2 DEF Ranks
<1>4. RedBlack(t)
  BY <1>1, RedBlackIs
<1> QED
  BY <1>2, <1>3, <1>4

\* RB_FIND, RB_NEXT and RB_FOREACH answer from the elements of such a tree.
LEMMA HasTreeSearch ==
    ASSUME NEW t, NEW U, NEW key \in [Nodes -> Addresses], HasTree(t, key, U)
    PROVE  /\ SearchTree(t, key, U)
           /\ \A k \in Addresses : /\ Find(t, key, k) \in U \cup {Null}
                                   /\ \A n \in U : Find(t, key, k) = n <=> key[n] = k
           /\ \A E : /\ FirstOf(t, E) \in U \cup {Null}
                     /\ FirstOf(t, E) # Null => FirstOf(t, E) \in E
                     /\ FirstOf(t, E) = Null => \A x \in U : x \notin E
<1>1. PICK rank : Ranks(rank, key, U) /\ IsTree(t, U, rank)
  BY DEF HasTree
<1>2. PICK w : Shape(t, U, rank, w)
  BY <1>1 DEF IsTree
<1>3. \A x, y \in U : rank[x] = rank[y] => x = y
  BY <1>1 DEF Ranks
<1>4. SearchTree(t, key, U)
  BY <1>1, SearchTreeIs
<1>5. \A k \in Addresses : /\ Find(t, key, k) \in U \cup {Null}
                           /\ \A n \in U : Find(t, key, k) = n <=> key[n] = k
  BY <1>1, <1>2, FindIs
<1>6. \A E : /\ FirstOf(t, E) \in U \cup {Null}
             /\ FirstOf(t, E) # Null => FirstOf(t, E) \in E
             /\ FirstOf(t, E) = Null => \A x \in U : x \notin E
  BY <1>2, <1>3, FirstIs
<1> QED
  BY <1>4, <1>5, <1>6

\* RB_INIT
LEMMA HasTreeEmpty ==
    ASSUME NEW key PROVE HasTree(EmptyTree, key, {})
<1> DEFINE rank == [n \in Nodes |-> 0]
<1>1. rank \in [Nodes -> Int]
  OBVIOUS
<1> HIDE DEF rank
<1>2. IsTree(EmptyTree, {}, rank) /\ Ranks(rank, key, {})
  BY <1>1, EmptyTreeIs DEF Ranks
<1> QED
  BY <1>2 DEF HasTree

\* Only the keys of the elements matter.
LEMMA HasTreeKeys ==
    ASSUME NEW t, NEW U, NEW key, HasTree(t, key, U), NEW new, \A n \in U : new[n] = key[n]
    PROVE  HasTree(t, new, U)
<1>1. PICK rank : Ranks(rank, key, U) /\ IsTree(t, U, rank)
  BY DEF HasTree
<1>2. Ranks(rank, new, U)
  BY <1>1 DEF Ranks
<1> QED
  BY <1>1, <1>2 DEF HasTree

\* RB_REMOVE of an element of the tree.
LEMMA HasTreeRemove ==
    ASSUME NEW t, NEW U, NEW key, HasTree(t, key, U), NEW e \in U
    PROVE  HasTree(Remove(t, e), key, U \ {e})
<1>1. PICK rank : Ranks(rank, key, U) /\ IsTree(t, U, rank)
  BY DEF HasTree
<1>2. \A x, y \in U : rank[x] = rank[y] => x = y
  BY <1>1 DEF Ranks
<1>3. IsTree(Remove(t, e), U \ {e}, rank)
  BY <1>1, <1>2, RemoveIs
<1>4. Ranks(rank, key, U \ {e})
  BY <1>1 DEF Ranks
<1> QED
  BY <1>3, <1>4 DEF HasTree

\* The memset of an entry that is not in the tree.
LEMMA HasTreeZeroed ==
    ASSUME NEW t, NEW U, NEW key, HasTree(t, key, U), NEW e \in Nodes \ U
    PROVE  HasTree(Zeroed(t, e), key, U)
  BY ZeroedTree DEF HasTree

\* RB_INSERT of an entry whose key the order of the table admits.
LEMMA HasTreeInsert ==
    ASSUME NEW t, NEW U, NEW key \in [Nodes -> Addresses], HasTree(t, key, U), NEW e \in Nodes \ U,
           Ordered({key[n] : n \in U \cup {e}}), \A m, n \in U \cup {e} : key[m] = key[n] => m = n
    PROVE  HasTree(Insert(t, key, e), key, U \cup {e})
<1>1. PICK rank : Ranks(rank, key, U) /\ IsTree(t, U, rank)
  BY DEF HasTree
<1>2. U \cup {e} \in SUBSET Nodes
  BY HasTreeFacts
<1>3. PICK other : Ranks(other, key, U \cup {e})
  BY <1>2, RanksExist
<1>4. \A m, n \in U : rank[m] < rank[n] <=> other[m] < other[n]
  BY <1>1, <1>3 DEF Ranks
<1>5. other \in [Nodes -> Int]
  BY <1>3 DEF Ranks
<1>6. IsTree(t, U, other)
  BY <1>1, <1>4, <1>5, Rerank
<1>7. IsTree(Insert(t, key, e), U \cup {e}, other)
  BY <1>3, <1>6, InsertIs
<1> QED
  BY <1>3, <1>7 DEF HasTree

-----------------------------------------------------------------------------
(* The free list.                                                          *)

\* No entry is twice on the free list.
Distinct(f) == f \in Seq(Nodes) /\ \A i, j \in 1 .. Len(f) : f[i] = f[j] => i = j
UsedOf(f)   == Nodes \ {f[i] : i \in DOMAIN f}

\* The free list is no longer than the array, and of that length in the beginning.
LEMMA FreeBound ==
    ASSUME NEW f, Distinct(f)
    PROVE  Len(f) \in Nat /\ Len(f) <= Size /\ (Len(f) = Size => UsedOf(f) = {})
<1>1. Len(f) \in Nat /\ f \in [1 .. Len(f) -> Nodes]
  BY LenProperties DEF Distinct
<1>2. f \in Injection(1 .. Len(f), Nodes)
  BY <1>1, Fun_IsInj DEF Distinct
<1>3. Cardinality(1 .. Len(f)) = Len(f)
  BY <1>1, FS_Interval
<1>4. /\ Cardinality(1 .. Len(f)) <= Size
      /\ Cardinality(1 .. Len(f)) = Size <=> f \in Surjection(1 .. Len(f), Nodes)
  BY <1>2, TreeAssumption, FS_Injection DEF Size
<1>5. f \in Surjection(1 .. Len(f), Nodes) => \A n \in Nodes : \E i \in 1 .. Len(f) : f[i] = n
  BY Fun_SurjectionProperties
<1>6. ASSUME Len(f) = Size PROVE UsedOf(f) = {}
  BY <1>1, <1>3, <1>4, <1>5, <1>6 DEF UsedOf
<1> QED
  BY <1>1, <1>3, <1>4, <1>6

\* ip_route_entry_alloc takes an entry that is not in use.
LEMMA FreeTake ==
    ASSUME NEW f, Distinct(f), f # <<>>
    PROVE  /\ Head(f) \in Nodes /\ Head(f) \notin UsedOf(f) /\ Distinct(Tail(f))
           /\ UsedOf(Tail(f)) = UsedOf(f) \cup {Head(f)}
<1> DEFINE g == Tail(f)
<1>1. f \in Seq(Nodes) /\ Len(f) \in Nat /\ Len(f) >= 1 /\ DOMAIN f = 1 .. Len(f) /\ Head(f) = f[1]
      /\ \A i \in 1 .. Len(f) : f[i] \in Nodes
  BY EmptySeq, LenProperties DEF Distinct
<1>2. /\ g \in Seq(Nodes) /\ Len(g) = Len(f) - 1 /\ DOMAIN g = 1 .. Len(g)
      /\ \A i \in 1 .. Len(g) : g[i] = f[i + 1]
  BY <1>1, HeadTailProperties, LenProperties
<1> HIDE DEF g
<1>3. \A i, j \in 1 .. Len(f) : f[i] = f[j] => i = j
  BY DEF Distinct
<1>4. Distinct(g)
  BY <1>1, <1>2, <1>3 DEF Distinct
<1>5. \A n : (\E i \in 1 .. Len(f) : f[i] = n) <=> n = f[1] \/ (\E i \in 1 .. Len(g) : g[i] = n)
  <2>1. ASSUME NEW i \in 1 .. Len(f) PROVE i = 1 \/ (i - 1 \in 1 .. Len(g) /\ g[i - 1] = f[i])
    BY <1>1, <1>2
  <2>2. ASSUME NEW i \in 1 .. Len(g) PROVE i + 1 \in 1 .. Len(f) /\ f[i + 1] = g[i] /\ g[i] # f[1]
    BY <1>1, <1>2, <1>3
  <2> QED
    BY <1>1, <2>1, <2>2
<1>6. \A i \in 1 .. Len(g) : g[i] # f[1]
  BY <1>1, <1>2, <1>3
<1>7. UsedOf(g) = UsedOf(f) \cup {f[1]} /\ f[1] \notin UsedOf(f) /\ f[1] \in Nodes
  <2>1. /\ \A n : n \in UsedOf(g) <=> n \in Nodes /\ ~\E i \in 1 .. Len(g) : g[i] = n
        /\ \A n : n \in UsedOf(f) <=> n \in Nodes /\ ~\E i \in 1 .. Len(f) : f[i] = n
    BY <1>1, <1>2 DEF UsedOf
  <2>2. \A n : n \in UsedOf(g) <=> n \in UsedOf(f) \cup {f[1]}
    BY <1>1, <1>5, <1>6, <2>1
  <2>3. UsedOf(g) = UsedOf(f) \cup {f[1]}
    BY <2>2
  <2> QED
    BY <1>1, <2>1, <2>3
<1> QED
  BY <1>1, <1>4, <1>7 DEF g

\* ip_route_entry_free gives back one entry.
LEMMA FreePut ==
    ASSUME NEW f, Distinct(f), NEW e \in UsedOf(f)
    PROVE  Distinct(<<e>> \o f) /\ UsedOf(<<e>> \o f) = UsedOf(f) \ {e}
<1> DEFINE g == <<e>> \o f
<1>1. f \in Seq(Nodes) /\ Len(f) \in Nat /\ DOMAIN f = 1 .. Len(f) /\ e \in Nodes
      /\ \A i \in 1 .. Len(f) : f[i] # e /\ f[i] \in Nodes
  BY LenProperties DEF Distinct, UsedOf
<1>2. /\ g \in Seq(Nodes) /\ Len(g) = Len(f) + 1 /\ DOMAIN g = 1 .. Len(g)
      /\ \A i \in 1 .. Len(g) : g[i] = IF i = 1 THEN e ELSE f[i - 1]
  <2>1. <<e>> \in Seq(Nodes) /\ Len(<<e>>) = 1 /\ <<e>>[1] = e
    BY <1>1
  <2>2. /\ g \in Seq(Nodes) /\ Len(g) = 1 + Len(f)
        /\ \A i \in 1 .. 1 + Len(f) : g[i] = IF i <= 1 THEN <<e>>[i] ELSE f[i - 1]
    BY <1>1, <2>1, ConcatProperties
  <2> HIDE DEF g
  <2>3. DOMAIN g = 1 .. Len(g)
    BY <2>2, LenProperties
  <2> QED
    BY <1>1, <2>1, <2>2, <2>3
<1> HIDE DEF g
<1>3. \A i, j \in 1 .. Len(f) : f[i] = f[j] => i = j
  BY DEF Distinct
<1>4. Distinct(g)
  <2>1. ASSUME NEW i \in 1 .. Len(g), NEW j \in 1 .. Len(g), g[i] = g[j] PROVE i = j
    <3>1. i # 1 => i - 1 \in 1 .. Len(f)
      BY <1>1, <1>2
    <3>2. j # 1 => j - 1 \in 1 .. Len(f)
      BY <1>1, <1>2
    <3> QED
      BY <1>1, <1>2, <1>3, <2>1, <3>1, <3>2
  <2> QED
    BY <1>2, <2>1 DEF Distinct
<1>5. \A n : (\E i \in 1 .. Len(g) : g[i] = n) <=> n = e \/ (\E i \in 1 .. Len(f) : f[i] = n)
  <2>1. ASSUME NEW i \in 1 .. Len(g) PROVE g[i] = e \/ (i - 1 \in 1 .. Len(f) /\ g[i] = f[i - 1])
    BY <1>1, <1>2
  <2>2. ASSUME NEW i \in 1 .. Len(f) PROVE i + 1 \in 1 .. Len(g) /\ g[i + 1] = f[i]
    BY <1>1, <1>2
  <2>3. 1 \in 1 .. Len(g) /\ g[1] = e
    BY <1>1, <1>2
  <2> QED
    BY <2>1, <2>2, <2>3
<1>6. UsedOf(g) = UsedOf(f) \ {e}
  <2>1. /\ \A n : n \in UsedOf(g) <=> n \in Nodes /\ ~\E i \in 1 .. Len(g) : g[i] = n
        /\ \A n : n \in UsedOf(f) <=> n \in Nodes /\ ~\E i \in 1 .. Len(f) : f[i] = n
    BY <1>1, <1>2 DEF UsedOf
  <2>2. \A n : n \in UsedOf(g) <=> n \in UsedOf(f) \ {e}
    BY <1>5, <2>1
  <2> QED
    BY <2>2
<1> QED
  BY <1>4, <1>6 DEF g

-----------------------------------------------------------------------------
(* The routing table.                                                      *)

\* The entries that are not free hold the table, each a route of its own, and
\* both trees hold these entries.
RouteInv ==
    /\ rib \in [Nodes -> Routes \cup {NoRoute}] /\ table \subseteq Routes /\ crashed \in BOOLEAN
    /\ Distinct(freelist)
    /\ HasTree(rtree, NetworkKey(rib), Used) /\ HasTree(stree, IfaceKey(rib), Used)
    /\ ~crashed => table = {rib[e] : e \in Used}
    /\ crashed => Cardinality(table) > Size

Ribs == [Nodes -> Routes \cup {NoRoute}]

\* The entries V of r have different networks, and hold the routes T.
OwnNetworks(r, V) == \A m, n \in V : r[m].network = r[n].network => m = n
Holds(r, V, T)    == T = {r[n] : n \in V}

\* The keys of the entries are addresses.
LEMMA RouteKeys ==
    ASSUME NEW r \in Ribs
    PROVE  /\ NetworkKey(r) \in [Nodes -> Addresses] /\ IfaceKey(r) \in [Nodes -> Addresses]
           /\ \A e \in Nodes : NetworkKey(r)[e] = r[e].network /\ IfaceKey(r)[e] = r[e].iface
<1>1. 0 \in Addresses
  BY TreeAssumption DEF Addresses
<1>2. \A s \in Routes \cup {NoRoute} : s.network \in Addresses /\ s.iface \in Addresses
  BY <1>1, RouteAssumption DEF NoRoute
<1> QED
  BY <1>2 DEF Ribs, NetworkKey, IfaceKey

\* ip_route_tree_insert
LEMMA TreeInsertIs ==
    ASSUME NEW r \in Ribs, NEW U, NEW e \in Nodes \ U, NEW trees, NEW new,
           HasTree(trees.r, NetworkKey(r), U), HasTree(trees.s, IfaceKey(r), U),
           Admissible(new), Holds(r, U \cup {e}, new), OwnNetworks(r, U \cup {e}),
           NEW done, TreeInsert(trees, r, e) = done
    PROVE  /\ HasTree(done.r, NetworkKey(r), U \cup {e})
           /\ HasTree(done.s, IfaceKey(r), U \cup {e})
<1> DEFINE V == U \cup {e}
           k == NetworkKey(r)
           l == IfaceKey(r)
<1>0. done.r = Insert(trees.r, k, e) /\ done.s = Insert(trees.s, l, e)
  BY DEF TreeInsert
<1>a. new = {r[n] : n \in V} /\ \A m, n \in V : r[m].network = r[n].network => m = n
  BY DEF Holds, OwnNetworks
<1>1. /\ k \in [Nodes -> Addresses] /\ l \in [Nodes -> Addresses]
      /\ \A n \in Nodes : k[n] = r[n].network /\ l[n] = r[n].iface
  BY RouteKeys
<1>2. V \subseteq Nodes
  BY HasTreeFacts
<1>3. {k[n] : n \in V} = {s.network : s \in new} /\ {l[n] : n \in V} = {s.iface : s \in new}
  BY <1>a, <1>1, <1>2
<1>4. Ordered({k[n] : n \in V}) /\ Ordered({l[n] : n \in V})
  BY <1>3 DEF Admissible
<1>5. \A m, n \in V : k[m] = k[n] => m = n
  BY <1>a, <1>1, <1>2
<1>6. ASSUME NEW m \in V, NEW n \in V, l[m] = l[n] PROVE m = n
  <2>1. r[m] \in new /\ r[n] \in new /\ r[m].iface = r[n].iface
    BY <1>a, <1>1, <1>2, <1>6
  <2>2. r[m] = r[n]
    BY <2>1 DEF Admissible
  <2> QED
    BY <1>a, <2>2
<1>7. HasTree(trees.r, k, U) /\ HasTree(trees.s, l, U)
  OBVIOUS
<1> HIDE DEF k, l
<1>8. HasTree(Insert(trees.r, k, e), k, V)
  BY <1>1, <1>4, <1>5, <1>7, HasTreeInsert
<1>9. HasTree(Insert(trees.s, l, e), l, V)
  BY <1>1, <1>4, <1>6, <1>7, HasTreeInsert
<1> QED
  BY <1>0, <1>8, <1>9 DEF k, l

\* The changed entry is not in U.
LEMMA OtherEntries ==
    ASSUME NEW r \in Ribs, NEW e \in Nodes, NEW route \in Routes \cup {NoRoute}, NEW q, [r EXCEPT ![e] = route] = q,
           NEW U, e \notin U, NEW t, NEW u,
           HasTree(t, NetworkKey(r), U), HasTree(u, IfaceKey(r), U)
    PROVE  /\ q \in Ribs /\ q[e] = route /\ \A n \in U : n \in Nodes /\ q[n] = r[n]
           /\ HasTree(t, NetworkKey(q), U) /\ HasTree(u, IfaceKey(q), U)
<1>1. q \in Ribs /\ q[e] = route /\ \A n \in Nodes : n # e => q[n] = r[n]
  BY DEF Ribs
<1>2. U \subseteq Nodes
  BY HasTreeFacts
<1>3. \A n \in U : NetworkKey(q)[n] = NetworkKey(r)[n] /\ IfaceKey(q)[n] = IfaceKey(r)[n]
  BY <1>1, <1>2, RouteKeys
<1> QED
  BY <1>1, <1>2, <1>3, HasTreeKeys

\* The entries and the routes of the table correspond.
LEMMA RoutesAreEntries ==
    ASSUME NEW r \in Ribs, NEW t, NEW U, HasTree(t, NetworkKey(r), U), NEW T, T = {r[e] : e \in U}
    PROVE  IsFiniteSet(T) /\ Cardinality(T) = Cardinality(U)
<1>1. U \subseteq Nodes /\ \A m, n \in U : NetworkKey(r)[m] = NetworkKey(r)[n] => m = n
  BY HasTreeFacts
<1>2. \A m, n \in U : r[m] = r[n] => m = n
  BY <1>1, RouteKeys
<1> DEFINE f == [e \in U |-> r[e]]
<1>3. f \in [U -> T] /\ (\A a, b \in U : f[a] = f[b] => a = b) /\ (\A x \in T : \E e \in U : f[e] = x)
  BY <1>2
<1>4. f \in Bijection(U, T)
  BY <1>3, Fun_IsBij
<1>5. IsFiniteSet(U)
  BY <1>1, TreeAssumption, FS_Subset
<1> QED
  BY <1>4, <1>5, FS_Bijection DEF ExistsBijection

\* ip_route_init establishes the invariant.
LEMMA RouteInit == Init => RouteInv
<1> SUFFICES ASSUME Init PROVE RouteInv
  OBVIOUS
<1>1. rib \in [Nodes -> Routes \cup {NoRoute}] /\ table = {} /\ crashed = FALSE /\ rtree = EmptyTree /\ stree = EmptyTree
  BY DEF Init
<1>2. Distinct(freelist) /\ Len(freelist) = Size
  <2>1. freelist \in [1 .. Size -> Nodes] /\ \A i, j \in 1 .. Size : freelist[i] = freelist[j] => i = j
    BY DEF Init
  <2>2. freelist \in Seq(Nodes) /\ Len(freelist) = Size
    BY <2>1, SizeType
  <2> QED
    BY <2>1, <2>2 DEF Distinct
<1>3. Used = {}
  BY <1>2, FreeBound DEF Used, UsedOf
<1>4. HasTree(rtree, NetworkKey(rib), Used) /\ HasTree(stree, IfaceKey(rib), Used)
  BY <1>1, <1>3, HasTreeEmpty
<1> QED
  BY <1>1, <1>2, <1>3, <1>4 DEF RouteInv

\* What the search in ip_route_update and ip_route_remove finds.
LEMMA FoundIs ==
    ASSUME RouteInv, ~crashed, NEW route \in Routes,
           NEW e, Find(rtree, NetworkKey(rib), route.network) = e
    PROVE  /\ rib \in Ribs /\ Used \subseteq Nodes /\ Null \notin Used
           /\ e \in Used \cup {Null}
           /\ \A n \in Used : e = n <=> rib[n].network = route.network
           /\ \A m, n \in Used : rib[m].network = rib[n].network => m = n
           /\ table = {rib[n] : n \in Used}
<1>1. /\ rib \in Ribs /\ table = {rib[n] : n \in Used} /\ HasTree(rtree, NetworkKey(rib), Used)
  BY DEF RouteInv, Ribs
<1>2. NetworkKey(rib) \in [Nodes -> Addresses] /\ \A n \in Nodes : NetworkKey(rib)[n] = rib[n].network
  BY <1>1, RouteKeys
<1>3. route.network \in Addresses
  BY RouteAssumption
<1>4. e \in Used \cup {Null} /\ \A n \in Used : e = n <=> NetworkKey(rib)[n] = route.network
  BY <1>1, <1>2, <1>3, HasTreeSearch
<1>5. Used \subseteq Nodes /\ \A m, n \in Used : NetworkKey(rib)[m] = NetworkKey(rib)[n] => m = n
  BY <1>1, HasTreeFacts
<1> QED
  BY <1>1, <1>2, <1>4, <1>5, TreeAssumption

\* ip_route_remove
LEMMA RouteRemoveInv ==
    ASSUME RouteInv, NEW route \in Routes, RouteRemove(route.network)
    PROVE  RouteInv'
<1> DEFINE e == Find(rtree, NetworkKey(rib), route.network)
           trees == TreeRemove(e)
           U == Used \ {e}
<1>0. /\ ~crashed /\ e # Null /\ rib' = [rib EXCEPT ![e] = NoRoute]
      /\ rtree' = Zeroed(Remove(rtree, e), e) /\ stree' = Zeroed(Remove(stree, e), e)
      /\ crashed' = (rtree'.fault \/ stree'.fault)
      /\ freelist' = <<e>> \o freelist
      /\ table' = {s \in table : s.network # route.network}
  BY DEF RouteRemove, SetTrees, RouteEntryFree, TreeRemove
<1>1. Find(rtree, NetworkKey(rib), route.network) = e /\ Used \ {e} = U
  OBVIOUS
<1> HIDE DEF e, U
<1>2. /\ rib \in Ribs /\ Used \subseteq Nodes /\ Null \notin Used /\ e \in Used
      /\ \A n \in Used : e = n <=> rib[n].network = route.network
      /\ table = {rib[n] : n \in Used}
  BY <1>0, <1>1, FoundIs
<1>3. /\ HasTree(rtree, NetworkKey(rib), Used) /\ HasTree(stree, IfaceKey(rib), Used)
      /\ Distinct(freelist) /\ table \subseteq Routes
  BY DEF RouteInv
<1>4. HasTree(Remove(rtree, e), NetworkKey(rib), U) /\ HasTree(Remove(stree, e), IfaceKey(rib), U)
  BY <1>1, <1>2, <1>3, HasTreeRemove
<1>5. e \in Nodes \ U
  BY <1>1, <1>2
<1>6. HasTree(rtree', NetworkKey(rib), U) /\ HasTree(stree', IfaceKey(rib), U)
  BY <1>0, <1>4, <1>5, HasTreeZeroed
<1>7. /\ rib' \in Ribs /\ \A n \in U : n \in Nodes /\ rib'[n] = rib[n]
      /\ HasTree(rtree', NetworkKey(rib'), U) /\ HasTree(stree', IfaceKey(rib'), U)
  <2>1. [rib EXCEPT ![e] = NoRoute] = rib' /\ NoRoute \in Routes \cup {NoRoute} /\ e \in Nodes /\ e \notin U
    BY <1>0, <1>5
  <2> QED
    BY <1>2, <1>6, <2>1, OtherEntries
<1>8. Distinct(freelist') /\ Used' = U
  <2>1. Used = UsedOf(freelist) /\ Used' = UsedOf(freelist')
    BY DEF Used, UsedOf
  <2>2. Distinct(<<e>> \o freelist) /\ UsedOf(<<e>> \o freelist) = UsedOf(freelist) \ {e}
    BY <1>2, <1>3, <2>1, FreePut
  <2> QED
    BY <1>0, <1>1, <2>1, <2>2
<1>9. crashed' = FALSE
  BY <1>0, <1>7, HasTreeFacts
<1>10. table' = {rib'[n] : n \in U} /\ table' \subseteq Routes
  BY <1>0, <1>1, <1>2, <1>3, <1>7
<1>11. NetworkKey(rib)' = NetworkKey(rib') /\ IfaceKey(rib)' = IfaceKey(rib')
  BY DEF NetworkKey, IfaceKey
<1> QED
  BY <1>7, <1>8, <1>9, <1>10, <1>11 DEF RouteInv, Ribs

\* ip_route_remove without an entry
LEMMA RouteRemoveNoEntryInv ==
    ASSUME RouteInv, NEW route \in Routes, RouteRemoveNoEntry(route.network)
    PROVE  RouteInv'
<1>0. /\ ~crashed /\ Find(rtree, NetworkKey(rib), route.network) = Null
      /\ rib' = rib /\ rtree' = rtree /\ stree' = stree /\ freelist' = freelist /\ crashed' = crashed
      /\ table' = {s \in table : s.network # route.network}
  BY DEF RouteRemoveNoEntry
<1>1. /\ Null \notin Used /\ table = {rib[n] : n \in Used}
      /\ \A n \in Used : Null = n <=> rib[n].network = route.network
  BY <1>0, FoundIs
<1>2. table' = table
  BY <1>0, <1>1
<1> QED
  BY <1>0, <1>2 DEF RouteInv, Used, NetworkKey, IfaceKey

\* ip_route_add, for a network that the table does not have
LEMMA RouteAddInv ==
    ASSUME RouteInv, ~crashed, NEW route \in Routes, NEW new, Admissible(new), table' = new,
           new = table \cup {route}, \A s \in table : s.network # route.network,
           RouteAdd(route)
    PROVE  RouteInv'
<1>1. /\ HasTree(rtree, NetworkKey(rib), Used) /\ HasTree(stree, IfaceKey(rib), Used)
      /\ Distinct(freelist) /\ table \subseteq Routes /\ rib \in Ribs /\ table = {rib[n] : n \in Used}
  BY DEF RouteInv, Ribs
<1>2. table' \subseteq Routes
  BY <1>1
<1>3. CASE freelist = <<>>
  <2>1. crashed' = TRUE /\ rib' = rib /\ rtree' = rtree /\ stree' = stree /\ freelist' = freelist
    BY <1>3 DEF RouteAdd
  <2>2. Used = Nodes
    BY <1>3 DEF Used
  <2>3. IsFiniteSet(table) /\ Cardinality(table) = Size
    BY <1>1, <2>2, RoutesAreEntries DEF Size
  <2>4. route \notin table
    OBVIOUS
  <2>5. Cardinality(table') = Size + 1
    BY <2>3, <2>4, FS_AddElement
  <2>6. Cardinality(table') > Size
    BY <2>5, SizeType
  <2> QED
    BY <1>1, <1>2, <2>1, <2>6 DEF RouteInv, Used, NetworkKey, IfaceKey, Ribs
<1>4. CASE freelist # <<>>
  <2> DEFINE e == Head(freelist)
             q == [rib EXCEPT ![e] = route]
             trees == [r |-> rtree, s |-> stree]
             done == TreeInsert(trees, q, e)
  <2>1. /\ rib' = q /\ freelist' = Tail(freelist) /\ rtree' = done.r /\ stree' = done.s
        /\ crashed' = (done.r.fault \/ done.s.fault)
    BY <1>4 DEF RouteAdd, SetTrees
  <2>2. [rib EXCEPT ![e] = route] = q /\ TreeInsert(trees, q, e) = done /\ Head(freelist) = e
    OBVIOUS
  <2>3. trees.r = rtree /\ trees.s = stree
    OBVIOUS
  <2> HIDE DEF e, q, trees, done
  <2>4. e \in Nodes /\ e \notin Used /\ Distinct(freelist') /\ Used' = Used \cup {e}
    <3>1. Used = UsedOf(freelist) /\ Used' = UsedOf(freelist')
      BY DEF Used, UsedOf
    <3> QED
      BY <1>1, <1>4, <2>1, <2>2, <3>1, FreeTake
  <2>5. /\ q \in Ribs /\ q[e] = route /\ \A n \in Used : n \in Nodes /\ q[n] = rib[n]
        /\ HasTree(rtree, NetworkKey(q), Used) /\ HasTree(stree, IfaceKey(q), Used)
    BY <1>1, <2>2, <2>4, OtherEntries
  <2>6. \A m, n \in Used : rib[m].network = rib[n].network => m = n
    BY <1>1, HasTreeFacts, RouteKeys
  <2>7. OwnNetworks(q, Used \cup {e})
    BY <1>1, <2>5, <2>6 DEF OwnNetworks
  <2>8. Holds(q, Used \cup {e}, new)
    BY <1>1, <2>5 DEF Holds
  <2>9. HasTree(done.r, NetworkKey(q), Used \cup {e}) /\ HasTree(done.s, IfaceKey(q), Used \cup {e})
    BY <2>2, <2>3, <2>4, <2>5, <2>7, <2>8, TreeInsertIs
  <2>10. crashed' = FALSE
    BY <2>1, <2>9, HasTreeFacts
  <2>11. NetworkKey(rib)' = NetworkKey(q) /\ IfaceKey(rib)' = IfaceKey(q)
    BY <2>1 DEF NetworkKey, IfaceKey
  <2> QED
    BY <1>2, <2>1, <2>4, <2>5, <2>8, <2>9, <2>10, <2>11 DEF RouteInv, Ribs, Holds
<1> QED
  BY <1>3, <1>4

\* ip_route_update
LEMMA RouteUpdateInv ==
    ASSUME RouteInv, NEW route \in Routes, RouteUpdate(route)
    PROVE  RouteInv'
<1> DEFINE e == Find(rtree, NetworkKey(rib), route.network)
           q == [rib EXCEPT ![e] = route]
           new == {s \in table : s.network # route.network} \cup {route}
           trees == TreeRemove(e)
           done == TreeInsert(trees, q, e)
           U == Used \ {e}
<1>0. ~crashed /\ Admissible(new) /\ table' = new
  BY DEF RouteUpdate
<1>1. e = Null => RouteAdd(route)
  BY DEF RouteUpdate
<1>2. e # Null => /\ rib' = q /\ freelist' = freelist /\ rtree' = done.r /\ stree' = done.s
                  /\ crashed' = (done.r.fault \/ done.s.fault)
  BY DEF RouteUpdate, SetTrees
<1>3. /\ Find(rtree, NetworkKey(rib), route.network) = e /\ [rib EXCEPT ![e] = route] = q
      /\ TreeInsert(trees, q, e) = done /\ Used \ {e} = U
      /\ trees.r = Remove(rtree, e) /\ trees.s = Remove(stree, e)
  BY DEF TreeRemove
<1>4. new = {s \in table : s.network # route.network} \cup {route}
  OBVIOUS
<1> HIDE DEF e, q, new, trees, done, U
<1>5. /\ rib \in Ribs /\ Used \subseteq Nodes /\ Null \notin Used /\ e \in Used \cup {Null}
      /\ \A n \in Used : e = n <=> rib[n].network = route.network
      /\ \A m, n \in Used : rib[m].network = rib[n].network => m = n
      /\ table = {rib[n] : n \in Used}
  BY <1>0, <1>3, FoundIs
<1>6. /\ HasTree(rtree, NetworkKey(rib), Used) /\ HasTree(stree, IfaceKey(rib), Used)
      /\ Distinct(freelist) /\ table \subseteq Routes
  BY DEF RouteInv
<1>7. CASE e = Null
  <2>1. \A s \in table : s.network # route.network
    BY <1>5, <1>7
  <2>2. new = table \cup {route}
    BY <1>4, <2>1
  <2> QED
    BY <1>0, <1>1, <1>7, <2>1, <2>2, RouteAddInv
<1>8. CASE e # Null
  <2>1. e \in Used /\ e \in Nodes /\ e \in Nodes \ U /\ e \notin U /\ U \cup {e} = Used
    BY <1>3, <1>5, <1>8
  <2>2. HasTree(trees.r, NetworkKey(rib), U) /\ HasTree(trees.s, IfaceKey(rib), U)
    BY <1>3, <1>6, <2>1, HasTreeRemove
  <2>3. /\ q \in Ribs /\ q[e] = route /\ \A n \in U : n \in Nodes /\ q[n] = rib[n]
        /\ HasTree(trees.r, NetworkKey(q), U) /\ HasTree(trees.s, IfaceKey(q), U)
    BY <1>3, <1>5, <2>1, <2>2, OtherEntries
  <2>4. \A n \in U : n \in Used /\ n # e
    BY <1>3
  <2>5. OwnNetworks(q, U \cup {e})
    BY <1>5, <2>3, <2>4 DEF OwnNetworks
  <2>6. Holds(q, U \cup {e}, new)
    <3>1. \A s : s \in new <=> s = route \/ \E n \in Used : s = rib[n] /\ rib[n].network # route.network
      BY <1>4, <1>5
    <3>2. \A n \in Used : rib[n].network # route.network <=> n \in U
      BY <1>3, <1>5
    <3>3. \A s : s \in new <=> s = q[e] \/ \E n \in U : s = q[n]
      BY <2>3, <2>4, <3>1, <3>2
    <3> QED
      BY <3>3 DEF Holds
  <2>7. HasTree(done.r, NetworkKey(q), U \cup {e}) /\ HasTree(done.s, IfaceKey(q), U \cup {e})
    BY <1>0, <1>3, <2>1, <2>3, <2>5, <2>6, TreeInsertIs
  <2>8. crashed' = FALSE
    BY <1>2, <1>8, <2>7, HasTreeFacts
  <2>9. NetworkKey(rib)' = NetworkKey(q) /\ IfaceKey(rib)' = IfaceKey(q) /\ Used' = Used
    BY <1>2, <1>8 DEF NetworkKey, IfaceKey, Used
  <2>10. table' = {rib'[n] : n \in Used'} /\ table' \subseteq Routes
    BY <1>0, <1>2, <1>4, <1>6, <1>8, <2>1, <2>6, <2>9 DEF Holds
  <2> QED
    BY <1>2, <1>6, <1>8, <2>1, <2>3, <2>7, <2>8, <2>9, <2>10 DEF RouteInv, Ribs
<1> QED
  BY <1>7, <1>8

\* ip_route_init establishes and ip_route_update and ip_route_remove keep the
\* invariant: both trees of the table are well-formed search trees of exactly
\* the entries that are not on the free list.
THEOREM RouteInvariant == Spec => []RouteInv
<1>1. Init => RouteInv
  BY RouteInit
<1>2. RouteInv /\ [Next]_vars => RouteInv'
  <2> SUFFICES ASSUME RouteInv, [Next]_vars PROVE RouteInv'
    OBVIOUS
  <2>1. ASSUME NEW route \in Routes, RouteUpdate(route) PROVE RouteInv'
    BY <2>1, RouteUpdateInv
  <2>2. ASSUME NEW route \in Routes, RouteRemove(route.network) PROVE RouteInv'
    BY <2>2, RouteRemoveInv
  <2>3. ASSUME NEW route \in Routes, RouteRemoveNoEntry(route.network) PROVE RouteInv'
    BY <2>3, RouteRemoveNoEntryInv
  <2>4. CASE UNCHANGED vars
    BY <2>4 DEF RouteInv, vars, Used, NetworkKey, IfaceKey
  <2> QED
    BY <2>1, <2>2, <2>3, <2>4 DEF Next
<1> QED
  BY <1>1, <1>2, PTL DEF Spec

\* The variables keep their types; the free list is never longer than the array
\* that ip_route_init links into it.
THEOREM RouteTypes == Spec => []TypeOK
<1>1. RouteInv => TypeOK
  <2> SUFFICES ASSUME RouteInv PROVE TypeOK
    OBVIOUS
  <2>1. rtree.root \in Used \cup {Null} /\ stree.root \in Used \cup {Null} /\ Used \subseteq Nodes
    BY HasTreeFacts DEF RouteInv
  <2>2. freelist \in Seq(Nodes) /\ Len(freelist) <= Size
    BY FreeBound DEF RouteInv, Distinct
  <2> QED
    BY <2>1, <2>2 DEF RouteInv, TypeOK
<1> QED
  BY <1>1, RouteInvariant, PTL

\* ip_route_tree_insert and ip_route_tree_remove keep both trees red-black
\* search trees of the entries in use, and no loop of tree.h meets NULL or runs
\* longer than the tree has elements.
THEOREM RouteTrees == Spec => []TreesHoldUsedEntries
<1>1. RouteInv => TreesHoldUsedEntries
  <2> SUFFICES ASSUME RouteInv PROVE TreesHoldUsedEntries
    OBVIOUS
  <2>1. rib \in Ribs /\ HasTree(rtree, NetworkKey(rib), Used) /\ HasTree(stree, IfaceKey(rib), Used)
    BY DEF RouteInv, Ribs
  <2>2. NetworkKey(rib) \in [Nodes -> Addresses] /\ IfaceKey(rib) \in [Nodes -> Addresses]
    BY <2>1, RouteKeys
  <2>3. RedBlack(rtree) /\ RedBlack(stree)
    BY <2>1, HasTreeFacts
  <2>4. SearchTree(rtree, NetworkKey(rib), Used) /\ SearchTree(stree, IfaceKey(rib), Used)
    BY <2>1, <2>2, HasTreeSearch
  <2> QED
    BY <2>3, <2>4 DEF TreesHoldUsedEntries
<1> QED
  BY <1>1, RouteInvariant, PTL

\* ip_route_entry_alloc and ip_route_entry_free lose no entry and give none out
\* twice: the entries in use are as many as the routes, and the program ends for
\* want of an entry only when there are more routes than entries.
THEOREM RouteEntries == Spec => []NoEntryLeaks
<1>1. RouteInv => NoEntryLeaks
  <2> SUFFICES ASSUME RouteInv PROVE NoEntryLeaks
    OBVIOUS
  <2>1. rib \in Ribs /\ HasTree(rtree, NetworkKey(rib), Used)
    BY DEF RouteInv, Ribs
  <2>2. ~crashed => Cardinality(Used) = Cardinality(table)
    BY <2>1, RoutesAreEntries DEF RouteInv
  <2> QED
    BY <2>2 DEF RouteInv, NoEntryLeaks
<1> QED
  BY <1>1, RouteInvariant, PTL

\* ip_route_find_by_network and ip_route_find_by_iface answer from the routes
\* that were added and not removed: what RB_FIND and RB_FOREACH return is what
\* a search of the set of routes would.
THEOREM RouteLookups == Spec => []LookupsAgree
<1>1. RouteInv => LookupsAgree
  <2> SUFFICES ASSUME RouteInv, ~crashed, NEW a \in Addresses
               PROVE  LET covers(r) == r.network \in {a, Masked(a, r.netmask), 0}
                          e == FindByNetwork(a)
                          i == FindByIface(a)
                      IN  /\ e = Null => \A r \in table : ~covers(r)
                          /\ e # Null => rib[e] \in {r \in table : covers(r)}
                          /\ \A r \in table : r.network = a => e # Null /\ rib[e] = r
                          /\ (i # Null) = (\E r \in table : r.iface = a)
                          /\ i # Null => rib[i] \in table /\ rib[i].iface = a
    BY DEF LookupsAgree
  <2> DEFINE k == NetworkKey(rib)
             l == IfaceKey(rib)
             E == {n \in Nodes : rib[n].network = Masked(a, rib[n].netmask)}
             exact == Find(rtree, k, a)
             masked == FirstOf(rtree, E)
             default == Find(rtree, k, 0)
             i == FindByIface(a)
             e == FindByNetwork(a)
             covers(r) == r.network \in {a, Masked(a, r.netmask), 0}
  <2>1. rib \in Ribs /\ HasTree(rtree, k, Used) /\ HasTree(stree, l, Used) /\ table = {rib[n] : n \in Used}
    BY DEF RouteInv, Ribs
  <2>2. /\ k \in [Nodes -> Addresses] /\ l \in [Nodes -> Addresses]
        /\ \A n \in Nodes : k[n] = rib[n].network /\ l[n] = rib[n].iface
    BY <2>1, RouteKeys
  <2>3. 0 \in Addresses
    BY TreeAssumption DEF Addresses
  <2>4. Used \subseteq Nodes /\ Null \notin Used
    BY TreeAssumption DEF Used
  <2>5. i = Find(stree, l, a) /\ e = IF exact # Null THEN exact ELSE IF masked # Null THEN masked ELSE default
    BY DEF FindByIface, FindByNetwork
  <2> HIDE DEF k, l, i, e
  <2>6. exact \in Used \cup {Null} /\ \A n \in Used : exact = n <=> rib[n].network = a
    BY <2>1, <2>2, <2>4, HasTreeSearch
  <2>7. default \in Used \cup {Null} /\ \A n \in Used : default = n <=> rib[n].network = 0
    BY <2>1, <2>2, <2>3, <2>4, HasTreeSearch
  <2>8. /\ masked \in Used \cup {Null} /\ (masked # Null => masked \in E)
        /\ masked = Null => \A x \in Used : x \notin E
    BY <2>1, <2>2, HasTreeSearch
  <2>9. i \in Used \cup {Null} /\ \A n \in Used : i = n <=> rib[n].iface = a
    BY <2>1, <2>2, <2>4, <2>5, HasTreeSearch
  <2>10. /\ masked # Null => rib[masked].network = Masked(a, rib[masked].netmask)
         /\ masked = Null => \A x \in Used : rib[x].network # Masked(a, rib[x].netmask)
    BY <2>4, <2>8
  <2> HIDE DEF exact, masked, default
  <2>11. e = Null => \A r \in table : ~covers(r)
    BY <2>1, <2>4, <2>5, <2>6, <2>7, <2>10
  <2>12. e # Null => rib[e] \in {r \in table : covers(r)}
    BY <2>1, <2>4, <2>5, <2>6, <2>7, <2>8, <2>10
  <2>13. \A r \in table : r.network = a => e # Null /\ rib[e] = r
    BY <2>1, <2>4, <2>5, <2>6
  <2>14. (i # Null) = (\E r \in table : r.iface = a)
    BY <2>1, <2>4, <2>9
  <2>15. i # Null => rib[i] \in table /\ rib[i].iface = a
    BY <2>1, <2>9
  <2> QED
    BY <2>11, <2>12, <2>13, <2>14, <2>15 DEF i, e
<1> QED
  BY <1>1, RouteInvariant, PTL
=============================================================================
