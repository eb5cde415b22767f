---------------------------- MODULE IpSendProofs ----------------------------
(***************************************************************************)
(* Machine-checked proofs about ip_send: for payloads of any size and any  *)
(* maximal frame, queues of any size and any number of packets.            *)
(***************************************************************************)
EXTENDS IpSend, SequenceTheorems, WellFoundedInduction, TLAPS

-----------------------------------------------------------------------------
(* Induction, loops as recursive functions of their turns, and remainders. *)

NatLess == OpToRel(<, Nat)

\* A set of naturals that is not empty has a least element.
LEMMA LeastNat ==
    ASSUME NEW T \in SUBSET Nat, T # {}
    PROVE  \E x \in T : \A y \in T : x <= y
<1>1. NatLess = {p \in Nat \X Nat : p[1] < p[2]}
  BY Zenon DEF NatLess, OpToRel
<1>2. IsWellFoundedOn(NatLess, Nat)
  BY NatLessThanWellFounded, Zenon DEF NatLess
<1>3. \E x \in T : \A y \in T : <<y, x>> \notin NatLess
  BY <1>2, WFMin, Zenon
<1>4. PICK x \in T : \A y \in T : <<y, x>> \notin NatLess
  BY <1>3
<1>5. \A y \in T : <<y, x>> \in NatLess <=> y < x
  BY <1>1
<1>6. \A y \in T : ~ (y < x)
  BY <1>4, <1>5
<1> QED
  BY <1>6

\* Induction over an initial segment: a set that holds 0 and, with i, also
\* i + 1, holds every number up to n.
LEMMA UpTo ==
    ASSUME NEW n \in Nat, NEW P, 0 \in P,
           \A i \in 0 .. n - 1 : i \in P => i + 1 \in P
    PROVE  0 .. n \subseteq P
<1> DEFINE T == (0 .. n) \ P
<1> SUFFICES ASSUME T # {} PROVE FALSE
  OBVIOUS
<1>0. T \in SUBSET Nat
  OBVIOUS
<1>1. PICK x \in T : \A y \in T : x <= y
  BY <1>0, LeastNat, Zenon
<1>2. x # 0 /\ x - 1 \in 0 .. n - 1 /\ x - 1 \notin T
  BY <1>1
<1>3. x - 1 \in P
  BY <1>2
<1>4. (x - 1) + 1 \in P
  BY <1>2, <1>3
<1> QED
  BY <1>1, <1>4

\* The run of a loop with body F from c, up to turn n.
IsRun(g, S, F, c, n) ==
    /\ g \in [0 .. n -> S]
    /\ g[0] = c
    /\ \A i \in 1 .. n : g[i] = F[g[i - 1]]

\* Every loop whose body stays in a set has a run of any length.
LEMMA RunExists ==
    ASSUME NEW S, NEW F \in [S -> S], NEW c \in S, NEW n \in Nat
    PROVE  \E g : IsRun(g, S, F, c, n)
<1> DEFINE P == {m \in 0 .. n : \E g : IsRun(g, S, F, c, m)}
<1>1. 0 \in P
  <2>1. IsRun([i \in 0 .. 0 |-> c], S, F, c, 0)
    BY DEF IsRun
  <2> QED
    BY <2>1
<1>2. ASSUME NEW m \in 0 .. n - 1, m \in P PROVE m + 1 \in P
  <2>1. PICK g : IsRun(g, S, F, c, m)
    BY <1>2
  <2> DEFINE h == [i \in 0 .. m + 1 |-> IF i = m + 1 THEN F[g[m]] ELSE g[i]]
  <2>2. h \in [0 .. m + 1 -> S] /\ h[0] = c
    BY <2>1 DEF IsRun
  <2>3. ASSUME NEW i \in 1 .. m + 1 PROVE h[i] = F[h[i - 1]]
    BY <2>1, <2>3 DEF IsRun
  <2>4. IsRun(h, S, F, c, m + 1)
    BY <2>2, <2>3 DEF IsRun
  <2> QED
    BY <2>4
<1>3. 0 .. n \subseteq P
  BY <1>1, <1>2, UpTo
<1> QED
  BY <1>3

\* A quotient and a remainder are unique.
LEMMA ModUnique ==
    ASSUME NEW m \in Nat \ {0}, NEW q \in Nat, NEW r \in 0 .. m - 1
    PROVE  (m * q + r) % m = r
  BY SMT

\* Adding one to a remainder.
LEMMA ModSucc ==
    ASSUME NEW m \in Nat \ {0}, NEW a \in Nat
    PROVE  ((a % m) + 1) % m = (a + 1) % m
<1> DEFINE q == a \div m
           r == a % m
<1>1. a = m * q + r /\ r \in 0 .. m - 1 /\ q \in Nat
  BY SMT
<1>2. CASE r + 1 < m
  <2>1. a + 1 = m * q + (r + 1) /\ r + 1 \in 0 .. m - 1
    BY <1>1, <1>2, SMT
  <2>2. (m * q + (r + 1)) % m = r + 1
    BY <1>1, <2>1, ModUnique
  <2>3. (r + 1) % m = r + 1
    BY <1>1, <1>2, SMT
  <2> QED
    BY <2>1, <2>2, <2>3
<1>3. CASE r + 1 = m
  <2>1. a + 1 = m * (q + 1) + 0 /\ 0 \in 0 .. m - 1 /\ q + 1 \in Nat
    BY <1>1, <1>3, SMT
  <2>2. (m * (q + 1) + 0) % m = 0
    BY <2>1, ModUnique
  <2>3. (r + 1) % m = 0
    BY <1>1, <1>3, SMT
  <2> QED
    BY <2>1, <2>2, <2>3
<1> QED
  BY <1>1, <1>2, <1>3

\* Numbers that are less than m apart have different remainders.
LEMMA ModDistinct ==
    ASSUME NEW m \in Nat \ {0}, NEW a \in Nat, NEW b \in Nat, a < b, b - a < m
    PROVE  a % m # b % m
<1> DEFINE p == a \div m
           q == b \div m
           r == a % m
<1> SUFFICES ASSUME a % m = b % m PROVE FALSE
  OBVIOUS
<1>1. a = m * p + r /\ b = m * q + r /\ p \in Nat /\ q \in Nat /\ r \in Nat
  BY SMT
<1> HIDE DEF p, q, r
<1>2. m * q - m * p = b - a
  BY <1>1, SMT
<1>3. CASE q <= p
  <2>1. m * q <= m * p
    BY <1>1, <1>3, SMT
  <2> QED
    BY <1>1, <1>2, <2>1, SMT
<1>4. CASE q >= p + 1
  <2>1. m * q >= m * (p + 1) /\ m * (p + 1) = m * p + m
    BY <1>1, <1>4, SMT
  <2> QED
    BY <1>1, <1>2, <2>1, SMT
<1> QED
  BY <1>1, <1>3, <1>4

\* A full turn of a ring.
LEMMA ModTurn ==
    ASSUME NEW m \in Nat \ {0}, NEW a \in Nat
    PROVE  (a + m) % m = a % m
<1> DEFINE q == a \div m
           r == a % m
<1>1. a = m * q + r /\ r \in 0 .. m - 1 /\ q \in Nat
  BY SMT
<1> HIDE DEF q
<1>2. a + m = m * (q + 1) + r /\ q + 1 \in Nat
  BY <1>1, SMT
<1>3. (m * (q + 1) + r) % m = r
  BY <1>1, <1>2, ModUnique
<1> QED
  BY <1>2, <1>3

-----------------------------------------------------------------------------
(* The fragments of a payload.                                             *)

FrameRecs == [len : Nat, foff : Nat, mf : BOOLEAN, data : Seq(Nat)]

\* Where frame i begins and ends.
Begins(fr, i) == 8 * fr[i].foff
Ends(fr, i)   == Begins(fr, i) + Len(fr[i].data)

\* Frames that carry the bytes of a payload from the first to end, in order.
Chain(fr, end) ==
    /\ \A i \in 1 .. Len(fr) :
           /\ Begins(fr, i) = IF i = 1 THEN 0 ELSE Ends(fr, i - 1)
           /\ \A j \in DOMAIN fr[i].data : fr[i].data[j] = Begins(fr, i) + j
    /\ end = IF Len(fr) = 0 THEN 0 ELSE Ends(fr, Len(fr))

\* More fragments follow every frame, but for the last one if nothing is left.
Flagged(fr, left) == \A i \in 1 .. Len(fr) : fr[i].mf = (i < Len(fr) \/ left # 0)

\* The invariant of the loop in ip_send_fragments: the bytes that have not been
\* sent are still where they were.
LoopStates(size) ==
    {f \in [bytes : Nat, offset : Nat, data : [1 .. size -> Nat], out : Seq(FrameRecs)] :
        /\ f.bytes + f.offset = size
        /\ f.bytes > 0 => 8 * (f.offset \div 8) = f.offset
        /\ \A i \in f.offset + 1 .. size : f.data[i] = i
        /\ Chain(f.out, f.offset) /\ Flagged(f.out, f.bytes)}

\* A fragment is not empty, and the next one begins at a multiple of 8.
LEMMA FragmentSize ==
    ASSUME NEW bytes \in Nat \ {0}
    PROVE  LET plen == NextFragmentSize(bytes) IN
           /\ plen \in 1 .. bytes
           /\ plen # bytes => 8 * (plen \div 8) = plen
<1> DEFINE max == OffRound(Mtu - HLen - 8)
<1>1. max \in Nat /\ max >= 8 /\ 8 * (max \div 8) = max
  <2> DEFINE k == Mtu - HLen - 8
  <2>1. k \in Nat /\ k >= 1
    BY SendAssumption
  <2> HIDE DEF k
  <2>2. ((k + 7) \div 8) \in Nat /\ (k + 7) \div 8 >= 1
    BY <2>1
  <2>3. max = ((k + 7) \div 8) * 8
    BY DEF OffRound, k
  <2> HIDE DEF max
  <2> QED
    BY <2>2, <2>3
<1> HIDE DEF max
<1>2. NextFragmentSize(bytes) = IF bytes < max THEN bytes ELSE max
  BY DEF NextFragmentSize, max
<1> QED
  BY <1>1, <1>2

\* One more frame at the end of a chain.
LEMMA ChainAppend ==
    ASSUME NEW fr \in Seq(FrameRecs), NEW end \in Nat, Chain(fr, end), Flagged(fr, 1),
           NEW g \in FrameRecs, 8 * g.foff = end, NEW left \in Nat, g.mf = (left # 0),
           \A j \in DOMAIN g.data : g.data[j] = end + j
    PROVE  LET all == Append(fr, g)
           IN  all \in Seq(FrameRecs) /\ Chain(all, end + Len(g.data)) /\ Flagged(all, left)
<1> DEFINE all == Append(fr, g)
           n == Len(fr)
<1>0. n \in Nat /\ g.foff \in Nat /\ Len(g.data) \in Nat
  BY DEF FrameRecs
<1>1. /\ all \in Seq(FrameRecs) /\ Len(all) = n + 1 /\ all[n + 1] = g
      /\ \A i \in 1 .. n : all[i] = fr[i]
  OBVIOUS
<1> HIDE DEF all
<1>2. ASSUME NEW i \in 1 .. n + 1
      PROVE  /\ Begins(all, i) = IF i = 1 THEN 0 ELSE Ends(all, i - 1)
             /\ \A j \in DOMAIN all[i].data : all[i].data[j] = Begins(all, i) + j
  <2>1. CASE i = n + 1
    <3>1. Begins(all, i) = end /\ all[i] = g
      BY <1>1, <2>1 DEF Begins
    <3>2. n # 0 => end = Ends(all, n)
      BY <1>0, <1>1 DEF Chain, Ends, Begins
    <3>3. n = 0 => end = 0
      BY DEF Chain
    <3> QED
      BY <1>0, <2>1, <3>1, <3>2, <3>3
  <2>2. CASE i \in 1 .. n
    <3>1. all[i] = fr[i] /\ (i # 1 => all[i - 1] = fr[i - 1])
      <4>1. i # 1 => i - 1 \in 1 .. n
        BY <1>0, <2>2
      <4> QED
        BY <1>1, <2>2, <4>1
    <3> QED
      BY <2>2, <3>1 DEF Chain, Begins, Ends
  <2> QED
    BY <1>0, <2>1, <2>2
<1>3. end + Len(g.data) = Ends(all, n + 1)
  BY <1>1 DEF Ends, Begins
<1>4. Chain(all, end + Len(g.data))
  BY <1>0, <1>1, <1>2, <1>3 DEF Chain
<1>5. Flagged(all, left)
  <2> SUFFICES ASSUME NEW i \in 1 .. n + 1 PROVE all[i].mf = (i < n + 1 \/ left # 0)
    BY <1>1 DEF Flagged
  <2>1. CASE i = n + 1
    BY <1>0, <1>1, <2>1
  <2>2. CASE i \in 1 .. n
    BY <1>0, <1>1, <2>2 DEF Flagged
  <2> QED
    BY <1>0, <2>1, <2>2
<1> QED
  BY <1>1, <1>4, <1>5 DEF all

\* A turn of the loop keeps the invariant.
LEMMA TurnKeeps ==
    ASSUME NEW size \in Nat, NEW f \in LoopStates(size), f.bytes # 0
    PROVE  FragmentStep(f) \in LoopStates(size) /\ FragmentStep(f).bytes < f.bytes
<1> DEFINE b == f.bytes
           o == f.offset
           plen == NextFragmentSize(b)
           data == Moved(f, plen)
           g == [len |-> HLen + plen, foff |-> o \div 8, mf |-> b - plen # 0,
                 data |-> SubSeq(data, 1, plen)]
           r == [bytes |-> b - plen, offset |-> o + plen, data |-> data,
                 out |-> Append(f.out, g)]
<1>0. FragmentStep(f) = r
  BY DEF FragmentStep
<1>1. /\ b \in Nat /\ b # 0 /\ o \in Nat /\ f.data \in [1 .. size -> Nat]
      /\ f.out \in Seq(FrameRecs) /\ b + o = size
      /\ 8 * (o \div 8) = o
      /\ \A i \in o + 1 .. size : f.data[i] = i
      /\ Chain(f.out, o) /\ Flagged(f.out, b)
  BY DEF LoopStates
<1>2. plen \in 1 .. b /\ (plen # b => 8 * (plen \div 8) = plen)
  BY <1>1, FragmentSize
<1> HIDE DEF plen, b, o
<1>3. /\ data \in [1 .. size -> Nat]
      /\ \A i \in 1 .. plen : data[i] = o + i
      /\ \A i \in o + plen + 1 .. size : data[i] = i
  <2>1. data = [i \in 1 .. size |-> IF i <= plen THEN f.data[i + o] ELSE f.data[i]]
    BY <1>1 DEF Moved, o
  <2> HIDE DEF data
  <2>2. \A i \in 1 .. plen : i \in 1 .. size /\ i + o \in o + 1 .. size
                             /\ i + o \in 1 .. size
    BY <1>1, <1>2
  <2>3. \A i \in 1 .. plen : data[i] = o + i
    BY <1>1, <1>2, <2>1, <2>2
  <2>4. \A i \in o + plen + 1 .. size :
            i \in 1 .. size /\ ~(i <= plen) /\ i \in o + 1 .. size
    BY <1>1, <1>2
  <2>5. \A i \in o + plen + 1 .. size : data[i] = i
    BY <1>1, <2>1, <2>4
  <2>6. ASSUME NEW i \in 1 .. size
        PROVE  (IF i <= plen THEN f.data[i + o] ELSE f.data[i]) \in Nat
    BY <1>1, <1>2, <2>2
  <2>7. data \in [1 .. size -> Nat]
    BY <2>1, <2>6
  <2> QED
    BY <2>3, <2>5, <2>7
<1> HIDE DEF data
<1>4. /\ SubSeq(data, 1, plen) \in Seq(Nat) /\ Len(SubSeq(data, 1, plen)) = plen
      /\ \A j \in 1 .. plen : SubSeq(data, 1, plen)[j] = data[j]
  <2>1. data \in Seq(Nat) /\ Len(data) = size
    BY <1>3
  <2>2. 1 \in 1 .. Len(data) + 1 /\ plen \in 1 - 1 .. Len(data)
    BY <1>1, <1>2, <2>1
  <2> QED
    BY <1>2, <2>1, <2>2, SubSeqProperties
<1>5. /\ g \in FrameRecs /\ 8 * g.foff = o /\ g.mf = (b - plen # 0)
      /\ Len(g.data) = plen /\ \A j \in DOMAIN g.data : g.data[j] = o + j
  <2> DEFINE d == SubSeq(data, 1, plen)
  <2>1. d \in Seq(Nat) /\ Len(d) = plen /\ DOMAIN d = 1 .. plen
        /\ \A j \in 1 .. plen : d[j] = o + j
    BY <1>3, <1>4
  <2> HIDE DEF d
  <2>2. HLen + plen \in Nat /\ o \div 8 \in Nat /\ (b - plen # 0) \in BOOLEAN
    BY <1>1, <1>2, SendAssumption
  <2>3. g = [len |-> HLen + plen, foff |-> o \div 8, mf |-> b - plen # 0, data |-> d]
    BY DEF d
  <2> HIDE DEF g
  <2> QED
    BY <1>1, <2>1, <2>2, <2>3 DEF FrameRecs
<1> HIDE DEF g
<1>6. /\ Append(f.out, g) \in Seq(FrameRecs)
      /\ Chain(Append(f.out, g), o + plen)
      /\ Flagged(Append(f.out, g), b - plen)
  <2>1. Flagged(f.out, 1)
    BY <1>1 DEF Flagged
  <2>2. b - plen \in Nat
    BY <1>1, <1>2
  <2> QED
    BY <1>1, <1>5, <2>1, <2>2, ChainAppend
<1>7. b - plen > 0 => 8 * ((o + plen) \div 8) = o + plen
  BY <1>1, <1>2
<1>8. r \in LoopStates(size)
  <2>1. /\ b - plen \in Nat /\ o + plen \in Nat
        /\ b - plen + (o + plen) = size
    BY <1>1, <1>2
  <2>2. r \in [bytes : Nat, offset : Nat, data : [1 .. size -> Nat], out : Seq(FrameRecs)]
    BY <1>3, <1>6, <2>1
  <2> QED
    BY <1>3, <1>6, <1>7, <2>1, <2>2 DEF LoopStates
<1> QED
  BY <1>0, <1>1, <1>2, <1>8 DEF b

\* The loop of FramesOf, as a function of its turns.
Start(size) == [bytes |-> size, offset |-> 0, data |-> Payload(size), out |-> <<>>]
IsLoop(g, size) ==
    g = [i \in 0 .. size |-> IF i = 0 THEN Start(size)
                             ELSE IF g[i - 1].bytes = 0 THEN g[i - 1] ELSE FragmentStep(g[i - 1])]

LEMMA StartIsState ==
    ASSUME NEW size \in Nat
    PROVE  Start(size) \in LoopStates(size)
<1>1. Payload(size) \in [1 .. size -> Nat] /\ \A i \in 1 .. size : Payload(size)[i] = i
  BY DEF Payload
<1>2. << >> \in Seq(FrameRecs) /\ Chain(<< >>, 0) /\ Flagged(<< >>, size)
  BY DEF Chain, Flagged
<1>3. Start(size) \in [bytes : Nat, offset : Nat, data : [1 .. size -> Nat], out : Seq(FrameRecs)]
  BY <1>1, <1>2 DEF Start
<1>4. /\ Start(size).bytes = size /\ Start(size).offset = 0 /\ Start(size).out = << >>
      /\ Start(size).data = Payload(size)
  BY DEF Start
<1> QED
  BY <1>1, <1>2, <1>3, <1>4 DEF LoopStates

\* There is such a function.
LEMMA LoopExists ==
    ASSUME NEW size \in Nat
    PROVE  \E g : IsLoop(g, size)
<1> DEFINE S == LoopStates(size)
           F == [f \in S |-> IF f.bytes = 0 THEN f ELSE FragmentStep(f)]
<1>1. F \in [S -> S]
  <2>1. \A f \in S : (IF f.bytes = 0 THEN f ELSE FragmentStep(f)) \in S
    BY TurnKeeps
  <2> QED
    BY <2>1
<1>2. \A f \in S : F[f] = IF f.bytes = 0 THEN f ELSE FragmentStep(f)
  OBVIOUS
<1> HIDE DEF F, S
<1>3. Start(size) \in S
  BY StartIsState DEF S
<1>4. PICK g : IsRun(g, S, F, Start(size), size)
  BY <1>1, <1>3, RunExists
<1>5. \A i \in 1 .. size : i - 1 \in 0 .. size
  OBVIOUS
<1>6. \A i \in 1 .. size :
          g[i] = IF g[i - 1].bytes = 0 THEN g[i - 1] ELSE FragmentStep(g[i - 1])
  BY <1>2, <1>4, <1>5 DEF IsRun
<1>7. g = [i \in 0 .. size |-> g[i]] /\ g[0] = Start(size)
  BY <1>4 DEF IsRun
<1>8. IsLoop(g, size)
  <2> DEFINE h == [i \in 0 .. size |-> IF i = 0 THEN Start(size)
                          ELSE IF g[i - 1].bytes = 0 THEN g[i - 1] ELSE FragmentStep(g[i - 1])]
  <2>1. ASSUME NEW i \in 0 .. size PROVE h[i] = g[i]
    <3>1. CASE i = 0
      BY <1>7, <3>1
    <3>2. CASE i \in 1 .. size
      BY <1>6, <3>2
    <3> QED
      BY <3>1, <3>2
  <2>2. h = g
    BY <1>7, <2>1
  <2> QED
    BY <2>2 DEF IsLoop
<1> QED
  BY <1>8

\* It keeps the invariant, and a byte or more goes in every turn.
LEMMA LoopKeeps ==
    ASSUME NEW size \in Nat, NEW g, IsLoop(g, size)
    PROVE  g[size] \in LoopStates(size) /\ g[size].bytes = 0
<1> DEFINE P == {i \in 0 .. size : g[i] \in LoopStates(size) /\ g[i].bytes <= size - i}
<1>1. 0 \in P
  <2>1. g[0] = Start(size)
    BY DEF IsLoop
  <2>2. g[0].bytes = size
    BY <2>1 DEF Start
  <2> QED
    BY <2>1, <2>2, StartIsState
<1>2. ASSUME NEW i \in 0 .. size - 1, i \in P PROVE i + 1 \in P
  <2>1. /\ i + 1 \in 0 .. size /\ (i + 1) - 1 = i /\ i + 1 # 0
        /\ g[i] \in LoopStates(size) /\ g[i].bytes <= size - i /\ g[i].bytes \in Nat
    BY <1>2 DEF LoopStates
  <2>2. g[i + 1] = IF g[i].bytes = 0 THEN g[i] ELSE FragmentStep(g[i])
    BY <2>1 DEF IsLoop
  <2>3. g[i + 1] \in LoopStates(size) /\ (g[i].bytes # 0 => g[i + 1].bytes < g[i].bytes)
    BY <2>1, <2>2, TurnKeeps
  <2>4. g[i + 1].bytes \in Nat /\ (g[i].bytes = 0 => g[i + 1].bytes = 0)
    BY <2>2, <2>3 DEF LoopStates
  <2>5. g[i + 1].bytes <= size - (i + 1)
    <3> DEFINE b == g[i].bytes
               c == g[i + 1].bytes
    <3>1. b \in Nat /\ c \in Nat /\ b <= size - i /\ (b # 0 => c < b) /\ (b = 0 => c = 0)
      BY <2>1, <2>3, <2>4
    <3> HIDE DEF b, c
    <3>2. c <= size - (i + 1)
      BY <3>1
    <3> QED
      BY <3>2 DEF c
  <2> QED
    BY <2>1, <2>3, <2>5
<1>3. 0 .. size \subseteq P
  BY <1>1, <1>2, UpTo
<1>4. g[size] \in LoopStates(size) /\ g[size].bytes <= size - size
  BY <1>3
<1>5. g[size].bytes \in Nat
  BY <1>4 DEF LoopStates
<1> QED
  BY <1>4, <1>5

\* The frames of a payload carry all of it.
LEMMA FramesFacts ==
    ASSUME NEW size \in Nat
    PROVE  LET all == FramesOf(size)
           IN  all \in Seq(FrameRecs) /\ Len(all) > 0 /\ Chain(all, size) /\ Flagged(all, 0)
<1>1. CASE size <= Mtu
  <2> DEFINE g == [len |-> HLen + size, foff |-> 0, mf |-> FALSE, data |-> Payload(size)]
  <2>1. /\ Payload(size) \in Seq(Nat) /\ Len(Payload(size)) = size
        /\ \A j \in DOMAIN Payload(size) : Payload(size)[j] = 0 + j
    BY DEF Payload
  <2>2. g \in FrameRecs /\ 8 * g.foff = 0 /\ g.mf = (0 # 0) /\ g.data = Payload(size)
    <3>1. g.foff = 0 /\ g.mf = FALSE /\ g.data = Payload(size)
      OBVIOUS
    <3>2. HLen + size \in Nat /\ FALSE \in BOOLEAN
      BY SendAssumption
    <3>3. g \in FrameRecs
      BY <2>1, <3>2 DEF FrameRecs
    <3>4. (0 # 0) = FALSE
      OBVIOUS
    <3> HIDE DEF g
    <3>5. g.mf = (0 # 0)
      BY <3>1, <3>4, Zenon
    <3> QED
      BY <3>1, <3>3, <3>5
  <2>3. FramesOf(size) = <<g>>
    BY <1>1 DEF FramesOf
  <2> HIDE DEF g
  <2>4. << >> \in Seq(FrameRecs) /\ Chain(<< >>, 0) /\ Flagged(<< >>, 1)
    BY DEF Chain, Flagged
  <2>5. <<g>> = Append(<< >>, g) /\ Len(<<g>>) = 1
    OBVIOUS
  <2>6. <<g>> \in Seq(FrameRecs) /\ Chain(<<g>>, 0 + size) /\ Flagged(<<g>>, 0)
    BY <2>1, <2>2, <2>4, <2>5, ChainAppend
  <2> QED
    BY <2>3, <2>5, <2>6
<1>2. CASE size > Mtu
  <2> DEFINE loop[i \in 0 .. size] ==
                 IF i = 0 THEN [bytes |-> size, offset |-> 0, data |-> Payload(size), out |-> <<>>]
                 ELSE LET f == loop[i - 1] IN IF f.bytes = 0 THEN f ELSE FragmentStep(f)
  <2>1. loop = CHOOSE g : IsLoop(g, size)
    BY DEF IsLoop, Start
  <2>2. FramesOf(size) = loop[size].out
    BY <1>2, SendAssumption DEF FramesOf
  <2> HIDE DEF loop
  <2>3. IsLoop(loop, size)
    BY <2>1, LoopExists
  <2>4. loop[size] \in LoopStates(size) /\ loop[size].bytes = 0
    BY <2>3, LoopKeeps
  <2>5. /\ loop[size].out \in Seq(FrameRecs) /\ loop[size].offset = size
        /\ Chain(loop[size].out, size) /\ Flagged(loop[size].out, 0)
    BY <2>4 DEF LoopStates
  <2>6. Len(loop[size].out) > 0
    BY <1>2, <2>5, SendAssumption DEF Chain
  <2> QED
    BY <2>2, <2>5, <2>6
<1> QED
  BY <1>1, <1>2, SendAssumption

-----------------------------------------------------------------------------
(* The inductive invariant.                                                *)

QueueRecs == [tries : 0..5, dst : Dsts, pkt : 0..MaxPackets, buf_size : {0}]
Packets   == [pkt : 0..MaxPackets, dst : Dsts]

SendTypes ==
    /\ queue \in [Slots -> QueueRecs]
    /\ eg \in {"idle", "send", "push", "room", "fill", "commit"}
    /\ ing \in {"idle", "peek", "send", "drop"}
    /\ result \in {"none", "deferred", "sent", "error"}
    /\ call \in [pkt : 0..MaxPackets, dst : Dsts, size : Nat]
    /\ pushed \in Seq(Packets) /\ popped \in Seq(Packets)

\* While ip_send is at work nothing of the packet has left.
Sending ==
    /\ \A i \in DOMAIN frames : Fits(frames[i])
    /\ eg # "idle" => frames = <<>> /\ result = "none"
    /\ eg = "idle" => (result = "sent" <=> Whole)

\* Packets are queued in the order of the calls.
Ordered ==
    /\ \A i, j \in 1 .. Len(pushed) : i < j => pushed[i].pkt < pushed[j].pkt
    /\ \A i \in 1 .. Len(pushed) :
           pushed[i].pkt <= call.pkt /\ (eg # "idle" => pushed[i].pkt < call.pkt)
    /\ \A i, j \in 1 .. Len(popped) : i < j => popped[i].pkt < popped[j].pkt

\* The tries that the handler has counted for the first packet.
HeadTries ==
    CASE ing \in {"idle", "peek"} -> {0, 2, 4}
      [] ing = "send" -> {1, 3}
      [] ing = "drop" -> {1, 3, 5}

\* The queue holds what was pushed after the first r packets, and these have
\* gone.
Window(r) ==
    /\ r \in 0 .. Len(pushed) /\ Len(pushed) - r < QSize
    /\ q_rd = r % QSize /\ q_wr = Len(pushed) % QSize
    /\ \A i \in r .. Len(pushed) - 1 :
           /\ queue[i % QSize].pkt = pushed[i + 1].pkt /\ queue[i % QSize].dst = pushed[i + 1].dst
           /\ queue[i % QSize].tries \in IF i = r THEN HeadTries ELSE {0}
    /\ ing \in {"send", "drop"} => r < Len(pushed)
    /\ eg \in {"fill", "commit"} => Len(pushed) - r < QSize - 1
    /\ eg = "commit" => queue[q_wr].pkt = call.pkt /\ queue[q_wr].dst = call.dst
                        /\ queue[q_wr].tries = 0
    /\ \A i \in 1 .. Len(popped) :
           \E j \in 1 .. Len(pushed) : pushed[j] = popped[i] /\ (j <= r \/ (j = r + 1 /\ ing = "drop"))

SendInv == SendTypes /\ defer_inhibit \in BOOLEAN /\ Sending /\ Ordered /\ \E r \in Nat : Window(r)

-----------------------------------------------------------------------------
(* The steps.                                                              *)

\* The indices stay in the ring.
LEMMA SlotFacts ==
    /\ \A a \in Nat : a % QSize \in Slots
    /\ \A a \in Nat : Successor(a % QSize) = (a + 1) % QSize
    /\ QSize \in Nat \ {0}
<1>1. QSize \in Nat \ {0}
  BY SendAssumption
<1>2. \A a \in Nat : a % QSize \in Slots
  BY <1>1 DEF Slots
<1>3. \A a \in Nat : Successor(a % QSize) = (a + 1) % QSize
  BY <1>1, ModSucc DEF Successor
<1> QED
  BY <1>1, <1>2, <1>3

\* A slot that ip_defer_push has filled.
LEMMA FilledSlot ==
    ASSUME NEW e \in QueueRecs, NEW d \in Dsts, NEW p \in 0..MaxPackets
    PROVE  [e EXCEPT !.tries = 0, !.dst = d, !.pkt = p] \in QueueRecs
<1>1. [e EXCEPT !.tries = 0] \in QueueRecs
  BY DEF QueueRecs
<1>2. ASSUME NEW f \in QueueRecs PROVE [f EXCEPT !.dst = d] \in QueueRecs
  BY DEF QueueRecs
<1>3. ASSUME NEW f \in QueueRecs PROVE [f EXCEPT !.pkt = p] \in QueueRecs
  BY DEF QueueRecs
<1>4. [e EXCEPT !.tries = 0, !.dst = d, !.pkt = p] =
          [[[e EXCEPT !.tries = 0] EXCEPT !.dst = d] EXCEPT !.pkt = p]
  OBVIOUS
<1> QED
  BY <1>1, <1>2, <1>3, <1>4, Zenon

\* Types.  Only the first packet is given another try, and not after the fifth.
LEMMA TypesKept ==
    ASSUME SendInv, Next
    PROVE  SendTypes' /\ (defer_inhibit \in BOOLEAN)'
<1> USE DEF queueVars, historyVars
<1>0. SendTypes /\ defer_inhibit \in BOOLEAN
  BY DEF SendInv
<1>1. PICK r \in Nat : Window(r)
  BY DEF SendInv
<1>2. q_rd \in Slots /\ q_wr \in Slots
  BY <1>1, SlotFacts DEF Window, SendTypes
<1>3. ASSUME NEW dst \in Dsts, NEW size \in Sizes, Begin(dst, size) PROVE SendTypes'
  <2>1. call.pkt + 1 \in 0..MaxPackets /\ size \in Nat
    BY <1>0, <1>3, SendAssumption DEF SendTypes, Begin
  <2> QED
    BY <1>0, <1>3, <2>1 DEF SendTypes, Begin
<1>4. CASE SendNoRoute \/ (\E requested \in Requests : SendUnresolved(requested)) \/ SendFrames
  BY <1>0, <1>4 DEF SendTypes, SendNoRoute, SendUnresolved, SendFrames, Return, Sent
<1>5. CASE PushInhibit \/ PushRoom
  BY <1>0, <1>5 DEF SendTypes, PushInhibit, PushRoom, Return
<1>6. CASE PushFill
  <2>1. queue' = [queue EXCEPT ![q_wr] = [queue[q_wr] EXCEPT !.tries = 0, !.dst = call.dst,
                                                             !.pkt = call.pkt]]
    BY <1>0, <1>2, <1>6 DEF PushFill, SendTypes
  <2>2. call.dst \in Dsts /\ call.pkt \in 0..MaxPackets /\ queue[q_wr] \in QueueRecs
    BY <1>0, <1>2 DEF SendTypes
  <2>3. [queue[q_wr] EXCEPT !.tries = 0, !.dst = call.dst, !.pkt = call.pkt] \in QueueRecs
    BY <2>2, FilledSlot, Zenon
  <2>4. queue' \in [Slots -> QueueRecs]
    BY <1>0, <2>1, <2>3 DEF SendTypes
  <2> QED
    BY <1>0, <1>6, <2>4 DEF PushFill, SendTypes
<1>7. CASE PushCommit
  <2>1. [pkt |-> call.pkt, dst |-> call.dst] \in Packets
    BY <1>0 DEF SendTypes, Packets
  <2>2. pushed' \in Seq(Packets)
    BY <1>0, <1>7, <2>1 DEF SendTypes, PushCommit
  <2> QED
    BY <1>0, <1>7, <2>2 DEF SendTypes, PushCommit, Return
<1>8. CASE Tick \/ ArpPacket \/ RouteChange
  BY <1>0, <1>8 DEF SendTypes, Tick, ArpPacket, HandlerBegin, RouteChange
<1>9. CASE HandlerPeek \/ HandlerNoRoute
  <2>1. CASE queue' = queue
    BY <1>0, <1>9, <2>1 DEF SendTypes, HandlerPeek, HandlerNoRoute
  <2>2. CASE queue' # queue
    <3> DEFINE e == queue[q_rd]
    <3>1. queue' = [queue EXCEPT ![q_rd] = [e EXCEPT !.tries = e.tries + 1]]
      BY <1>0, <1>2, <1>9, <2>2 DEF HandlerPeek, HandlerNoRoute, SendTypes
    <3>2. ing \in {"peek", "send"} /\ r < Len(pushed)
      BY <1>0, <1>1, <1>9, <2>2 DEF HandlerPeek, HandlerNoRoute, Window, SendTypes
    <3>3. e.tries \in 0 .. 4
      BY <1>0, <1>1, <3>2 DEF Window, HeadTries, SendTypes
    <3>4. e \in QueueRecs
      BY <1>0, <1>2 DEF SendTypes
    <3> HIDE DEF e
    <3>5. [e EXCEPT !.tries = e.tries + 1] \in QueueRecs
      BY <3>3, <3>4 DEF QueueRecs
    <3>6. queue' \in [Slots -> QueueRecs]
      BY <1>0, <3>1, <3>5 DEF SendTypes
    <3> QED
      BY <1>0, <1>9, <3>6 DEF SendTypes, HandlerPeek, HandlerNoRoute
  <2> QED
    BY <2>1, <2>2
<1>10. CASE HandlerSend
  <2>1. [pkt |-> queue[q_rd].pkt, dst |-> queue[q_rd].dst] \in Packets
    BY <1>0, <1>2 DEF SendTypes, QueueRecs, Packets
  <2>2. popped' \in Seq(Packets)
    <3> DEFINE p == [pkt |-> queue[q_rd].pkt, dst |-> queue[q_rd].dst]
    <3>1. popped' \in {popped, Append(popped, p)}
      BY <1>10 DEF HandlerSend
    <3>2. popped \in Seq(Packets)
      BY <1>0 DEF SendTypes
    <3> HIDE DEF p
    <3>3. p \in Packets
      BY <2>1 DEF p
    <3>4. Append(popped, p) \in Seq(Packets)
      BY <3>2, <3>3
    <3> QED
      BY <3>1, <3>2, <3>4
  <2> QED
    BY <1>0, <1>10, <2>2 DEF SendTypes, HandlerSend
<1>11. CASE HandlerDrop
  BY <1>0, <1>11 DEF SendTypes, HandlerDrop
<1>12. SendTypes'
  BY <1>3, <1>4, <1>5, <1>6, <1>7, <1>8, <1>9, <1>10, <1>11 DEF Next, EgressStep, HandlerStep
<1>13. (defer_inhibit \in BOOLEAN)'
  <2>1. defer_inhibit' = defer_inhibit \/ defer_inhibit' = TRUE
    BY DEF Next, EgressStep, HandlerStep, Begin, SendNoRoute, SendUnresolved, SendFrames, PushInhibit,
           PushRoom, PushFill, PushCommit, Tick, ArpPacket, HandlerBegin, RouteChange, HandlerPeek,
           HandlerNoRoute, HandlerSend, HandlerDrop
  <2> QED
    BY <1>0, <2>1, Zenon
<1> QED
  BY <1>12, <1>13

\* The frames that leave are the whole packet exactly if all of them do: the
\* last of some announces another.
LEMMA WholeIffAll ==
    ASSUME NEW k \in Nat, k <= Len(FramesOf(call'.size)), call'.size \in Nat,
           frames' = SubSeq(FramesOf(call'.size), 1, k)
    PROVE  Whole' <=> k = Len(FramesOf(call'.size))
<1> DEFINE size == call'.size
           all == FramesOf(size)
           n == Len(all)
<1>0. all \in Seq(FrameRecs) /\ n > 0 /\ Chain(all, size) /\ Flagged(all, 0)
  BY FramesFacts, Zenon
<1> HIDE DEF all
<1>1. all \in Seq(FrameRecs) /\ n > 0 /\ n \in Nat /\ k <= n /\ Chain(all, size) /\ Flagged(all, 0)
  BY <1>0 DEF all
<1>2. frames' \in Seq(FrameRecs) /\ Len(frames') = k /\ \A i \in 1 .. k : frames'[i] = all[i]
  <2>1. \A i \in 1 .. k : all[i] \in FrameRecs
    BY <1>1
  <2>2. SubSeq(all, 1, k) \in Seq(FrameRecs) /\ Len(SubSeq(all, 1, k)) = k
        /\ \A i \in 1 .. k : SubSeq(all, 1, k)[i] = all[i]
    BY <2>1, SubSeqProperties
  <2> QED
    BY <2>2 DEF all
<1>3. ASSUME k = n PROVE Whole'
  <2>1. ASSUME NEW i \in 1 .. n
        PROVE  /\ frames'[i].mf = (i < n)
               /\ 8 * frames'[i].foff =
                      IF i = 1 THEN 0 ELSE 8 * frames'[i - 1].foff + Len(frames'[i - 1].data)
               /\ \A j \in DOMAIN frames'[i].data : frames'[i].data[j] = 8 * frames'[i].foff + j
    <3>1. frames'[i] = all[i] /\ (i # 1 => frames'[i - 1] = all[i - 1])
      BY <1>1, <1>2, <1>3, <2>1
    <3>2. all[i].mf = (i < n)
      BY <1>1, <2>1 DEF Flagged
    <3>3. /\ 8 * all[i].foff = IF i = 1 THEN 0 ELSE 8 * all[i - 1].foff + Len(all[i - 1].data)
          /\ \A j \in DOMAIN all[i].data : all[i].data[j] = 8 * all[i].foff + j
      BY <1>1, <2>1 DEF Chain, Begins, Ends
    <3> QED
      BY <3>1, <3>2, <3>3
  <2>2. 8 * frames'[n].foff + Len(frames'[n].data) = size
    <3>1. frames'[n] = all[n]
      BY <1>1, <1>2, <1>3
    <3>2. size = 8 * all[n].foff + Len(all[n].data)
      BY <1>1 DEF Chain, Begins, Ends
    <3> QED
      BY <3>1, <3>2
  <2>3. Len(frames') = n /\ n > 0
    BY <1>1, <1>2, <1>3
  <2> QED
    BY <2>1, <2>2, <2>3 DEF Whole
<1>4. ASSUME Whole' PROVE k = n
  <2> SUFFICES ASSUME k < n PROVE FALSE
    BY <1>1 DEF all
  <2>1. k > 0 /\ k \in 1 .. k /\ frames'[k].mf = (k < k)
    BY <1>2, <1>4 DEF Whole
  <2>2. frames'[k] = all[k] /\ k \in 1 .. n
    BY <1>1, <1>2, <2>1
  <2>3. all[k].mf = (k < n \/ 0 # 0)
    BY <1>1, <2>2 DEF Flagged
  <2>4. all[k].mf = TRUE
    BY <1>1, <2>3
  <2>5. (k < k) = FALSE
    OBVIOUS
  <2> QED
    BY <2>1, <2>2, <2>4, <2>5, Zenon
<1> QED
  BY <1>3, <1>4 DEF all

\* ip_send returns success exactly if the whole packet has left.
LEMMA SendingKept ==
    ASSUME SendInv, Next
    PROVE  Sending'
<1> USE DEF queueVars, historyVars
<1>0. SendTypes /\ Sending
  BY DEF SendInv
<1>1. frames' = <<>> => ~Whole'
  BY DEF Whole
<1>2. CASE SendFrames
  <2> DEFINE all == FramesOf(call.size)
  <2>1. PICK k \in 0 .. Len(all) :
            /\ \A i \in 1..k : Fits(all[i])
            /\ frames' = SubSeq(all, 1, k)
            /\ eg' = "idle" /\ result' = Sent(k, Len(all))
    BY <1>2 DEF SendFrames, Return
  <2>2. call' = call /\ call.size \in Nat
    BY <1>0, <1>2 DEF SendFrames, SendTypes
  <2>3. all \in Seq(FrameRecs)
    BY <2>2, FramesFacts
  <2>4. Len(all) \in Nat
    BY <2>3
  <2>5. DOMAIN frames' = 1 .. k /\ \A i \in 1 .. k : frames'[i] = all[i]
    <3>1. \A i \in 1 .. k : all[i] \in FrameRecs
      BY <2>3, <2>4
    <3> HIDE DEF all
    <3>2. SubSeq(all, 1, k) \in Seq(FrameRecs) /\ Len(SubSeq(all, 1, k)) = k
          /\ \A i \in 1 .. k : SubSeq(all, 1, k)[i] = all[i]
      BY <2>4, <3>1, SubSeqProperties
    <3> QED
      BY <2>1, <3>2
  <2>6. Whole' <=> k = Len(all)
    BY <2>1, <2>2, <2>4, WholeIffAll
  <2>7. result' = "sent" <=> k = Len(all)
    BY <2>1 DEF Sent
  <2> HIDE DEF all
  <2> QED
    BY <2>1, <2>5, <2>6, <2>7 DEF Sending
<1>3. ASSUME NEW dst \in Dsts, NEW size \in Sizes, Begin(dst, size) PROVE Sending'
  BY <1>3 DEF Begin, Sending
<1>4. CASE SendNoRoute \/ (\E requested \in Requests : SendUnresolved(requested)) \/ PushInhibit
           \/ PushRoom \/ PushCommit
  <2>1. frames' = <<>> /\ result' # "sent" /\ (eg' # "idle" => result' = "none")
    BY <1>0, <1>4 DEF Sending, SendNoRoute, SendUnresolved, PushInhibit, PushRoom, PushCommit, Return
  <2> QED
    BY <1>1, <2>1 DEF Sending
<1>5. CASE PushFill
  BY <1>0, <1>5 DEF PushFill, Sending
<1>6. CASE Tick \/ ArpPacket \/ RouteChange \/ HandlerStep
  <2>1. UNCHANGED <<frames, result, call, eg>>
    BY <1>6 DEF Tick, ArpPacket, HandlerBegin, RouteChange, HandlerStep, HandlerPeek, HandlerNoRoute,
                HandlerSend, HandlerDrop
  <2>2. Whole' <=> Whole
    BY <2>1 DEF Whole
  <2> QED
    BY <1>0, <2>1, <2>2 DEF Sending
<1> QED
  BY <1>2, <1>3, <1>4, <1>5, <1>6 DEF Next, EgressStep

\* Packets are queued and sent in their order.
LEMMA OrderedKept ==
    ASSUME SendInv, Next
    PROVE  Ordered'
<1> USE DEF queueVars, historyVars
<1>0. SendTypes /\ Ordered
  BY DEF SendInv
<1>1. /\ call.pkt \in Nat
      /\ \A i \in 1 .. Len(pushed) : pushed[i].pkt \in Nat
      /\ \A i \in 1 .. Len(popped) : popped[i].pkt \in Nat
  <2>1. call.pkt \in Nat
    BY <1>0, SendAssumption DEF SendTypes
  <2>2. \A p \in Packets : p.pkt \in Nat
    BY SendAssumption DEF Packets
  <2>3. /\ \A i \in 1 .. Len(pushed) : pushed[i] \in Packets
        /\ \A i \in 1 .. Len(popped) : popped[i] \in Packets
    BY <1>0 DEF SendTypes
  <2> QED
    BY <2>1, <2>2, <2>3
<1>2. ASSUME NEW dst \in Dsts, NEW size \in Sizes, Begin(dst, size) PROVE Ordered'
  <2>1. call'.pkt = call.pkt + 1 /\ pushed' = pushed /\ popped' = popped
    BY <1>2 DEF Begin
  <2> QED
    BY <1>0, <1>1, <2>1 DEF Ordered
<1>3. CASE PushCommit
  <2> DEFINE p == [pkt |-> call.pkt, dst |-> call.dst]
             n == Len(pushed)
  <2>1. eg = "commit" /\ pushed' = Append(pushed, p) /\ eg' = "idle" /\ UNCHANGED <<call, popped>>
    BY <1>3 DEF PushCommit, Return
  <2>2. p.pkt = call.pkt
    OBVIOUS
  <2> HIDE DEF p
  <2>3. Len(pushed') = n + 1 /\ pushed'[n + 1] = p /\ n \in Nat
        /\ \A i \in 1 .. n : pushed'[i] = pushed[i]
    BY <1>0, <2>1 DEF SendTypes
  <2> QED
    BY <1>0, <1>1, <2>1, <2>2, <2>3 DEF Ordered
<1>4. CASE HandlerSend
  <2> DEFINE p == [pkt |-> queue[q_rd].pkt, dst |-> queue[q_rd].dst]
             n == Len(popped)
  <2>1. ing = "send" /\ popped' \in {popped, Append(popped, p)} /\ UNCHANGED <<call, pushed, eg>>
    BY <1>4 DEF HandlerSend
  <2>2. PICK r \in Nat : Window(r)
    BY DEF SendInv
  <2>3. r < Len(pushed) /\ r \in r .. Len(pushed) - 1 /\ q_rd = r % QSize /\ Len(pushed) \in Nat
    BY <1>0, <2>1, <2>2 DEF Window, SendTypes
  <2>4. p.pkt = pushed[r + 1].pkt
    BY <2>2, <2>3 DEF Window
  <2>5. \A i \in 1 .. n : popped[i].pkt < pushed[r + 1].pkt
    <3> SUFFICES ASSUME NEW i \in 1 .. n PROVE popped[i].pkt < pushed[r + 1].pkt
      OBVIOUS
    <3>1. PICK j \in 1 .. Len(pushed) : pushed[j] = popped[i] /\ j <= r
      BY <2>1, <2>2 DEF Window
    <3> QED
      BY <1>0, <2>3, <3>1 DEF Ordered
  <2> HIDE DEF p
  <2>6. CASE popped' = popped
    BY <1>0, <2>1, <2>6 DEF Ordered
  <2>7. CASE popped' = Append(popped, p)
    <3>1. Len(popped') = n + 1 /\ popped'[n + 1] = p /\ n \in Nat
          /\ \A i \in 1 .. n : popped'[i] = popped[i]
      BY <1>0, <2>7 DEF SendTypes
    <3>2. ASSUME NEW i \in 1 .. n + 1, NEW j \in 1 .. n + 1, i < j
          PROVE  popped'[i].pkt < popped'[j].pkt
      <4>1. CASE j = n + 1
        BY <2>4, <2>5, <3>1, <3>2, <4>1
      <4>2. CASE j \in 1 .. n
        BY <1>0, <3>1, <3>2, <4>2 DEF Ordered
      <4> QED
        BY <3>1, <4>1, <4>2
    <3> QED
      BY <1>0, <2>1, <3>1, <3>2 DEF Ordered
  <2> QED
    BY <2>1, <2>6, <2>7
<1>5. CASE Tick \/ ArpPacket \/ RouteChange \/ HandlerPeek \/ HandlerNoRoute \/ HandlerDrop
  <2>1. UNCHANGED <<call, pushed, popped, eg>>
    BY <1>5 DEF Tick, ArpPacket, HandlerBegin, RouteChange, HandlerPeek, HandlerNoRoute, HandlerDrop
  <2> QED
    BY <1>0, <2>1 DEF Ordered
<1>6. CASE SendNoRoute \/ (\E requested \in Requests : SendUnresolved(requested)) \/ SendFrames
           \/ PushInhibit \/ PushRoom \/ PushFill
  <2>1. UNCHANGED <<call, pushed, popped>> /\ eg # "idle"
    BY <1>6 DEF SendNoRoute, SendUnresolved, SendFrames, PushInhibit, PushRoom, PushFill
  <2> QED
    BY <1>0, <2>1 DEF Ordered
<1> QED
  BY <1>2, <1>3, <1>4, <1>5, <1>6 DEF Next, EgressStep, HandlerStep

\* The slots of the window, and the one behind it, are different.
LEMMA WindowSlots ==
    ASSUME NEW r \in Nat, NEW n \in Nat, r <= n, n - r < QSize
    PROVE  /\ \A i \in r .. n - 1 : i % QSize \in Slots /\ i % QSize # n % QSize
           /\ \A i \in r + 1 .. n - 1 : i % QSize # r % QSize
           /\ r < n => r % QSize # n % QSize
<1>0. QSize \in Nat \ {0}
  BY SlotFacts
<1>1. ASSUME NEW i \in r .. n - 1 PROVE i % QSize \in Slots /\ i % QSize # n % QSize
  <2>1. i \in Nat /\ i < n /\ n - i < QSize
    BY <1>0
  <2> QED
    BY <1>0, <2>1, ModDistinct, SlotFacts
<1>2. ASSUME NEW i \in r + 1 .. n - 1 PROVE i % QSize # r % QSize
  <2>1. i \in Nat /\ r < i /\ i - r < QSize
    BY <1>0
  <2> QED
    BY <1>0, <2>1, ModDistinct
<1>3. ASSUME r < n PROVE r % QSize # n % QSize
  BY <1>0, <1>3, ModDistinct
<1> QED
  BY <1>1, <1>2, <1>3

\* Steps of the egress thread before the slot is filled, and of the routing
\* table.
LEMMA WindowEgress ==
    ASSUME SendInv, NEW r \in Nat, Window(r),
           \/ \E dst \in Dsts, size \in Sizes : Begin(dst, size)
           \/ SendNoRoute \/ (\E requested \in Requests : SendUnresolved(requested))
           \/ SendFrames \/ PushInhibit \/ PushRoom \/ RouteChange
    PROVE  Window(r)'
<1> USE DEF queueVars, historyVars
<1>0. SendTypes
  BY DEF SendInv
<1>1. \/ /\ UNCHANGED <<queue, q_rd, q_wr, ing, pushed, popped>>
         /\ eg' # "commit" /\ (eg' = "fill" => eg = "fill" \/ Successor(q_wr) # q_rd)
      \/ UNCHANGED <<queue, q_rd, q_wr, ing, pushed, popped, eg, call>>
  BY DEF Begin, SendNoRoute, SendUnresolved, SendFrames, PushInhibit, PushRoom, RouteChange, Return
<1>2. HeadTries' = HeadTries
  BY <1>1 DEF HeadTries
<1>3. Successor(q_wr) # q_rd => Len(pushed) - r < QSize - 1
  <2> DEFINE n == Len(pushed)
  <2>1. n \in Nat /\ r <= n /\ n - r < QSize /\ q_rd = r % QSize /\ q_wr = n % QSize
    BY <1>0 DEF SendTypes, Window
  <2> HIDE DEF n
  <2>2. Successor(q_wr) = (n + 1) % QSize /\ QSize \in Nat \ {0}
    BY <2>1, SlotFacts
  <2>3. CASE n - r = QSize - 1
    <3>1. n + 1 = r + QSize
      BY <2>1, <2>2, <2>3
    <3> QED
      BY <2>1, <2>2, <3>1, ModTurn
  <2> QED
    BY <2>1, <2>2, <2>3 DEF n
<1> HIDE DEF HeadTries
<1>4. CASE eg' # "commit"
  BY <1>1, <1>2, <1>3, <1>4 DEF Window
<1>5. CASE UNCHANGED <<queue, q_rd, q_wr, ing, pushed, popped, eg, call>>
  BY <1>2, <1>5 DEF Window
<1> QED
  BY <1>1, <1>4, <1>5

\* ip_defer_push fills a slot that is not in the window ...
LEMMA WindowFill ==
    ASSUME SendInv, NEW r \in Nat, Window(r), PushFill
    PROVE  Window(r)'
<1> USE DEF queueVars, historyVars
<1> DEFINE n == Len(pushed)
<1>0. SendTypes
  BY DEF SendInv
<1>1. /\ eg = "fill" /\ eg' = "commit"
      /\ queue' = [queue EXCEPT ![q_wr].tries = 0, ![q_wr].dst = call.dst, ![q_wr].pkt = call.pkt]
      /\ UNCHANGED <<q_rd, q_wr, ing, call, pushed, popped>>
  BY DEF PushFill
<1>2. n \in Nat /\ r <= n /\ n - r < QSize /\ q_wr = n % QSize
  BY <1>0 DEF SendTypes, Window
<1>3. q_wr \in Slots
  BY <1>2, SlotFacts
<1>4. /\ \A s \in Slots : s # q_wr => queue'[s] = queue[s]
      /\ queue'[q_wr].tries = 0 /\ queue'[q_wr].dst = call.dst /\ queue'[q_wr].pkt = call.pkt
  BY <1>0, <1>1, <1>3 DEF SendTypes, QueueRecs
<1>5. \A i \in r .. n - 1 : queue'[i % QSize] = queue[i % QSize]
  BY <1>2, <1>4, WindowSlots
<1>6. HeadTries' = HeadTries
  BY <1>1 DEF HeadTries
<1> HIDE DEF HeadTries
<1>7. \A i \in r .. Len(pushed') - 1 :
          /\ queue'[i % QSize].pkt = pushed'[i + 1].pkt /\ queue'[i % QSize].dst = pushed'[i + 1].dst
          /\ queue'[i % QSize].tries \in IF i = r THEN HeadTries' ELSE {0}
  <2>1. \A i \in r .. n - 1 :
            /\ queue[i % QSize].pkt = pushed[i + 1].pkt /\ queue[i % QSize].dst = pushed[i + 1].dst
            /\ queue[i % QSize].tries \in IF i = r THEN HeadTries ELSE {0}
    BY DEF Window
  <2>2. pushed' = pushed
    BY <1>1
  <2> SUFFICES ASSUME NEW i \in r .. n - 1
               PROVE  /\ queue'[i % QSize].pkt = pushed[i + 1].pkt
                      /\ queue'[i % QSize].dst = pushed[i + 1].dst
                      /\ queue'[i % QSize].tries \in IF i = r THEN HeadTries ELSE {0}
    BY <1>6, <2>2
  <2>3. queue'[i % QSize] = queue[i % QSize]
    BY <1>5
  <2> QED
    BY <2>1, <2>3
<1>8. queue'[q_wr'].pkt = call'.pkt /\ queue'[q_wr'].dst = call'.dst /\ queue'[q_wr'].tries = 0
  BY <1>1, <1>4
<1>9. Len(pushed') - r < QSize - 1
  BY <1>1 DEF Window
<1> QED
  BY <1>1, <1>7, <1>8, <1>9 DEF Window

\* ... and appends it to the window.
LEMMA WindowCommit ==
    ASSUME SendInv, NEW r \in Nat, Window(r), PushCommit
    PROVE  Window(r)'
<1> USE DEF queueVars, historyVars
<1> DEFINE n == Len(pushed)
           p == [pkt |-> call.pkt, dst |-> call.dst]
<1>0. SendTypes
  BY DEF SendInv
<1>1. /\ eg = "commit" /\ eg' = "idle" /\ q_wr' = Successor(q_wr) /\ pushed' = Append(pushed, p)
      /\ UNCHANGED <<queue, q_rd, ing, call, popped>>
  BY DEF PushCommit, Return
<1>2. /\ n \in Nat /\ r <= n /\ n - r < QSize - 1 /\ q_wr = n % QSize
      /\ queue[n % QSize].pkt = p.pkt /\ queue[n % QSize].dst = p.dst /\ queue[n % QSize].tries = 0
  BY <1>0, <1>1 DEF SendTypes, Window
<1>3. q_wr' = (n + 1) % QSize /\ QSize \in Nat
  BY <1>1, <1>2, SlotFacts
<1> HIDE DEF p
<1>4. Len(pushed') = n + 1 /\ pushed'[n + 1] = p /\ \A i \in 1 .. n : pushed'[i] = pushed[i]
  BY <1>0, <1>1 DEF SendTypes
<1>5. HeadTries' = HeadTries /\ (r = n => 0 \in HeadTries)
  <2>1. r = n => ing \in {"idle", "peek"}
    BY <1>0 DEF SendTypes, Window
  <2> QED
    BY <1>1, <2>1 DEF HeadTries
<1> HIDE DEF HeadTries
<1>6. ASSUME NEW i \in r .. n
      PROVE  /\ queue'[i % QSize].pkt = pushed'[i + 1].pkt
             /\ queue'[i % QSize].dst = pushed'[i + 1].dst
             /\ queue'[i % QSize].tries \in IF i = r THEN HeadTries' ELSE {0}
  <2>1. CASE i = n
    BY <1>1, <1>2, <1>4, <1>5, <2>1
  <2>2. CASE i \in r .. n - 1
    <3>1. pushed'[i + 1] = pushed[i + 1]
      BY <1>2, <1>4, <2>2
    <3> QED
      BY <1>1, <1>5, <2>2, <3>1 DEF Window
  <2> QED
    BY <1>2, <2>1, <2>2
<1>7. ASSUME NEW i \in 1 .. Len(popped')
      PROVE  \E j \in 1 .. Len(pushed') :
                 pushed'[j] = popped'[i] /\ (j <= r \/ (j = r + 1 /\ ing' = "drop"))
  <2>1. PICK j \in 1 .. n : pushed[j] = popped[i] /\ (j <= r \/ (j = r + 1 /\ ing = "drop"))
    BY <1>1, <1>7 DEF Window
  <2>2. pushed'[j] = popped'[i] /\ j \in 1 .. Len(pushed')
    BY <1>1, <1>2, <1>4, <2>1
  <2> QED
    BY <1>1, <2>1, <2>2
<1>8. r \in 0 .. Len(pushed') /\ Len(pushed') - r < QSize /\ Len(pushed') - 1 = n
  BY <1>2, <1>3, <1>4
<1>9. q_rd' = r % QSize /\ (ing' \in {"send", "drop"} => r < Len(pushed'))
  BY <1>1, <1>2, <1>4 DEF Window
<1> QED
  BY <1>1, <1>3, <1>4, <1>6, <1>7, <1>8, <1>9 DEF Window

\* ip_defer_handler counts a try for the first packet ...
LEMMA WindowTry ==
    ASSUME SendInv, NEW r \in Nat, Window(r), HandlerPeek \/ HandlerNoRoute
    PROVE  Window(r)'
<1> USE DEF queueVars, historyVars
<1> DEFINE n == Len(pushed)
<1>0. SendTypes
  BY DEF SendInv
<1>1. UNCHANGED <<q_rd, q_wr, eg, call, pushed, popped>>
  BY DEF HandlerPeek, HandlerNoRoute
<1>2. n \in Nat /\ r <= n /\ n - r < QSize /\ q_rd = r % QSize /\ q_wr = n % QSize
  BY <1>0 DEF SendTypes, Window
<1>3. ing \in {"peek", "send"}
  BY DEF HandlerPeek, HandlerNoRoute
<1>4. CASE q_rd = q_wr
  <2>1. r = n
    BY <1>2, <1>4, WindowSlots
  <2>2. queue' = queue /\ ing' = "idle" /\ ing = "peek"
    BY <1>4, <2>1, <1>2 DEF HandlerPeek, HandlerNoRoute, Window
  <2>3. HeadTries' = HeadTries
    BY <2>2 DEF HeadTries
  <2> HIDE DEF HeadTries
  <2> QED
    BY <1>1, <2>2, <2>3 DEF Window
<1>5. CASE q_rd # q_wr
  <2>1. r < n
    BY <1>2, <1>5
  <2>2. q_rd \in Slots /\ q_rd # q_wr
    BY <1>2, <1>5, SlotFacts
  <2> DEFINE e == queue[q_rd]
  <2>3. queue' = [queue EXCEPT ![q_rd].tries = @ + 1]
    BY <1>5 DEF HandlerPeek, HandlerNoRoute
  <2>4. /\ \A s \in Slots : s # q_rd => queue'[s] = queue[s]
        /\ queue'[q_rd].tries = e.tries + 1
        /\ queue'[q_rd].dst = e.dst /\ queue'[q_rd].pkt = e.pkt
    BY <1>0, <2>2, <2>3 DEF SendTypes, QueueRecs
  <2>5. e.tries \in HeadTries /\ e.pkt = pushed[r + 1].pkt /\ e.dst = pushed[r + 1].dst
    BY <1>2, <2>1 DEF Window
  <2>6. ing' \in {"idle", "send", "drop"} /\ (ing' = "drop" => e.tries > 3)
        /\ (ing' = "send" => e.tries \in {0, 2}) /\ (ing' = "idle" => ing = "send")
        /\ (ing' # "idle" => ing = "peek")
    BY <1>5, <2>5 DEF HandlerPeek, HandlerNoRoute, TriedOut, HeadTries
  <2>7. e.tries + 1 \in HeadTries'
    <3>1. CASE ing = "peek"
      BY <2>5, <2>6, <3>1 DEF HeadTries
    <3>2. CASE ing = "send"
      BY <2>5, <2>6, <3>2 DEF HeadTries
    <3> QED
      BY <1>3, <3>1, <3>2
  <2> HIDE DEF HeadTries, e
  <2>8. ASSUME NEW i \in r .. n - 1
        PROVE  /\ queue'[i % QSize].pkt = pushed[i + 1].pkt
               /\ queue'[i % QSize].dst = pushed[i + 1].dst
               /\ queue'[i % QSize].tries \in IF i = r THEN HeadTries' ELSE {0}
    <3>1. CASE i = r
      BY <1>2, <2>4, <2>5, <2>7, <3>1
    <3>2. CASE i \in r + 1 .. n - 1
      <4>1. i % QSize \in Slots /\ i % QSize # q_rd
        BY <1>2, <3>2, WindowSlots
      <4>2. queue'[i % QSize] = queue[i % QSize]
        BY <2>4, <4>1
      <4> QED
        BY <3>2, <4>2 DEF Window
    <3> QED
      BY <1>2, <3>1, <3>2
  <2>9. queue'[q_wr] = queue[q_wr]
    BY <1>2, <2>2, <2>4, SlotFacts
  <2>10. ASSUME NEW i \in 1 .. Len(popped) PROVE \E j \in 1 .. n : pushed[j] = popped[i] /\ j <= r
    BY <1>3, <2>6 DEF Window
  <2> QED
    BY <1>1, <1>2, <2>1, <2>8, <2>9, <2>10 DEF Window
<1> QED
  BY <1>4, <1>5

\* ... sends it ...
LEMMA WindowSend ==
    ASSUME SendInv, NEW r \in Nat, Window(r), HandlerSend
    PROVE  Window(r)'
<1> USE DEF queueVars, historyVars
<1> DEFINE n == Len(pushed)
           p == [pkt |-> queue[q_rd].pkt, dst |-> queue[q_rd].dst]
<1>0. SendTypes
  BY DEF SendInv
<1>1. /\ UNCHANGED <<queue, q_rd, q_wr, eg, call, pushed>>
      /\ ing = "send" /\ ing' = "drop" /\ popped' \in {popped, Append(popped, p)}
  BY DEF HandlerSend
<1>2. n \in Nat /\ r < n /\ q_rd = r % QSize
  BY <1>0, <1>1 DEF SendTypes, Window
<1>3. p = pushed[r + 1]
  <2>1. pushed[r + 1] \in Packets
    BY <1>0, <1>2 DEF SendTypes
  <2>2. queue[q_rd].pkt = pushed[r + 1].pkt /\ queue[q_rd].dst = pushed[r + 1].dst
    BY <1>2 DEF Window
  <2> QED
    BY <2>1, <2>2 DEF Packets
<1>4. HeadTries \subseteq HeadTries'
  BY <1>1 DEF HeadTries
<1> HIDE DEF p, HeadTries
<1>5. ASSUME NEW i \in 1 .. Len(popped')
      PROVE  \E j \in 1 .. n : pushed[j] = popped'[i] /\ (j <= r \/ (j = r + 1 /\ ing' = "drop"))
  <2>0. Len(popped) \in Nat
    BY <1>0 DEF SendTypes
  <2>1. CASE i \in 1 .. Len(popped)
    <3>1. popped'[i] = popped[i]
      <4>1. popped \in Seq(Packets)
        BY <1>0 DEF SendTypes
      <4>2. Append(popped, p)[i] = popped[i]
        BY <2>1, <4>1
      <4> QED
        BY <1>1, <4>2
    <3> QED
      BY <1>1, <2>1, <3>1 DEF Window
  <2>2. CASE i \notin 1 .. Len(popped)
    <3>1. popped' = Append(popped, p)
      BY <1>1, <1>5, <2>2
    <3>2. popped'[i] = p
      BY <1>0, <1>5, <2>0, <2>2, <3>1 DEF SendTypes
    <3>3. r + 1 \in 1 .. n
      BY <1>2
    <3> QED
      BY <1>1, <1>3, <3>2, <3>3
  <2> QED
    BY <2>1, <2>2
<1>6. \A i \in r .. n - 1 :
          /\ queue[i % QSize].pkt = pushed[i + 1].pkt /\ queue[i % QSize].dst = pushed[i + 1].dst
          /\ queue[i % QSize].tries \in IF i = r THEN HeadTries' ELSE {0}
  BY <1>4 DEF Window
<1> QED
  BY <1>1, <1>2, <1>5, <1>6 DEF Window

\* ... and drops it.
LEMMA WindowDrop ==
    ASSUME SendInv, NEW r \in Nat, Window(r), HandlerDrop
    PROVE  Window(r + 1)'
<1> USE DEF queueVars, historyVars
<1> DEFINE n == Len(pushed)
<1>0. SendTypes
  BY DEF SendInv
<1>1. /\ UNCHANGED <<queue, q_wr, eg, call, pushed, popped>> /\ ing = "drop" /\ ing' = "peek"
      /\ q_rd' = IF q_rd = q_wr THEN q_rd ELSE Successor(q_rd)
  BY DEF HandlerDrop
<1>2. n \in Nat /\ r < n /\ n - r < QSize /\ q_rd = r % QSize /\ q_wr = n % QSize
  BY <1>0, <1>1 DEF SendTypes, Window
<1>3. q_rd' = (r + 1) % QSize
  BY <1>1, <1>2, WindowSlots, SlotFacts
<1>4. 0 \in HeadTries'
  BY <1>1 DEF HeadTries
<1> HIDE DEF HeadTries
<1>5. ASSUME NEW i \in r + 1 .. n - 1
      PROVE  /\ queue[i % QSize].pkt = pushed[i + 1].pkt /\ queue[i % QSize].dst = pushed[i + 1].dst
             /\ queue[i % QSize].tries \in IF i = r + 1 THEN HeadTries' ELSE {0}
  <2>1. i \in r .. n - 1 /\ i # r
    BY <1>2
  <2>2. queue[i % QSize].pkt = pushed[i + 1].pkt /\ queue[i % QSize].dst = pushed[i + 1].dst
        /\ queue[i % QSize].tries = 0
    BY <2>1 DEF Window
  <2> QED
    BY <1>4, <2>2
<1>6. ASSUME NEW i \in 1 .. Len(popped)
      PROVE  \E j \in 1 .. n : pushed[j] = popped[i] /\ j <= r + 1
  BY <1>2 DEF Window
<1>7. r + 1 \in 0 .. n /\ n - (r + 1) < QSize
  BY <1>2, SendAssumption
<1>8. eg \in {"fill", "commit"} => n - (r + 1) < QSize - 1
  BY <1>2, SendAssumption DEF Window
<1>9. eg = "commit" => queue[q_wr].pkt = call.pkt /\ queue[q_wr].dst = call.dst
                       /\ queue[q_wr].tries = 0
  BY DEF Window
<1> QED
  BY <1>1, <1>2, <1>3, <1>5, <1>6, <1>7, <1>8, <1>9 DEF Window

\* The handler begins.
LEMMA WindowBegin ==
    ASSUME SendInv, NEW r \in Nat, Window(r), Tick \/ ArpPacket
    PROVE  Window(r)'
<1>1. UNCHANGED <<queue, q_rd, q_wr, eg, call, pushed, popped>> /\ ing = "idle" /\ ing' = "peek"
  BY DEF Tick, ArpPacket, HandlerBegin, historyVars
<1>2. HeadTries' = HeadTries
  BY <1>1 DEF HeadTries
<1> HIDE DEF HeadTries
<1> QED
  BY <1>1, <1>2 DEF Window

-----------------------------------------------------------------------------
(* The theorems.                                                           *)

\* The invariant holds at the start and after every step.
THEOREM SendInvariant == Spec => []SendInv
<1>1. Init => SendInv
  <2> SUFFICES ASSUME Init PROVE SendInv
    OBVIOUS
  <2>1. Empty.dst \in Dsts /\ Empty \in QueueRecs /\ Empty.tries = 0
    <3> DEFINE d == CHOOSE d \in Dsts : TRUE
    <3>1. d \in Dsts /\ Empty = [tries |-> 0, dst |-> d, pkt |-> 0, buf_size |-> 0]
      BY SendAssumption DEF Empty
    <3> HIDE DEF d
    <3> QED
      BY <3>1, SendAssumption DEF QueueRecs
  <2>2. SendTypes
    BY <2>1, SendAssumption DEF Init, SendTypes
  <2>3. defer_inhibit \in BOOLEAN
    BY DEF Init
  <2>4. Sending /\ Ordered
    BY DEF Init, Sending, Ordered, Whole
  <2>5. Window(0)
    BY SlotFacts, SendAssumption DEF Init, Window
  <2> QED
    BY <2>2, <2>3, <2>4, <2>5 DEF SendInv
<1>2. SendInv /\ [Next]_vars => SendInv'
  <2>1. ASSUME SendInv, Next PROVE SendInv'
    <3>1. PICK r \in Nat : Window(r)
      BY <2>1 DEF SendInv
    <3>2. Window(r)' \/ Window(r + 1)'
      BY <2>1, <3>1, WindowEgress, WindowFill, WindowCommit, WindowTry, WindowSend, WindowDrop,
         WindowBegin DEF Next, EgressStep, HandlerStep
    <3>3. \E s \in Nat : Window(s)'
      BY <3>2
    <3> QED
      BY <2>1, <3>3, TypesKept, SendingKept, OrderedKept DEF SendInv
  <2>2. ASSUME SendInv, UNCHANGED vars PROVE SendInv'
    <3> USE DEF vars, queueVars, historyVars
    <3>1. PICK r \in Nat : Window(r)
      BY <2>2 DEF SendInv
    <3>2. Window(r)'
      BY <2>2, <3>1 DEF Window, HeadTries
    <3>3. SendTypes' /\ (defer_inhibit \in BOOLEAN)' /\ Ordered'
      BY <2>2 DEF SendInv, SendTypes, Ordered
    <3>4. Sending'
      BY <2>2 DEF SendInv, Sending, Whole
    <3> QED
      BY <3>2, <3>3, <3>4 DEF SendInv
  <2> QED
    BY <2>1, <2>2
<1> QED
  BY <1>1, <1>2, PTL DEF Spec

\* The indices stay in the queue, and a packet is tried five times at most.
THEOREM SendTypeCorrect == Spec => []TypeOK
<1>1. SendInv => TypeOK
  <2> SUFFICES ASSUME SendInv PROVE TypeOK
    OBVIOUS
  <2>1. PICK r \in Nat : Window(r)
    BY DEF SendInv
  <2>2. q_rd \in Slots /\ q_wr \in Slots
    BY <2>1, SlotFacts DEF SendInv, SendTypes, Window
  <2>3. \A s \in Slots : queue[s] \in QueueRecs
    BY DEF SendInv, SendTypes
  <2>4. \A s \in Slots : queue[s].tries \in 0..5 /\ queue[s].dst \in Dsts
                         /\ queue[s].pkt \in 0..MaxPackets /\ queue[s].buf_size = 0
    BY <2>3 DEF QueueRecs
  <2> QED
    BY <2>2, <2>4 DEF SendInv, SendTypes, TypeOK
<1> QED
  BY <1>1, SendInvariant, PTL

\* ip_send reports success exactly for packets that have left whole, although
\* ip_send_fragments moves the payload within its own buffer.
THEOREM SentAreWhole == Spec => []SentExactlyIfWhole
<1>1. SendInv => SentExactlyIfWhole
  <2>1. Whole \in BOOLEAN
    BY DEF Whole
  <2>2. (result = "sent" <=> Whole) => (result = "sent") = Whole
    BY <2>1
  <2> QED
    BY <2>2, Zenon DEF SendInv, Sending, SentExactlyIfWhole
<1> QED
  BY <1>1, SendInvariant, PTL

\* ip_defer_handler sends what ip_defer_push has queued, once and in its order.
THEOREM DeferredLeaveInOrder == Spec => []DeferredInOrder
<1>1. SendInv => DeferredInOrder
  <2> SUFFICES ASSUME SendInv PROVE DeferredInOrder
    OBVIOUS
  <2>1. PICK r \in Nat : Window(r)
    BY DEF SendInv
  <2>2. DOMAIN popped = 1 .. Len(popped) /\ DOMAIN pushed = 1 .. Len(pushed)
    BY DEF SendInv, SendTypes
  <2>3. \A i \in DOMAIN popped : \E j \in DOMAIN pushed : pushed[j] = popped[i]
    BY <2>1, <2>2 DEF Window
  <2> QED
    BY <2>2, <2>3 DEF SendInv, Ordered, DeferredInOrder
<1> QED
  BY <1>1, SendInvariant, PTL
=============================================================================
