---------------------------- MODULE QueueRProofs ----------------------------
(***************************************************************************)
(* Machine-checked proofs about the queue_r ring, for every ring length,   *)
(* every set of datagrams and every bound on queue_discard's argument.     *)
(***************************************************************************)
EXTENDS QueueR, SequenceTheorems, TLAPS

-----------------------------------------------------------------------------
(* Arithmetic of the ring.                                                 *)

\* (index + 1) % a_len is the successor in the ring.
LEMMA NextElementIs ==
    ASSUME NEW i \in Slots
    PROVE  NextElement(i) = (IF i + 1 < ALen THEN i + 1 ELSE 0)
<1>1. ALen \in Nat /\ ALen > 0 /\ i \in 0 .. ALen - 1
  BY QueueAssumption DEF Slots
<1>2. CASE i + 1 < ALen
  BY <1>1, <1>2, SMT DEF NextElement
<1>3. CASE i + 1 = ALen
  BY <1>1, <1>3, SMT DEF NextElement
<1> QED
  BY <1>1, <1>2, <1>3

\* Committing moves the end of the window one slot on.
LEMMA DistCommit ==
    ASSUME NEW r \in Slots, NEW w \in Slots, NextElement(w) # r
    PROVE  /\ NextElement(w) \in Slots
           /\ Dist(r, NextElement(w)) = Dist(r, w) + 1
           /\ SlotAfter(r, Dist(r, w)) = w
  BY NextElementIs, QueueAssumption DEF Dist, SlotAfter, Slots

\* Discarding moves the start of a non-empty window one slot on.
LEMMA DistDiscard ==
    ASSUME NEW r \in Slots, NEW w \in Slots, r # w
    PROVE  /\ NextElement(r) \in Slots
           /\ Dist(r, w) > 0
           /\ Dist(NextElement(r), w) = Dist(r, w) - 1
           /\ \A i \in 0 .. ALen - 2 :
                  SlotAfter(NextElement(r), i) = SlotAfter(r, i + 1)
  BY NextElementIs, QueueAssumption DEF Dist, SlotAfter, Slots

\* Clearing up to slot c inside the window.
LEMMA DistClear ==
    ASSUME NEW r \in Slots, NEW w \in Slots, NEW c \in Slots,
           Dist(r, c) <= Dist(r, w)
    PROVE  /\ Dist(c, w) = Dist(r, w) - Dist(r, c)
           /\ \A i \in 0 .. Dist(c, w) :
                  SlotAfter(c, i) = SlotAfter(r, i + Dist(r, c))
  BY QueueAssumption DEF Dist, SlotAfter, Slots

\* Basic bounds; the slot at m_write is not in the window.
LEMMA DistBasic ==
    ASSUME NEW r \in Slots, NEW w \in Slots
    PROVE  /\ Dist(r, w) \in 0 .. ALen - 1
           /\ Dist(r, w) = 0 <=> r = w
           /\ SlotAfter(r, 0) = r
           /\ \A i \in 0 .. ALen - 1 : SlotAfter(r, i) \in Slots
           /\ \A i \in 0 .. ALen - 1 : i < Dist(r, w) => SlotAfter(r, i) # w
  BY QueueAssumption DEF Dist, SlotAfter, Slots

-----------------------------------------------------------------------------
(* The inductive invariant.                                                *)

LEMMA InitRingInv == Init => RingInv
<1> SUFFICES ASSUME Init PROVE RingInv
  OBVIOUS
<1>1. 0 \in Slots
  BY QueueAssumption DEF Slots
<1>2. TypeOK
  BY <1>1, QueueAssumption DEF Init, TypeOK
<1>3. Dist(m_read, m_write) = 0
  BY <1>1, DistBasic DEF Init
<1>4. WindowInv
  BY <1>3 DEF WindowInv
<1>5. PushInv /\ PopInv /\ DeliveredWhole
  BY QueueAssumption DEF Init, PushInv, PopInv, Filling, DeliveredWhole
<1> QED
  BY <1>2, <1>4, <1>5 DEF RingInv

\* Only FillBegin and FillEnd write the data area, and they write the slot at
\* m_write, which is outside the window.
LEMMA FillKeepsWindow ==
    ASSUME RingInv, Filling, NEW v \in Values \cup {Torn},
           m_write' = m_write, m_read' = m_read,
           data' = [data EXCEPT ![pidx] = v]
    PROVE  WindowInv'
<1>1. m_read \in Slots /\ m_write \in Slots /\ pidx = m_write
  BY DEF RingInv, TypeOK, PushInv
<1> SUFFICES ASSUME NEW i \in 0 .. ALen - 1, i < Dist(m_read, m_write)
             PROVE  data'[SlotAfter(m_read, i)] \in Values
  BY DEF WindowInv
<1>2. SlotAfter(m_read, i) # m_write /\ SlotAfter(m_read, i) \in Slots
  BY <1>1, DistBasic
<1> QED
  BY <1>1, <1>2 DEF RingInv, TypeOK, WindowInv

LEMMA PushKeepsRingInv == RingInv /\ Push => RingInv'
<1> SUFFICES ASSUME RingInv, Push PROVE RingInv'
  OBVIOUS
<1> USE DEF RingInv
<1>0. m_read \in Slots /\ m_write \in Slots
  BY DEF TypeOK
<1>1. CASE QueueAlloc
  <2>1. TypeOK' /\ PushInv' /\ DeliveredWhole'
    BY <1>1 DEF QueueAlloc, TypeOK, PushInv, Filling, DeliveredWhole, popVars
  <2>2. PopInv' /\ WindowInv'
    BY <1>1 DEF QueueAlloc, PopInv, WindowInv, popVars
  <2> QED BY <2>1, <2>2
<1>2. CASE FillBegin
  <2>1. Filling
    BY <1>2 DEF FillBegin, Filling
  <2>2. TypeOK' /\ PushInv' /\ DeliveredWhole'
    BY <1>2, <2>1 DEF FillBegin, TypeOK, PushInv, Filling, DeliveredWhole, popVars
  <2>3. PopInv'
    BY <1>2, <2>1 DEF FillBegin, PopInv, PushInv, TypeOK, popVars
  <2>4. WindowInv'
    BY <1>2, <2>1, FillKeepsWindow DEF FillBegin
  <2> QED BY <2>2, <2>3, <2>4
<1>3. ASSUME NEW v \in Values, FillEnd(v) PROVE RingInv'
  <2>1. Filling
    BY <1>3 DEF FillEnd, Filling
  <2>2. TypeOK' /\ PushInv' /\ DeliveredWhole'
    BY <1>3, <2>1 DEF FillEnd, TypeOK, PushInv, Filling, DeliveredWhole, popVars
  <2>3. PopInv'
    BY <1>3, <2>1 DEF FillEnd, PopInv, PushInv, TypeOK, popVars
  <2>4. WindowInv'
    BY <1>3, <2>1, FillKeepsWindow DEF FillEnd
  <2> QED BY <2>2, <2>3, <2>4
<1>4. CASE QueueCommit
  <2>1. /\ NextElement(m_write) # m_read
        /\ data[m_write] \in Values
    BY <1>4 DEF QueueCommit, PushInv, Filling
  <2>2. /\ m_write' \in Slots
        /\ Dist(m_read, m_write') = Dist(m_read, m_write) + 1
        /\ SlotAfter(m_read, Dist(m_read, m_write)) = m_write
        /\ Dist(m_read, m_write) \in 0 .. ALen - 1
    BY <1>0, <1>4, <2>1, DistCommit, DistBasic DEF QueueCommit
  <2>3. TypeOK' /\ PushInv' /\ DeliveredWhole'
    BY <1>4, <2>2 DEF QueueCommit, TypeOK, PushInv, Filling, DeliveredWhole, popVars
  <2>4. PopInv'
    <3>1. Dist(m_read, cidx) \in Int
      BY <1>0, DistBasic DEF TypeOK
    <3>2. UNCHANGED <<m_read, data, cpc, cidx, left, got>>
      BY <1>4 DEF QueueCommit, popVars
    <3>3. m_read # m_write' /\ Dist(m_read, m_write') = Dist(m_read, m_write) + 1
      BY <1>4, <2>1, <2>2 DEF QueueCommit
    <3> QED
      BY <2>2, <3>1, <3>2, <3>3 DEF PopInv
  <2>5. WindowInv'
    BY <1>4, <2>1, <2>2 DEF QueueCommit, WindowInv
  <2> QED BY <2>3, <2>4, <2>5
<1> QED
  BY <1>1, <1>2, <1>3, <1>4 DEF Push

\* The popping thread never writes the data area; what it changes besides its
\* own locals is m_read.
LEMMA PopKeepsRingInv == RingInv /\ Pop => RingInv'
<1> SUFFICES ASSUME RingInv, Pop PROVE RingInv'
  OBVIOUS
<1> USE DEF RingInv
<1>0. m_read \in Slots /\ m_write \in Slots /\ cidx \in Slots
  BY DEF TypeOK
<1>1. CASE QueuePeek
  BY <1>1 DEF QueuePeek, TypeOK, PushInv, PopInv, WindowInv, Filling,
              DeliveredWhole, pushVars
<1>2. CASE CopyBegin
  <2>1. cidx = m_read /\ m_read # m_write
    BY <1>2 DEF CopyBegin, PopInv
  <2>2. 0 \in 0 .. ALen - 1 /\ 0 < Dist(m_read, m_write) /\ SlotAfter(m_read, 0) = cidx
    BY <1>0, <2>1, DistBasic, QueueAssumption
  <2>3. data[cidx] \in Values
    BY <2>2 DEF WindowInv
  <2> QED
    BY <1>2, <2>3, QueueAssumption
       DEF CopyBegin, TypeOK, PushInv, PopInv, WindowInv, Filling,
           DeliveredWhole, pushVars
<1>3. CASE CopyEnd
  BY <1>3 DEF CopyEnd, TypeOK, PushInv, PopInv, WindowInv, Filling,
              DeliveredWhole, pushVars
<1>4. CASE KeepElement
  BY <1>4 DEF KeepElement, TypeOK, PushInv, PopInv, WindowInv, Filling,
              DeliveredWhole, pushVars
<1>5. ASSUME NEW n \in 1..MaxDiscard, QueueDiscard(n) PROVE RingInv'
  BY <1>5, QueueAssumption
     DEF QueueDiscard, TypeOK, PushInv, PopInv, WindowInv, Filling,
         DeliveredWhole, pushVars
<1>6. CASE DiscardReturn
  BY <1>6, QueueAssumption
     DEF DiscardReturn, TypeOK, PushInv, PopInv, WindowInv, Filling,
         DeliveredWhole, pushVars
<1>7. CASE DiscardTest
  BY <1>7 DEF DiscardTest, TypeOK, PushInv, PopInv, WindowInv, Filling,
              DeliveredWhole, pushVars
<1>8. CASE DiscardAdvance
  <2>1. m_read # m_write /\ left > 0
    BY <1>8 DEF DiscardAdvance, PopInv
  <2>2. /\ m_read' \in Slots
        /\ Dist(m_read, m_write) \in 0 .. ALen - 1
        /\ Dist(m_read', m_write) = Dist(m_read, m_write) - 1
        /\ \A i \in 0 .. ALen - 2 : SlotAfter(m_read', i) = SlotAfter(m_read, i + 1)
    BY <1>0, <1>8, <2>1, DistDiscard, DistBasic DEF DiscardAdvance
  <2>3. TypeOK' /\ DeliveredWhole'
    BY <1>8, <2>1, <2>2, QueueAssumption
       DEF DiscardAdvance, TypeOK, DeliveredWhole, pushVars
  <2>4. PushInv'
    <3>1. Filling => NextElement(m_write) # m_read'
      BY <1>0, <1>8, <2>1, NextElementIs, QueueAssumption DEF DiscardAdvance, Slots
    <3> QED
      BY <1>8, <3>1 DEF DiscardAdvance, PushInv, Filling, pushVars
  <2>5. PopInv'
    BY <1>8 DEF DiscardAdvance, PopInv
  <2>6. WindowInv'
    <3> SUFFICES ASSUME NEW i \in 0 .. ALen - 1, i < Dist(m_read', m_write)
                 PROVE  data[SlotAfter(m_read', i)] \in Values
      BY <1>8 DEF DiscardAdvance, WindowInv
    <3>1. i \in 0 .. ALen - 2 /\ i + 1 \in 0 .. ALen - 1 /\ i + 1 < Dist(m_read, m_write)
      BY <2>2, QueueAssumption
    <3> QED
      BY <2>2, <3>1 DEF WindowInv
  <2> QED BY <2>3, <2>4, <2>5, <2>6
<1>9. CASE ClearFromPopEndLoad
  <2>1. Dist(m_read, m_write) \in Int
    BY <1>0, DistBasic
  <2>2. Dist(m_read, m_write) <= Dist(m_read, m_write)
    BY <2>1
  <2>3. PopInv'
    BY <1>9, <2>2 DEF ClearFromPopEndLoad, PopInv
  <2> QED
    BY <1>9, <2>3 DEF ClearFromPopEndLoad, TypeOK, PushInv, WindowInv, Filling,
                      DeliveredWhole, pushVars
<1>10. CASE ClearFromPopEndStore
  <2>1. Dist(m_read, cidx) <= Dist(m_read, m_write) /\ m_read' = cidx
    BY <1>10 DEF ClearFromPopEndStore, PopInv
  <2>2. /\ Dist(cidx, m_write) = Dist(m_read, m_write) - Dist(m_read, cidx)
        /\ \A i \in 0 .. Dist(cidx, m_write) :
               SlotAfter(cidx, i) = SlotAfter(m_read, i + Dist(m_read, cidx))
        /\ Dist(m_read, cidx) \in 0 .. ALen - 1
        /\ Dist(m_read, m_write) \in 0 .. ALen - 1
    BY <1>0, <2>1, DistClear, DistBasic
  <2>3. TypeOK' /\ DeliveredWhole'
    BY <1>0, <1>10, <2>1 DEF ClearFromPopEndStore, TypeOK, DeliveredWhole, pushVars
  <2>4. PushInv'
    <3>1. NextElement(m_write) # m_read => NextElement(m_write) # cidx
      BY <1>0, <2>1, NextElementIs, QueueAssumption DEF Slots, Dist
    <3> QED
      BY <1>10, <3>1 DEF ClearFromPopEndStore, PushInv, Filling, pushVars
  <2>5. PopInv'
    BY <1>10 DEF ClearFromPopEndStore, PopInv
  <2>6. WindowInv'
    <3> SUFFICES ASSUME NEW i \in 0 .. ALen - 1, i < Dist(cidx, m_write)
                 PROVE  data[SlotAfter(cidx, i)] \in Values
      BY <1>10 DEF ClearFromPopEndStore, WindowInv
    <3> DEFINE j == i + Dist(m_read, cidx)
    <3>1. i \in 0 .. Dist(cidx, m_write) /\ j \in 0 .. ALen - 1 /\ j < Dist(m_read, m_write)
      BY <2>2, QueueAssumption
    <3> QED
      BY <2>2, <3>1 DEF WindowInv
  <2> QED BY <2>3, <2>4, <2>5, <2>6
<1> QED
  BY <1>1, <1>2, <1>3, <1>4, <1>5, <1>6, <1>7, <1>8, <1>9, <1>10 DEF Pop

LEMMA StutterKeepsRingInv == RingInv /\ UNCHANGED vars => RingInv'
  BY DEF RingInv, TypeOK, PushInv, PopInv, WindowInv, Filling, DeliveredWhole,
         vars, pushVars, popVars

\* The ring of util/queue_r.c keeps RingInv whatever its length and however
\* the two threads interleave.
THEOREM RingInvariant == Spec => []RingInv
<1>1. Init => RingInv
  BY InitRingInv
<1>2. RingInv /\ [Next]_vars => RingInv'
  BY PushKeepsRingInv, PopKeepsRingInv, StutterKeepsRingInv DEF Next
<1> QED
  BY <1>1, <1>2, PTL DEF Spec

\* The indices stay inside the ring and every variable keeps its type.
THEOREM TypeCorrect == Spec => []TypeOK
<1>1. RingInv => TypeOK
  BY DEF RingInv
<1> QED
  BY <1>1, RingInvariant, PTL

\* The slot being filled is never the slot being copied.
THEOREM SlotsExclusive == Spec => []SlotExclusion
<1>1. RingInv => SlotExclusion
  BY DEF RingInv, PushInv, PopInv, SlotExclusion, Copying
<1> QED
  BY <1>1, RingInvariant, PTL

\* The reader never sees anything but a whole, committed datagram.
THEOREM ReadsWhole == Spec => []DeliveredWhole
<1>1. RingInv => DeliveredWhole
  BY DEF RingInv
<1> QED
  BY <1>1, RingInvariant, PTL

-----------------------------------------------------------------------------
(* The ring implements the bounded FIFO.                                   *)

\* In every state of the invariant Contents is a sequence of datagrams.
ContentsOK ==
    /\ Contents \in Seq(Values)
    /\ Len(Contents) = Dist(m_read, m_write)
    /\ Dist(m_read, m_write) \in 0 .. ALen - 1
    /\ \A i \in 1 .. Dist(m_read, m_write) :
           Contents[i] = data[SlotAfter(m_read, i - 1)]

LEMMA ContentsIs == RingInv => ContentsOK
<1> SUFFICES ASSUME RingInv PROVE ContentsOK
  OBVIOUS
<1> DEFINE n == Dist(m_read, m_write)
<1>1. n \in 0 .. ALen - 1
  BY DistBasic DEF RingInv, TypeOK
<1>2. \A i \in 1 .. n : data[SlotAfter(m_read, i - 1)] \in Values
  <2> SUFFICES ASSUME NEW i \in 1 .. n
               PROVE  data[SlotAfter(m_read, i - 1)] \in Values
    OBVIOUS
  <2>1. i - 1 \in 0 .. ALen - 1 /\ i - 1 < n
    BY <1>1, QueueAssumption
  <2> QED
    BY <2>1 DEF RingInv, WindowInv
<1>3. Contents \in [1 .. n -> Values]
  BY <1>2 DEF Contents
<1>4. Contents \in Seq(Values) /\ Len(Contents) = n
  BY <1>1, <1>3, LenProperties
<1> QED
  BY <1>1, <1>4 DEF Contents, ContentsOK

LEMMA ContentsIsNext == RingInv' => ContentsOK'
  BY ContentsIs, PTL

\* queue_commit appends the slot that was filled.
LEMMA CommitAppends ==
    ASSUME RingInv, RingInv', QueueCommit
    PROVE  /\ data[m_write] \in Values
           /\ Len(Contents) < ALen - 1
           /\ Contents' = Append(Contents, data[m_write])
<1>1. m_read \in Slots /\ m_write \in Slots
  BY DEF RingInv, TypeOK
<1>2. NextElement(m_write) # m_read /\ data[m_write] \in Values
  BY DEF QueueCommit, RingInv, PushInv, Filling
<1> DEFINE n == Dist(m_read, m_write)
           A == Append(Contents, data[m_write])
<1>3. /\ Dist(m_read, m_write') = n + 1
      /\ SlotAfter(m_read, n) = m_write
      /\ m_read' = m_read /\ data' = data
  BY <1>1, <1>2, DistCommit DEF QueueCommit
<1>4. Dist(m_read, m_write') \in 0 .. ALen - 1
  BY <1>1, <1>2, DistCommit, DistBasic DEF QueueCommit
<1>5. /\ A \in Seq(Values) /\ Len(A) = n + 1
      /\ \A i \in 1 .. n : A[i] = Contents[i]
      /\ A[n + 1] = data[m_write]
  BY <1>2, ContentsIs, AppendProperties DEF ContentsOK
<1>6. Contents' \in Seq(Values) /\ Len(Contents') = n + 1
  BY <1>3, ContentsIsNext DEF ContentsOK
<1>7. ASSUME NEW i \in 1 .. n + 1 PROVE Contents'[i] = A[i]
  <2>1. Contents'[i] = data[SlotAfter(m_read, i - 1)]
    BY <1>3, ContentsIsNext DEF ContentsOK
  <2>2. n \in Nat
    BY ContentsIs DEF ContentsOK
  <2>3. CASE i = n + 1
    BY <1>3, <1>5, <2>1, <2>2, <2>3
  <2>4. CASE i \in 1 .. n
    BY <1>5, <2>1, <2>4, ContentsIs DEF ContentsOK
  <2>5. i = n + 1 \/ i \in 1 .. n
    BY <2>2
  <2> QED
    BY <2>3, <2>4, <2>5
<1>8. Contents' = A
  BY <1>5, <1>6, <1>7, SeqEqual
<1> QED
  BY <1>2, <1>3, <1>4, <1>8, ContentsIs, QueueAssumption DEF ContentsOK

\* Moving m_read k slots on inside the window removes the k oldest elements.
LEMMA AdvanceRemoves ==
    ASSUME RingInv, RingInv', m_write' = m_write, data' = data,
           NEW k \in 0 .. Dist(m_read, m_write),
           Dist(m_read', m_write) = Dist(m_read, m_write) - k,
           \A i \in 0 .. Dist(m_read', m_write) - 1 :
               SlotAfter(m_read', i) = SlotAfter(m_read, i + k)
    PROVE  Contents' = SubSeq(Contents, k + 1, Len(Contents))
<1> DEFINE n == Dist(m_read, m_write)
           S == SubSeq(Contents, k + 1, n)
<1>1. n \in Nat /\ Len(Contents) = n /\ Contents \in Seq(Values)
  BY ContentsIs DEF ContentsOK
<1>2. \A i \in k + 1 .. n : Contents[i] \in Values
  BY <1>1, ElementOfSeq
<1>3. /\ S \in Seq(Values)
      /\ Len(S) = (IF k + 1 <= n THEN n - (k + 1) + 1 ELSE 0)
      /\ \A i \in 1 .. n - (k + 1) + 1 : S[i] = Contents[k + 1 + i - 1]
  BY <1>1, <1>2, SubSeqProperties
<1>4. Len(S) = n - k
  BY <1>1, <1>3
<1>5. Contents' \in Seq(Values) /\ Len(Contents') = n - k
  BY ContentsIsNext DEF ContentsOK
<1>6. ASSUME NEW i \in 1 .. n - k PROVE Contents'[i] = S[i]
  <2>1. i \in Int /\ i - 1 \in 0 .. (n - k) - 1 /\ i + k \in 1 .. n /\ i - 1 + k = i + k - 1
    BY <1>1
  <2>2. Contents'[i] = data[SlotAfter(m_read', i - 1)]
    BY ContentsIsNext DEF ContentsOK
  <2>3. SlotAfter(m_read', i - 1) = SlotAfter(m_read, i + k - 1)
    BY <2>1
  <2>4. Contents[i + k] = data[SlotAfter(m_read, i + k - 1)]
    BY <2>1, ContentsIs DEF ContentsOK
  <2>5. S[i] = Contents[i + k]
    <3>1. i \in 1 .. n - (k + 1) + 1 /\ k + 1 + i - 1 = i + k
      BY <1>1
    <3> QED
      BY <1>3, <3>1
  <2> QED
    BY <2>2, <2>3, <2>4, <2>5
<1>7. Contents' = S
  BY <1>3, <1>4, <1>5, <1>6, SeqEqual
<1> QED
  BY <1>1, <1>7

\* The store of queue_discard removes the oldest element.
LEMMA DiscardDrops ==
    ASSUME RingInv, RingInv', DiscardAdvance
    PROVE  Contents # << >> /\ Contents' = Tail(Contents)
<1>1. m_read \in Slots /\ m_write \in Slots /\ m_read # m_write
  BY DEF RingInv, TypeOK, PopInv, DiscardAdvance
<1>2. m_write' = m_write /\ data' = data /\ m_read' = NextElement(m_read)
  BY DEF DiscardAdvance
<1>3. /\ Dist(m_read, m_write) \in 1 .. ALen - 1
      /\ Dist(m_read', m_write) = Dist(m_read, m_write) - 1
      /\ \A i \in 0 .. ALen - 2 : SlotAfter(m_read', i) = SlotAfter(m_read, i + 1)
  <2>1. Dist(m_read, m_write) \in 0 .. ALen - 1
    BY <1>1, DistBasic
  <2> QED
    BY <1>1, <1>2, <2>1, DistDiscard
<1>4. \A i \in 0 .. Dist(m_read', m_write) - 1 : i \in 0 .. ALen - 2
  BY <1>3, QueueAssumption
<1>5. 1 \in 0 .. Dist(m_read, m_write)
  BY <1>3
<1>6. Contents' = SubSeq(Contents, 1 + 1, Len(Contents))
  BY <1>2, <1>3, <1>4, <1>5, AdvanceRemoves
<1>7. Contents \in Seq(Values) /\ Len(Contents) # 0
  BY <1>3, ContentsIs DEF ContentsOK
<1>8. Contents # << >>
  BY <1>7, EmptySeq
<1> QED
  BY <1>6, <1>7, <1>8, TailIsSubSeq

\* The store of queue_clear_from_pop_end removes what was queued at its load.
LEMMA ClearRemoves ==
    ASSUME RingInv, RingInv', ClearFromPopEndStore
    PROVE  /\ Dist(m_read, cidx) \in 0 .. Len(Contents)
           /\ Contents' = SubSeq(Contents, Dist(m_read, cidx) + 1, Len(Contents))
<1>1. /\ m_read \in Slots /\ m_write \in Slots /\ cidx \in Slots
      /\ Dist(m_read, cidx) <= Dist(m_read, m_write)
  BY DEF RingInv, TypeOK, PopInv, ClearFromPopEndStore
<1>2. m_write' = m_write /\ data' = data /\ m_read' = cidx
  BY DEF ClearFromPopEndStore
<1>3. /\ Dist(m_read, cidx) \in 0 .. Dist(m_read, m_write)
      /\ Dist(cidx, m_write) \in Nat
  BY <1>1, DistBasic
<1>4. /\ Dist(m_read', m_write) = Dist(m_read, m_write) - Dist(m_read, cidx)
      /\ \A i \in 0 .. Dist(m_read', m_write) - 1 :
             SlotAfter(m_read', i) = SlotAfter(m_read, i + Dist(m_read, cidx))
  BY <1>1, <1>2, <1>3, DistClear
<1> QED
  BY <1>2, <1>3, <1>4, AdvanceRemoves, ContentsIs DEF ContentsOK

\* A step that leaves both indices and the slots of the window alone leaves
\* the queue alone.
LEMMA SameContents ==
    ASSUME RingInv, RingInv', UNCHANGED <<m_write, m_read>>,
           \A s \in Slots : s # m_write => data'[s] = data[s]
    PROVE  Contents' = Contents
<1>1. ContentsOK /\ ContentsOK'
  BY ContentsIs, ContentsIsNext
<1>2. m_read \in Slots /\ m_write \in Slots
  BY DEF RingInv, TypeOK
<1>3. ASSUME NEW i \in 1 .. Dist(m_read, m_write) PROVE Contents'[i] = Contents[i]
  <2>0. Dist(m_read, m_write) \in 0 .. ALen - 1
    BY <1>1 DEF ContentsOK
  <2>1. i - 1 \in 0 .. ALen - 1 /\ i - 1 < Dist(m_read, m_write)
    BY <2>0, QueueAssumption
  <2>2. SlotAfter(m_read, i - 1) \in Slots /\ SlotAfter(m_read, i - 1) # m_write
    BY <1>2, <2>1, DistBasic
  <2> QED
    BY <1>1, <2>2 DEF ContentsOK
<1> QED
  BY <1>1, <1>3, SeqEqual DEF ContentsOK

LEMMA InitRefines == Init => Fifo!Init
<1> SUFFICES ASSUME Init PROVE Fifo!Init
  OBVIOUS
<1>1. ContentsOK /\ Dist(m_read, m_write) = 0
  BY InitRingInv, ContentsIs, DistBasic DEF Init, RingInv, TypeOK
<1>2. Contents = << >>
  BY <1>1, EmptySeq DEF ContentsOK
<1> QED
  BY <1>2 DEF Init, Fifo!Init, Doomed

LEMMA PushRefines ==
    ASSUME RingInv, RingInv', Push
    PROVE  [Fifo!Next]_(Fifo!fifoVars)
<1>0. m_read \in Slots /\ m_write \in Slots
  BY DEF RingInv, TypeOK
<1>1. CASE QueueAlloc
  <2>1. Contents' = Contents
    BY <1>1, SameContents DEF QueueAlloc
  <2> QED
    BY <1>1, <2>1 DEF QueueAlloc, Fifo!fifoVars, Doomed, popVars
<1>2. CASE FillBegin
  <2>1. Contents' = Contents
    BY <1>2, SameContents DEF FillBegin, RingInv, PushInv, Filling, TypeOK
  <2> QED
    BY <1>2, <2>1 DEF FillBegin, Fifo!fifoVars, Doomed, popVars
<1>3. ASSUME NEW v \in Values, FillEnd(v) PROVE UNCHANGED Fifo!fifoVars
  <2>1. Contents' = Contents
    BY <1>3, SameContents DEF FillEnd, RingInv, PushInv, Filling, TypeOK
  <2> QED
    BY <1>3, <2>1 DEF FillEnd, Fifo!fifoVars, Doomed, popVars
<1>4. CASE QueueCommit
  <2>1. /\ data[m_write] \in Values
        /\ Len(Contents) < ALen - 1
        /\ Contents' = Append(Contents, data[m_write])
    BY <1>4, CommitAppends
  <2>2. got' = got /\ Doomed' = Doomed
    BY <1>4 DEF QueueCommit, Doomed, popVars
  <2>3. Fifo!Push(data[m_write])
    BY <2>1, <2>2 DEF Fifo!Push
  <2> QED
    BY <2>1, <2>3 DEF Fifo!Next
<1> QED
  BY <1>1, <1>2, <1>3, <1>4 DEF Push

LEMMA PopRefines ==
    ASSUME RingInv, RingInv', Pop
    PROVE  [Fifo!Next]_(Fifo!fifoVars)
<1>0. m_read \in Slots /\ m_write \in Slots /\ cidx \in Slots
  BY DEF RingInv, TypeOK
<1>1. ASSUME UNCHANGED <<m_write, m_read, data>> PROVE Contents' = Contents
  BY <1>1, SameContents
<1>2. CASE QueuePeek
  BY <1>1, <1>2 DEF QueuePeek, Fifo!fifoVars, Doomed
<1>3. CASE CopyBegin
  <2>1. cidx = m_read /\ m_read # m_write /\ got' = data[m_read]
    BY <1>3 DEF CopyBegin, RingInv, PopInv
  <2>2. Dist(m_read, m_write) \in 1 .. ALen - 1 /\ SlotAfter(m_read, 1 - 1) = m_read
    <3>1. Dist(m_read, m_write) \in 0 .. ALen - 1 /\ Dist(m_read, m_write) # 0
      BY <1>0, <2>1, DistBasic
    <3> QED
      BY <1>0, <3>1, DistBasic, QueueAssumption
  <2>3. Contents # << >> /\ got' = Head(Contents)
    <3>1. Contents \in Seq(Values) /\ Len(Contents) > 0 /\ Contents[1] = data[m_read]
      BY <2>2, ContentsIs DEF ContentsOK
    <3>2. Contents # << >>
      BY <3>1, EmptySeq
    <3> QED
      BY <2>1, <3>1, <3>2
  <2>4. Doomed = -1 /\ Doomed' = -1 /\ Contents' = Contents
    BY <1>1, <1>3 DEF CopyBegin, Doomed
  <2> QED
    BY <2>3, <2>4 DEF Fifo!Look, Fifo!Next
<1>4. CASE CopyEnd
  <2>1. got' = got
    BY <1>4 DEF CopyEnd, RingInv, PopInv
  <2> QED
    BY <1>1, <1>4, <2>1 DEF CopyEnd, Fifo!fifoVars, Doomed
<1>5. CASE KeepElement
  BY <1>1, <1>5 DEF KeepElement, Fifo!fifoVars, Doomed
<1>6. ASSUME NEW n \in 1..MaxDiscard, QueueDiscard(n) PROVE UNCHANGED Fifo!fifoVars
  BY <1>1, <1>6 DEF QueueDiscard, Fifo!fifoVars, Doomed
<1>7. CASE DiscardReturn
  BY <1>1, <1>7 DEF DiscardReturn, Fifo!fifoVars, Doomed
<1>8. CASE DiscardTest
  BY <1>1, <1>8 DEF DiscardTest, Fifo!fifoVars, Doomed
<1>9. CASE DiscardAdvance
  <2>1. Contents # << >> /\ Contents' = Tail(Contents)
    BY <1>9, DiscardDrops
  <2>2. Doomed = -1 /\ Doomed' = -1 /\ got' = got
    BY <1>9 DEF DiscardAdvance, Doomed
  <2> QED
    BY <2>1, <2>2 DEF Fifo!Drop, Fifo!Next
<1>10. CASE ClearFromPopEndLoad
  <2>1. Doomed = -1 /\ got' = got /\ Contents' = Contents
    BY <1>1, <1>10 DEF ClearFromPopEndLoad, Doomed
  <2>2. Doomed' = Len(Contents)
    BY <1>10, ContentsIs DEF ClearFromPopEndLoad, Doomed, ContentsOK
  <2> QED
    BY <2>1, <2>2 DEF Fifo!ClearBegin, Fifo!Next
<1>11. CASE ClearFromPopEndStore
  <2>1. Doomed = Dist(m_read, cidx) /\ Doomed' = -1 /\ got' = got
    BY <1>11 DEF ClearFromPopEndStore, Doomed
  <2> QED
    BY <1>11, <2>1, ClearRemoves DEF Fifo!ClearEnd, Fifo!Next
<1> QED
  BY <1>2, <1>3, <1>4, <1>5, <1>6, <1>7, <1>8, <1>9, <1>10, <1>11 DEF Pop

\* The lock-free ring of util/queue_r.c implements the bounded FIFO that
\* include/queue_r.h describes, for every ring length.
THEOREM RingImplementsFifo == Spec => FifoSpec
<1>1. Init => Fifo!Init
  BY InitRefines
<1>2. RingInv /\ RingInv' /\ [Next]_vars => [Fifo!Next]_(Fifo!fifoVars)
  <2>1. ASSUME RingInv, RingInv', UNCHANGED vars PROVE UNCHANGED Fifo!fifoVars
    <3>1. UNCHANGED <<m_write, m_read, data, cpc, cidx, got>>
      BY <2>1 DEF vars, popVars
    <3>2. Contents' = Contents
      BY <2>1, <3>1, SameContents
    <3> QED
      BY <3>1, <3>2 DEF Fifo!fifoVars, Doomed
  <2> QED
    BY <2>1, PushRefines, PopRefines DEF Next
<1> QED
  BY <1>1, <1>2, RingInvariant, PTL DEF Spec, FifoSpec, Fifo!Spec
=============================================================================
