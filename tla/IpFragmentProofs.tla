-------------------------- MODULE IpFragmentProofs --------------------------
(***************************************************************************)
(* Machine-checked proofs about the reassembly of IP packets, for any      *)
(* number of buffers, any size of the fragment map and any fragments of    *)
(* any packets.                                                            *)
(***************************************************************************)
EXTENDS IpFragment, WellFoundedInduction, TLAPS

-----------------------------------------------------------------------------
(* Induction.                                                              *)

NatLess == OpToRel(<, Nat)

\* A set of naturals that is not empty has a least element.
LEMMA LeastNat ==
    ASSUME NEW T \in SUBSET Nat, T # {}
    PROVE  \E x \in T : \A y \in T : x <= y
<1>1. NatLess = {p \in Nat \X Nat : p[1] < p[2]}
  BY Zenon DEF NatLess, OpToRel
<1>2. IsWellFoundedOn(NatLess, Nat)
  BY NatLessThanWellFounded, Zenon DEF NatLess
<1>3. \E x \in T : \A y \in T : <<y, x>> \notin NatLess
  BY <1>2, WFMin, Zenon
<1>4. PICK x \in T : \A y \in T : <<y, x>> \notin NatLess
  BY <1>3
<1>5. \A y \in T : <<y, x>> \in NatLess <=> y < x
  BY <1>1
<1>6. \A y \in T : ~ (y < x)
  BY <1>4, <1>5
<1> QED
  BY <1>6

-----------------------------------------------------------------------------
(* The inductive invariant.                                                *)

\* The part of the map that fragmap_init clears.
Cleared == FragMax \div 4

\* A buffer in use belongs to one packet: it knows its length or none, what is
\* marked in the cleared part was written by a fragment of the packet, and it
\* is not complete.
BufferOf(b, p) ==
    /\ key[b] = Key[p]
    /\ ip_len[b] # 0 => ip_len[b] = Length(p)
    /\ \A i \in fragmap[b] : i < Cleared => payload[b][i] = p
    /\ ~Complete(ip_len[b], fragmap[b])

BuffersInv == \A b \in linked : \E p \in Packets : BufferOf(b, p)

FragmentInv == TypeOK /\ OneBufferPerPacket /\ BuffersInv /\ SmallWhole

-----------------------------------------------------------------------------
(* Lemmas about the operators.                                             *)

\* The last fragment tells the length of its packet.
LEMMA LastTellsLength ==
    ASSUME NEW f \in Fragments, ~f.mf, Fits(f)
    PROVE  Length(f.pkt) = f.len + 8 * f.off /\ f.len + 8 * f.off # 0
<1> DEFINE last == CHOOSE g \in Fragments : g.pkt = f.pkt /\ ~g.mf
<1>1. last \in Fragments /\ last.pkt = f.pkt /\ ~last.mf
  OBVIOUS
<1>2. Length(f.pkt) = 8 * last.off + last.len
  BY DEF Length
<1> HIDE DEF last
<1>3. 8 * last.off + last.len = 8 * f.off + f.len
  BY <1>1, FragmentAssumption
<1>4. f.off \in Nat \ {0} /\ f.len \in Nat
  BY FragmentAssumption DEF Fits
<1> QED
  BY <1>2, <1>3, <1>4

LEMMA CoveredBlocks ==
    ASSUME NEW f \in Fragments, Fits(f)
    PROVE  Covered(f) \subseteq Blocks
<1>1. f.off \in Nat /\ f.len \in Nat /\ 8 * f.off + f.len <= 8 * FragMax - 1
  BY FragmentAssumption DEF Fits, IpMaxBytes
<1> QED
  BY <1>1, FragmentAssumption DEF Covered, Blocks, BlocksOf

\* get_packet_buffer gives a fragment the buffer of its packet or a free one.
LEMMA LowestFreeIsFree ==
    ASSUME Buffers \ reserved # {}
    PROVE  LowestFree \in Buffers \ reserved
<1>1. Buffers \ reserved \in SUBSET Nat
  BY FragmentAssumption DEF Buffers
<1>2. \E b \in Buffers \ reserved : \A c \in Buffers \ reserved : b <= c
  BY <1>1, LeastNat, Zenon
<1> QED
  BY <1>2 DEF LowestFree

\* What is known of the buffer b before and after the fragment f.
LEMMA FragmentBuffer ==
    ASSUME FragmentInv, NEW f \in Fragments, NEW b \in Buffers, GetPacketBuffer(f, b)
    PROVE  /\ f.pkt \in Packets
           /\ b \in Find(f) => b \in linked /\ BufferOf(b, f.pkt)
           /\ b \notin Find(f) => b \notin linked /\ Find(f) = {}
<1>1. f.pkt \in Packets
  BY FragmentAssumption
<1>2. ASSUME b \in Find(f) PROVE b \in linked /\ BufferOf(b, f.pkt)
  <2>1. b \in linked /\ key[b] = Key[f.pkt]
    BY <1>2 DEF Find
  <2>2. PICK p \in Packets : BufferOf(b, p)
    BY <2>1 DEF FragmentInv, BuffersInv
  <2>3. p = f.pkt
    BY <1>1, <2>1, <2>2, FragmentAssumption DEF BufferOf
  <2> QED
    BY <2>1, <2>2, <2>3
<1>3. ASSUME b \notin Find(f) PROVE b \notin linked /\ Find(f) = {}
  BY <1>3, LowestFreeIsFree DEF GetPacketBuffer, FragmentInv, OneBufferPerPacket
<1> QED
  BY <1>1, <1>2, <1>3

-----------------------------------------------------------------------------
(* Every step keeps the invariant.                                         *)

LEMMA InitFragmentInv == Init => FragmentInv
<1> SUFFICES ASSUME Init PROVE FragmentInv
  OBVIOUS
<1>1. TypeOK
  BY DEF Init, TypeOK
<1>2. OneBufferPerPacket /\ BuffersInv /\ SmallWhole
  BY DEF Init, OneBufferPerPacket, BuffersInv, SmallWhole
<1> QED
  BY <1>1, <1>2 DEF FragmentInv

LEMMA InputKeeps ==
    ASSUME FragmentInv, NEW f \in Fragments, FragmentInput(f)
    PROVE  FragmentInv'
<1>0. PICK b \in Buffers :
          LET fresh == b \notin Find(f)
              map   == (IF fresh THEN FragmapInit(fragmap[b]) ELSE fragmap[b]) \cup Covered(f)
              data  == [i \in Blocks |-> IF i \in Covered(f) THEN f.pkt ELSE payload[b][i]]
              len   == NewLength(f, IF fresh THEN 0 ELSE ip_len[b])
              done  == Complete(len, map)
          IN
          /\ GetPacketBuffer(f, b)
          /\ key' = [key EXCEPT ![b] = Key[f.pkt]]
          /\ fragmap' = [fragmap EXCEPT ![b] = map]
          /\ payload' = [payload EXCEPT ![b] = data]
          /\ ip_len' = [ip_len EXCEPT ![b] = len]
          /\ reserved' = IF done THEN reserved \ {b} ELSE reserved \cup {b}
          /\ linked' = IF done THEN linked \ {b} ELSE linked \cup {b}
          /\ passed' = IF done THEN passed \cup {PassedOn(Key[f.pkt], len, data)} ELSE passed
  BY DEF FragmentInput
<1>13. Fits(f) /\ overrun' = overrun
  BY DEF FragmentInput
<1> DEFINE fresh == b \notin Find(f)
           map   == (IF fresh THEN FragmapInit(fragmap[b]) ELSE fragmap[b]) \cup Covered(f)
           data  == [i \in Blocks |-> IF i \in Covered(f) THEN f.pkt ELSE payload[b][i]]
           len   == NewLength(f, IF fresh THEN 0 ELSE ip_len[b])
           done  == Complete(len, map)
           p     == f.pkt
<1>1. /\ p \in Packets
      /\ ~fresh => b \in linked /\ BufferOf(b, p)
      /\ fresh => b \notin linked /\ Find(f) = {}
  BY <1>0, FragmentBuffer
<1>2. len \in Nat /\ (len # 0 => len = Length(p))
  <2>1. f.off \in Nat /\ f.len \in Nat
    BY <1>13, FragmentAssumption DEF Fits
  <2>2. ip_len[b] \in Nat
    BY DEF FragmentInv, TypeOK
  <2> QED
    BY <1>13, <1>1, <2>1, <2>2, LastTellsLength DEF NewLength, BufferOf
<1>3. map \subseteq Blocks
  BY <1>13, CoveredBlocks DEF FragmentInv, TypeOK, FragmapInit
<1>4. data \in [Blocks -> Packets \cup {Nothing}]
  BY <1>1 DEF FragmentInv, TypeOK
\* What is marked in the cleared part is of this packet.
<1>5. ASSUME NEW i \in map, i < Cleared PROVE data[i] = p
  <2>1. i \in Blocks /\ i \in Nat
    BY <1>3 DEF Blocks
  <2>2. CASE i \in Covered(f)
    BY <2>1, <2>2
  <2>3. CASE i \notin Covered(f)
    <3>1. CASE fresh
      <4>1. i \in FragmapInit(fragmap[b])
        BY <1>5, <2>3, <3>1
      <4>2. i >= Cleared /\ Cleared \in Int
        BY <4>1, FragmentAssumption DEF FragmapInit, Cleared
      <4> QED
        BY <1>5, <2>1, <4>2
    <3>2. CASE ~fresh
      BY <1>1, <1>5, <2>1, <2>3, <3>2 DEF BufferOf
    <3> QED
      BY <3>1, <3>2
  <2> QED
    BY <2>2, <2>3
\* A complete packet of the cleared part is whole.
<1>6. ASSUME done, BlocksOf(len) <= Cleared
      PROVE  Whole(PassedOn(Key[p], len, data))
  <2>1. len \in Nat \ {0} /\ len = Length(p) /\ \A i \in 0 .. BlocksOf(len) - 1 : i \in map
    BY <1>2, <1>6 DEF Complete
  <2>2. BlocksOf(len) \in Nat \ {0}
    BY <2>1 DEF BlocksOf
  <2>3. \A i \in 0 .. BlocksOf(len) - 1 : i \in map /\ i < Cleared
    BY <1>6, <2>1, <2>2, FragmentAssumption DEF Cleared
  <2>4. \A i \in 0 .. BlocksOf(len) - 1 : data[i] = p
    BY <1>5, <2>3
  <2> HIDE DEF data, len
  <2>5. 0 \in 0 .. BlocksOf(len) - 1
    BY <2>2
  <2>6. {data[i] : i \in 0 .. BlocksOf(len) - 1} = {p}
    BY <2>4, <2>5
  <2> QED
    BY <1>1, <2>1, <2>6 DEF Whole, PassedOn
<1> DEFINE d == PassedOn(Key[p], len, data)
<1>7. d.length = len /\ (done => d.blocks \subseteq Packets \cup {Nothing})
  <2>1. done => \A i \in 0 .. BlocksOf(len) - 1 : i \in Blocks
    BY <1>3 DEF Complete
  <2> HIDE DEF data, len, done
  <2> QED
    BY <1>4, <2>1 DEF PassedOn
<1> HIDE DEF fresh, map, data, len, done, d, p
<1>8. /\ key' = [key EXCEPT ![b] = Key[p]] /\ fragmap' = [fragmap EXCEPT ![b] = map]
      /\ payload' = [payload EXCEPT ![b] = data] /\ ip_len' = [ip_len EXCEPT ![b] = len]
      /\ reserved' = IF done THEN reserved \ {b} ELSE reserved \cup {b}
      /\ linked' = IF done THEN linked \ {b} ELSE linked \cup {b}
      /\ passed' = IF done THEN passed \cup {d} ELSE passed
  BY <1>0 DEF fresh, map, data, len, done, d, p
<1>9. TypeOK'
  BY <1>13, <1>1, <1>2, <1>3, <1>4, <1>7, <1>8 DEF FragmentInv, TypeOK
<1>10. OneBufferPerPacket'
  <2>1. \A c \in linked \ {b} : key[c] # Key[p]
    BY <1>1 DEF FragmentInv, OneBufferPerPacket, BufferOf, Find, fresh, p
  <2>2. \A c \in Buffers \ {b} : key'[c] = key[c]
    BY <1>8 DEF FragmentInv, TypeOK
  <2>3. key'[b] = Key[p] /\ linked \subseteq Buffers
    BY <1>8 DEF FragmentInv, TypeOK
  <2> QED
    BY <1>8, <2>1, <2>2, <2>3 DEF FragmentInv, OneBufferPerPacket
<1>11. BuffersInv'
  <2> SUFFICES ASSUME NEW c \in linked'
               PROVE  \E q \in Packets : BufferOf(c, q)'
    BY DEF BuffersInv
  <2>1. CASE c # b
    <3>1. c \in linked /\ c \in Buffers
      BY <1>8, <2>1 DEF FragmentInv, TypeOK
    <3>2. PICK q \in Packets : BufferOf(c, q)
      BY <3>1 DEF FragmentInv, BuffersInv
    <3>3. /\ key'[c] = key[c] /\ ip_len'[c] = ip_len[c] /\ fragmap'[c] = fragmap[c]
          /\ payload'[c] = payload[c]
      BY <1>8, <2>1, <3>1 DEF FragmentInv, TypeOK
    <3> QED
      BY <3>2, <3>3 DEF BufferOf
  <2>2. CASE c = b
    <3>1. ~done
      BY <1>8, <2>2
    <3>2. key'[b] = Key[p] /\ ip_len'[b] = len /\ fragmap'[b] = map /\ payload'[b] = data
      BY <1>8 DEF FragmentInv, TypeOK
    <3>3. BufferOf(b, p)'
      BY <1>2, <1>5, <3>1, <3>2 DEF BufferOf, done
    <3> QED
      BY <1>1, <2>2, <3>3
  <2> QED
    BY <2>1, <2>2
<1>12. SmallWhole'
  BY <1>6, <1>7, <1>8 DEF FragmentInv, SmallWhole, Cleared, d
<1> QED
  BY <1>9, <1>10, <1>11, <1>12 DEF FragmentInv

-----------------------------------------------------------------------------
(* The theorems.                                                           *)

\* ip_fragment_input keeps FragmentInv, whatever fragments arrive, in whatever
\* order and however often.
THEOREM FragmentInvariant == Spec => []FragmentInv
<1>1. Init => FragmentInv
  BY InitFragmentInv
<1>2. FragmentInv /\ [Next]_vars => FragmentInv'
  <2> SUFFICES ASSUME FragmentInv, [Next]_vars PROVE FragmentInv'
    OBVIOUS
  <2>1. CASE UNCHANGED vars
    BY <2>1 DEF vars, bufs, FragmentInv, TypeOK, OneBufferPerPacket, BuffersInv, BufferOf,
                SmallWhole
  <2>2. ASSUME NEW f \in Fragments, FragmentInput(f) PROVE FragmentInv'
    BY <2>2, InputKeeps
  <2>3. ASSUME NEW f \in Fragments, FragmentOverrun(f) PROVE FragmentInv'
    BY <2>3 DEF FragmentOverrun, bufs, FragmentInv, TypeOK, OneBufferPerPacket, BuffersInv,
                BufferOf, SmallWhole
  <2>4. ASSUME NEW f \in Fragments, Refused(f) PROVE FragmentInv'
    BY <2>1, <2>4 DEF Refused
  <2> QED
    BY <2>1, <2>2, <2>3, <2>4 DEF Next
<1> QED
  BY <1>1, <1>2, PTL DEF Spec

\* Every field of a buffer keeps its type: what a fragment that ends within the
\* payload marks is within the map.
THEOREM FragmentTypeCorrect == Spec => []TypeOK
<1>1. FragmentInv => TypeOK
  BY DEF FragmentInv
<1> QED
  BY <1>1, FragmentInvariant, PTL

\* No packet is reassembled in two buffers, and no buffer is in the tree
\* without being in use.
THEOREM OneBufferEach == Spec => []OneBufferPerPacket
<1>1. FragmentInv => OneBufferPerPacket
  BY DEF FragmentInv
<1> QED
  BY <1>1, FragmentInvariant, PTL

\* A packet within the part of the map that fragmap_init clears is passed on
\* with its own length and its own bytes only.
THEOREM SmallPacketsWhole == Spec => []SmallWhole
<1>1. FragmentInv => SmallWhole
  BY DEF FragmentInv
<1> QED
  BY <1>1, FragmentInvariant, PTL

\* A buffer that has every block of its packet and is still in use has lost
\* the length to a first fragment that came last.
THEOREM CompletesOrWasReset == Spec => []CompleteOrReset
<1>1. FragmentInv => CompleteOrReset
  <2> SUFFICES ASSUME FragmentInv, NEW b \in reserved, NEW p \in Packets, key[b] = Key[p],
                      \A i \in 0 .. BlocksOf(Length(p)) - 1 : i \in fragmap[b] /\ payload[b][i] = p
               PROVE  ip_len[b] = 0
    BY DEF CompleteOrReset
  <2>1. PICK q \in Packets : BufferOf(b, q)
    BY DEF FragmentInv, BuffersInv, OneBufferPerPacket
  <2>2. q = p
    BY <2>1, FragmentAssumption DEF BufferOf
  <2> QED
    BY <2>1, <2>2 DEF BufferOf, Complete
<1> QED
  BY <1>1, FragmentInvariant, PTL
=============================================================================
