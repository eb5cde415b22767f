----------------------------- MODULE IpFragment -----------------------------
(***************************************************************************)
(* Reassembly of fragmented IP packets (src/ip_fragment.c), called by      *)
(* ip_input in the ingress thread.                                         *)
(*                                                                         *)
(* The network loses, duplicates and reorders fragments: any fragment of   *)
(* any packet that was sent may arrive at any time, any number of times,   *)
(* or never.  A payload is a function from 8-byte blocks to the packet     *)
(* each block came from; lengths are in bytes.  The RB tree of the used    *)
(* buffers is the set of the buffers linked into it: packet_buf_cmp orders *)
(* by the key, and nothing looks a buffer up while its key is changed.     *)
(***************************************************************************)
EXTENDS Integers, FiniteSets

CONSTANTS NumBuf,     \* num_elem(packet_buffer)
          FragMax,    \* FRAG_MAX, bits in a fragment map
          Packets,    \* the packets peers send
          Key,        \* source, destination, protocol and id of each packet
          Fragments,  \* their fragments: [pkt, off, len, mf], off in blocks,
                      \* len the length less that of the header
          Nothing     \* a block that was never written

\* Senders give the packets in flight different keys, and every packet one end.
ASSUME FragmentAssumption ==
    /\ NumBuf \in Nat \ {0} /\ FragMax \in Nat \ {0}
    /\ Nothing \notin Packets
    /\ \A p, q \in Packets : Key[p] = Key[q] => p = q
    /\ \A f, g \in Fragments :
           f.pkt = g.pkt /\ ~f.mf /\ ~g.mf => 8 * f.off + f.len = 8 * g.off + g.len
    /\ \A f \in Fragments :
           /\ f.pkt \in Packets /\ f.off \in 0 .. FragMax - 1 /\ f.len \in Int /\ f.mf \in BOOLEAN
           /\ f.off = 0 => f.mf

Buffers == 1..NumBuf
Blocks  == 0 .. FragMax - 1

IpMaxBytes == 8 * FragMax - 1   \* IP_MAX_BYTES, the size of a payload
IpHdr      == 20                \* the least ip_hdr_hlen

VARIABLES
    reserved,   \* buffers in use
    linked,     \* buffers in packet_buffer_head
    key,        \* ip_hdr of a buffer, as far as packet_buf_cmp reads it
    ip_len,     \* ip_hdr.ip_len of a buffer, 0 while the end is unknown
    fragmap,    \* the bits set in the map of a buffer
    payload,    \* the payload of a buffer
    passed,     \* history: the packets passed on to ip_input
    overrun     \* a fragment was written beyond its buffer

bufs == <<reserved, linked, key, ip_len, fragmap, payload, passed>>
vars == <<bufs, overrun>>

\* The bytes of a packet end where its last fragment ends.
Length(p) ==
    LET last == CHOOSE f \in Fragments : f.pkt = p /\ ~f.mf
    IN  8 * last.off + last.len

\* (len + 7) >> 3
BlocksOf(len) == (len + 7) \div 8

Init ==
    /\ reserved = {} /\ linked = {}
    /\ key = [b \in Buffers |-> Nothing]
    /\ ip_len = [b \in Buffers |-> 0]
    /\ fragmap = [b \in Buffers |-> {}]
    /\ payload = [b \in Buffers |-> [i \in Blocks |-> Nothing]]
    /\ passed = {} /\ overrun = FALSE

\* The search for a free buffer starts at index 0.
LowestFree == CHOOSE b \in Buffers \ reserved : \A c \in Buffers \ reserved : b <= c

-----------------------------------------------------------------------------
(* Plausible defects of the operations below, for mutation of the model.   *)

FragmapInitNothing(map) == map

NewLengthSwapped(f, old) ==
    IF f.off = 0 THEN 0 ELSE IF ~f.mf THEN f.len - 8 * f.off ELSE old

CompleteOneMore(len, map) == len # 0 /\ \A i \in 0 .. BlocksOf(len) : i \in map

GetPacketBufferNoFind(f, b) ==
    /\ Buffers \ reserved # {}
    /\ b = LowestFree

-----------------------------------------------------------------------------
(* The operations.                                                         *)

\* fragmap_init: memset takes FRAG_MAP_SIZE, which counts words, for bytes:
\* of FragMax bits the first quarter is cleared.
FragmapInit(map) == {i \in map : i >= FragMax \div 4}

\* RB_FIND
Find(f) == {b \in linked : key[b] = Key[f.pkt]}

\* The blocks that a fragment covers.
Covered(f) == f.off .. f.off + BlocksOf(f.len) - 1

\* get_packet_buffer: the buffer of the packet, or else the first free one.
\* The caller continues with it.
GetPacketBuffer(f, b) ==
    \/ b \in Find(f)
    \/ /\ Find(f) = {}
       /\ Buffers \ reserved # {}
       /\ b = LowestFree

\* The test of the offset, which leaves the length of the fragment out.
TooFar(f) == 8 * f.off > IpMaxBytes

\* ip_fragment_input returns -EMSGSIZE or -ENOBUFS.
Refused(f) ==
    /\ TooFar(f) \/ (Find(f) = {} /\ Buffers \subseteq reserved)
    /\ UNCHANGED vars

\* The memcpy stays within the payload; its length is converted to a size_t.
Fits(f) == f.len >= 0 /\ 8 * f.off + f.len <= IpMaxBytes

\* ip_hdr.ip_len after fragment f: the first fragment resets it, the last
\* one sets it to the length of the payload.
NewLength(f, old) ==
    IF f.off = 0 THEN 0 ELSE IF ~f.mf THEN f.len + 8 * f.off ELSE old

\* The length is known and every block up to it is marked.
Complete(len, map) == len # 0 /\ \A i \in 0 .. BlocksOf(len) - 1 : i \in map

\* What ip_input is called with: the length of the payload, as if it were that
\* of the packet.  The protocol handler is given what the header leaves of it
\* (if that is less than nothing, a length beyond every buffer as in IpInput).
PassedOn(k, len, data) ==
    [key    |-> k,
     length |-> len,
     blocks |-> {data[i] : i \in 0 .. BlocksOf(len) - 1},
     given  |-> len - IpHdr]

\* ip_fragment_input of a fragment that fits.
FragmentInput(f) ==
    /\ ~TooFar(f) /\ Fits(f)
    /\ \E b \in Buffers :
          LET fresh == b \notin Find(f)
              map   == (IF fresh THEN FragmapInit(fragmap[b]) ELSE fragmap[b]) \cup Covered(f)
              data  == [i \in Blocks |-> IF i \in Covered(f) THEN f.pkt ELSE payload[b][i]]
              len   == NewLength(f, IF fresh THEN 0 ELSE ip_len[b])
              done  == Complete(len, map)
          IN
          /\ GetPacketBuffer(f, b)
          /\ key' = [key EXCEPT ![b] = Key[f.pkt]]
          /\ fragmap' = [fragmap EXCEPT ![b] = map]
          /\ payload' = [payload EXCEPT ![b] = data]
          /\ ip_len' = [ip_len EXCEPT ![b] = len]
          /\ reserved' = IF done THEN reserved \ {b} ELSE reserved \cup {b}
          /\ linked' = IF done THEN linked \ {b} ELSE linked \cup {b}
          /\ passed' = IF done
                       THEN passed \cup {PassedOn(Key[f.pkt], len, data)}
                       ELSE passed
    /\ UNCHANGED overrun

\* ip_fragment_input of one that does not: the links of the buffer, the next
\* buffers and the header after the map are overwritten.  Nothing is said of
\* what happens afterwards.
FragmentOverrun(f) ==
    /\ ~TooFar(f) /\ ~Fits(f)
    /\ \E b \in Buffers : GetPacketBuffer(f, b)
    /\ overrun' = TRUE
    /\ UNCHANGED bufs

Next ==
    /\ ~overrun
    /\ \E f \in Fragments : FragmentInput(f) \/ FragmentOverrun(f) \/ Refused(f)

Spec == Init /\ [][Next]_vars

-----------------------------------------------------------------------------
(* Properties.                                                             *)

TypeOK ==
    /\ reserved \subseteq Buffers /\ linked \subseteq Buffers
    /\ key \in [Buffers -> {Key[p] : p \in Packets} \cup {Nothing}]
    /\ ip_len \in [Buffers -> Nat]
    /\ fragmap \in [Buffers -> SUBSET Blocks]
    /\ payload \in [Buffers -> [Blocks -> Packets \cup {Nothing}]]
    /\ \A d \in passed : d.blocks \subseteq Packets \cup {Nothing}
    /\ overrun \in BOOLEAN

\* The buffers in use are those in the tree, no two of them for one packet:
\* get_packet_buffer never starts a second reassembly of a packet, and a
\* released buffer is not found again.
OneBufferPerPacket ==
    /\ linked = reserved
    /\ \A b, c \in linked : key[b] = key[c] => b = c

\* The bytes below the end of packet p, all taken from p, of which the handler
\* is given all but as many of the last as a header has.
Whole(d) ==
    \E p \in Packets :
        /\ Key[p] = d.key /\ d.length = Length(p) /\ d.blocks = {p}
        /\ d.given = Length(p) - IpHdr

\* A packet that lies in the part of the map that fragmap_init clears is
\* passed on with its own length and its own bytes, whatever fragments of
\* other packets used the buffer before and however its own were lost,
\* repeated or reordered.
SmallWhole == \A d \in passed : BlocksOf(d.length) <= FragMax \div 4 => Whole(d)

\* Every packet that ip_fragment_input reports as fully reassembled is whole.
\* Refuted: fragmap_init leaves three quarters of the bits of the last user.
AllWhole == \A d \in passed : Whole(d)

\* A buffer that holds and marks every block of its packet stays in use only
\* if the first fragment came after the last one and reset ip_len, whatever
\* was lost, repeated or reordered before.
CompleteOrReset ==
    \A b \in reserved, p \in Packets :
        (key[b] = Key[p] /\ \A i \in 0 .. BlocksOf(Length(p)) - 1 : i \in fragmap[b] /\ payload[b][i] = p)
            => ip_len[b] = 0
=============================================================================
