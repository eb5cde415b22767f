--------------------------- MODULE IpInputProofs ---------------------------
(***************************************************************************)
(* Machine-checked proofs about the input pipeline, for any number of      *)
(* hosts, any frames of an honest station and any number of frames.        *)
(***************************************************************************)
EXTENDS IpInput, SequenceTheorems, TLAPS

-----------------------------------------------------------------------------
(* The inductive invariant.                                                *)

\* A frame tells the truth about its sender, as far as a host that receives
\* it believes it.
Sound(f) ==
    /\ f.body.type = "ip" /\ Accepted(f.body, Received(f)) => f.body.src = f.src
    /\ f.body.type = "arp" => f.body.sha = f.src /\ f.body.spa = f.src
SoundFrames == {f \in Frames : Sound(f)}

\* What TypeOK and RepliesGoBack say of a frame that a host has sent, and that
\* its header is within the packet.
SentOk(f) ==
    /\ f.body.type = "ip" => f.body.hlen <= f.body.len
    /\ Fits(f.bytes) /\ f.size \in MinData + FcsLen .. DataLen + FcsLen
    /\ f.body.type = "ip" => /\ f.body.dst = f.dst /\ f.body.len <= f.bytes
                             /\ f.body.kind # "unreachable" => f.body.src = f.src
    /\ f.body.type = "arp" => f.body.sha = f.src /\ f.body.spa = f.src

\* What DeliveredAsSent says of a datagram that came in frame f.
CameIn(d, f) ==
    /\ d.to \in Hosts /\ d.n \in Nat
    /\ f.body = d.pkt /\ d.pkt.dst = d.to
    /\ d.pkt.hlen + UdpHdr + d.n <= Received(f)
    /\ f.body.len = f.bytes => d.pkt.hlen + UdpHdr + d.n = f.bytes

\* What OnlyLongHeadersKill says of the header in a frame that ends h's daemon.
Kills(f, h) == f.body.type = "ip" /\ f.body.dst = h /\ f.body.hlen > f.body.len

\* The frames that may be in a packet socket: what somebody has sent.
OnTheWire == {f \in SoundFrames : f \in Injected \/ f \in sent}

InputInv ==
    /\ rx \in [Hosts -> Seq(OnTheWire)]
    /\ fatal \in [Hosts -> SUBSET OnTheWire]
    /\ cache \in [Hosts -> [Addrs -> Addrs \cup {None}]]
    /\ budget \in 0 .. Budget
    /\ CacheTruthful
    /\ \A f \in sent : SentOk(f)
    /\ \A d \in delivered : \E f \in sent \cup Injected : CameIn(d, f)
    /\ \A h \in Hosts : \A f \in fatal[h] : f \in Injected /\ Kills(f, h)

-----------------------------------------------------------------------------
(* The handlers.                                                           *)

\* The sizes that the proofs compute with.
LEMMA Sizes ==
    /\ DataLen = 1500 /\ MinData = 56 /\ FcsLen = 4 /\ IpHdr = 20 /\ IcmpHdr = 8 /\ UdpHdr = 8
    /\ Unreac = 36 /\ OldData = 8 /\ ArpLen = 28
  BY DEF DataLen, MinData, FcsLen, IpHdr, IcmpHdr, UdpHdr, Unreac, OldData, ArpLen

LEMMA FrameSizes ==
    ASSUME NEW size \in Nat, size >= 60, size <= 1504
    PROVE  size \in MinData + FcsLen .. DataLen + FcsLen
<1>1. MinData + FcsLen = 60 /\ DataLen + FcsLen = 1504
  BY Sizes
<1> QED
  BY <1>1

\* A frame that ether_send accepts.
LEMMA FrameFacts ==
    ASSUME NEW src, NEW dst, NEW body, NEW bytes \in Nat
    PROVE  LET g == Frame(src, dst, body, bytes) IN
           /\ g.src = src /\ g.dst = dst /\ g.body = body /\ g.bytes = bytes
           /\ g.size \in Nat /\ g.size >= bytes + 4 /\ g.size >= 60
           /\ Fits(bytes) => bytes <= 1500 /\ g.size <= 1504
           /\ Received(g) = IF g.size < 1500 THEN g.size ELSE 1500
           /\ g = [src |-> src, dst |-> dst, body |-> body, bytes |-> bytes, size |-> g.size]
  BY DEF Frame, Fits, Greater, Lesser, Received, DataLen, MinData, FcsLen

\* ip_reply_header: an IP header for the sender, with a new length.
LEMMA ReplyHeaderFacts ==
    ASSUME NEW p \in IpBodies, NEW n \in Nat
    PROVE  LET b == ReplyHeader(p, n) IN
           /\ b \in IpBodies
           /\ b.len = n + p.hlen /\ b.hlen = p.hlen /\ b.src = p.dst /\ b.dst = p.src
           /\ b.type = "ip" /\ b.kind = p.kind
<1> DEFINE q == [p EXCEPT !.src = p.dst, !.dst = p.src]
           b == [q EXCEPT !.len = n + p.hlen]
<1>1. p.hlen \in Nat /\ p.src \in Addrs /\ p.dst \in Addrs /\ p.type = "ip"
  BY DEF IpBodies
<1>2. /\ q \in IpBodies
      /\ q.hlen = p.hlen /\ q.src = p.dst /\ q.dst = p.src /\ q.type = "ip" /\ q.kind = p.kind
  BY <1>1 DEF IpBodies
<1> HIDE DEF q
<1>3. /\ b \in IpBodies /\ b.len = n + p.hlen
      /\ b.hlen = q.hlen /\ b.src = q.src /\ b.dst = q.dst /\ b.type = "ip" /\ b.kind = q.kind
  BY <1>1, <1>2 DEF IpBodies
<1> QED
  BY <1>2, <1>3 DEF ReplyHeader, Swapped, q

\* The headers that icmp.c makes before that.
LEMMA HeaderFacts ==
    ASSUME NEW p \in IpBodies
    PROVE  /\ LET q == [p EXCEPT !.version = 4, !.hlen = IpHdr, !.proto = "icmp",
                                 !.kind = "unreachable"] IN
              /\ q \in IpBodies /\ q.hlen = 20 /\ q.src = p.src /\ q.dst = p.dst
              /\ q.kind = "unreachable"
           /\ LET q == [p EXCEPT !.kind = "echo_reply"] IN
              /\ q \in IpBodies /\ q.hlen = p.hlen /\ q.src = p.src /\ q.dst = p.dst
<1> DEFINE q == [p EXCEPT !.version = 4, !.hlen = IpHdr, !.proto = "icmp", !.kind = "unreachable"]
           e == [p EXCEPT !.kind = "echo_reply"]
<1>1. /\ q \in IpBodies /\ q.hlen = 20 /\ q.src = p.src /\ q.dst = p.dst
      /\ q.kind = "unreachable"
  <2>1. q \in IpBodies
    <3>1. IpHdr \in 0 .. 60
      BY Sizes
    <3> QED
      BY <3>1 DEF IpBodies
  <2>2. /\ q.hlen = 20 /\ q.src = p.src /\ q.dst = p.dst
        /\ q.kind = "unreachable"
    BY Sizes DEF IpBodies
  <2> QED
    BY <2>1, <2>2
<1>2. e \in IpBodies /\ e.hlen = p.hlen /\ e.src = p.src /\ e.dst = p.dst
  BY DEF IpBodies
<1> QED
  BY <1>1, <1>2

\* What is required of a reply that host h gives for frame f.
GoodReply(h, f, r) ==
    /\ r.bytes \in Nat
    /\ r.body \in IpBodies \cup ArpBodies
    /\ Fits(r.bytes) => /\ Sound(Frame(h, f.src, r.body, r.bytes))
                        /\ SentOk(Frame(h, f.src, r.body, r.bytes))
GoodOutcome(h, f, o) ==
    /\ \A r \in o.reply : GoodReply(h, f, r)
    /\ \A d \in o.deliver : CameIn(d, f)
    /\ o.crash \in BOOLEAN
    /\ o.crash => Kills(f, h)

LEMMA IgnoredIsGood ==
    ASSUME NEW h, NEW f
    PROVE  GoodOutcome(h, f, Ignored)
  BY DEF GoodOutcome, Ignored, Outcome

LEMMA ReplyIsGood ==
    ASSUME NEW h, NEW f, NEW r, GoodReply(h, f, r)
    PROVE  GoodOutcome(h, f, Outcome({r}, {}))
  BY DEF GoodOutcome, Outcome

\* A daemon ends only for a header that is longer than its packet.
LEMMA CrashIsGood ==
    ASSUME NEW h, NEW f, Kills(f, h)
    PROVE  GoodOutcome(h, f, Crash)
  BY DEF GoodOutcome, Crash

\* What follows a header is what the subtraction says if the header is within
\* the packet, and otherwise more than any buffer holds.
LEMMA AfterIs ==
    ASSUME NEW x \in Int, NEW n \in Int, x \in 0 .. 1500, n \in 0 .. 60
    PROVE  /\ After(x, n) \in Nat
           /\ n <= x => After(x, n) = x - n
           /\ n > x => After(x, n) > 2900
<1> DEFINE m == 2^SizeBits
<1>1. m \in Nat /\ m > 3000
  BY InputAssumption, Sizes
<1> HIDE DEF m
<1>2. CASE n <= x
  <2>1. x - n \in 0 .. 1500
    BY <1>2
  <2>2. (x - n) % m = x - n
    BY <1>1, <2>1
  <2> QED
    BY <1>2, <2>1, <2>2 DEF After, m
<1>3. CASE n > x
  <2>1. x - n \in -60 .. -1
    BY <1>3
  <2>2. (x - n) % m = m + (x - n)
    BY <1>1, <2>1
  <2> QED
    BY <1>1, <1>3, <2>1, <2>2 DEF After, m
<1> QED
  BY <1>2, <1>3

\* The same of udp_input's subtraction from such a length.
LEMMA AfterUdp ==
    ASSUME NEW bsize \in Nat, bsize >= 8, bsize < 2^SizeBits
    PROVE  After(bsize, UdpHdr) = bsize - 8
<1> DEFINE m == 2^SizeBits
<1>1. m \in Nat /\ m > 3000
  BY InputAssumption, Sizes
<1>2. bsize < m
  OBVIOUS
<1> HIDE DEF m
<1>3. (bsize - 8) % m = bsize - 8
  <2>1. bsize - 8 \in Nat /\ bsize - 8 < m
    BY <1>1, <1>2
  <2> QED
    BY <1>1, <2>1
<1> QED
  BY <1>3, Sizes DEF After, m

\* Every length that After gives is within a size_t.
LEMMA AfterBound ==
    ASSUME NEW x \in Int, NEW n \in Int
    PROVE  After(x, n) \in Nat /\ After(x, n) < 2^SizeBits
<1> DEFINE m == 2^SizeBits
<1>1. m \in Nat /\ m > 3000
  BY InputAssumption, Sizes
<1> HIDE DEF m
<1>2. (x - n) % m \in Nat /\ (x - n) % m < m
  BY <1>1
<1> QED
  BY <1>2 DEF After, m

\* An answer that a host is unreachable is not believed by any host: what is
\* sent is longer than its ip_len.
LEMMA UnreachableIsGood ==
    ASSUME NEW h \in Hosts, NEW f \in SoundFrames, f.body \in IpBodies,
           f.body.src = f.src, NEW bsize \in Nat
    PROVE  GoodOutcome(h, f, DestUnreachable(f.body, bsize))
<1> DEFINE p == f.body
           msg == Unreac + Lesser(OldData, bsize)
           q == [p EXCEPT !.version = 4, !.hlen = IpHdr, !.proto = "icmp", !.kind = "unreachable"]
           b == ReplyHeader(q, msg)
           r == [body |-> b, bytes |-> msg + b.len]
           g == Frame(h, f.src, b, msg + b.len)
<1>1. msg \in 36 .. 44
  BY Sizes DEF Lesser
<1>2. /\ b \in IpBodies /\ b.len = msg + 20 /\ b.hlen = 20 /\ b.dst = f.src
      /\ b.type = "ip" /\ b.kind = "unreachable"
  <2>1. /\ q \in IpBodies /\ q.hlen = 20 /\ q.src = f.src
        /\ q.kind = "unreachable"
    BY HeaderFacts, ReplyHeaderFacts, Zenon
  <2> HIDE DEF q, msg, b
  <2> QED
    <3>1. msg \in Nat /\ b = ReplyHeader(q, msg)
      BY <1>1 DEF b, q
    <3>2. /\ b \in IpBodies /\ b.len = msg + q.hlen /\ b.hlen = q.hlen /\ b.dst = q.src
          /\ b.type = "ip" /\ b.kind = q.kind
      BY <2>1, <3>1, ReplyHeaderFacts, Zenon
    <3> QED
      BY <2>1, <3>2
<1> HIDE DEF msg, b
<1>3. /\ g.body = b /\ g.bytes = msg + b.len /\ g.src = h /\ g.dst = f.src
      /\ g.size \in Nat /\ g.size >= msg + b.len + 4 /\ g.size >= 60
      /\ Fits(msg + b.len) => g.size <= 1504 /\ msg + b.len <= 1500
      /\ Received(g) = IF g.size < 1500 THEN g.size ELSE 1500
  BY <1>1, <1>2, FrameFacts
<1> HIDE DEF g
<1>4. Fits(msg + b.len) => ~Accepted(b, Received(g))
  BY <1>1, <1>2, <1>3 DEF Accepted, LengthOk
<1>5. Fits(msg + b.len) => Sound(g) /\ SentOk(g)
  <2>1. Fits(msg + b.len) => Sound(g)
    BY <1>1, <1>2, <1>3, <1>4 DEF Sound
  <2>2. Fits(msg + b.len) => SentOk(g)
    <3> SUFFICES ASSUME Fits(msg + b.len) PROVE SentOk(g)
      OBVIOUS
    <3>1. Fits(g.bytes) /\ g.size \in MinData + FcsLen .. DataLen + FcsLen
      BY <1>3, FrameSizes
    <3>2. /\ g.body.type = "ip" /\ g.body.kind = "unreachable" /\ g.body.dst = g.dst
      BY <1>2, <1>3
    <3>3. g.body.len <= g.bytes /\ g.body.hlen <= g.body.len
      BY <1>1, <1>2, <1>3
    <3> QED
      BY <3>1, <3>2, <3>3 DEF SentOk
  <2> QED
    BY <2>1, <2>2
<1>6. GoodReply(h, f, r)
  BY <1>1, <1>2, <1>5 DEF GoodReply, g
<1>7. DestUnreachable(f.body, bsize) = Outcome({r}, {})
  BY DEF DestUnreachable, b, msg
<1> HIDE DEF r
<1> QED
  BY <1>6, <1>7, ReplyIsGood

\* An echo reply bears the address of the host.
LEMMA IcmpIsGood ==
    ASSUME NEW h \in Hosts, NEW f \in SoundFrames, f.body \in IpBodies, NEW bsize \in Nat,
           f.body.src = f.src, f.body.dst = h, Beyond(bsize) => Kills(f, h)
    PROVE  GoodOutcome(h, f, IcmpInput(f.body, bsize))
<1> DEFINE p == f.body
           b == ReplyHeader([p EXCEPT !.kind = "echo_reply"], bsize)
           r == [body |-> b, bytes |-> b.len]
           g == Frame(h, f.src, b, b.len)
<1>1. /\ b \in IpBodies /\ b.len = bsize + p.hlen /\ b.hlen = p.hlen /\ p.hlen \in Nat
      /\ b.dst = f.src /\ b.src = h /\ b.type = "ip"
  <2> DEFINE q == [p EXCEPT !.kind = "echo_reply"]
  <2>1. /\ q \in IpBodies /\ q.hlen = p.hlen /\ q.src = f.src /\ q.dst = h
    BY HeaderFacts, Zenon
  <2> HIDE DEF q
  <2>2. b = ReplyHeader(q, bsize) /\ p.hlen \in Nat
    BY DEF q, IpBodies
  <2> HIDE DEF b
  <2> QED
    <3>1. /\ b \in IpBodies /\ b.len = bsize + q.hlen /\ b.hlen = q.hlen /\ b.src = q.dst
          /\ b.dst = q.src /\ b.type = "ip"
      BY <2>1, <2>2, ReplyHeaderFacts, Zenon
    <3> QED
      BY <2>1, <2>2, <3>1
<1> HIDE DEF b
<1>2. b.len \in Nat
  BY <1>1
<1>3. /\ g.body = b /\ g.bytes = b.len /\ g.src = h /\ g.dst = f.src
      /\ g.size \in Nat /\ g.size >= b.len + 4 /\ g.size >= 60
      /\ Fits(b.len) => g.size <= 1504
  BY <1>2, FrameFacts
<1> HIDE DEF g
<1>4. Fits(b.len) => Sound(g) /\ SentOk(g)
  <2>1. Fits(b.len) => Sound(g)
    BY <1>1, <1>2, <1>3 DEF Sound
  <2>2. Fits(b.len) => SentOk(g)
    <3> SUFFICES ASSUME Fits(b.len) PROVE SentOk(g)
      OBVIOUS
    <3>1. Fits(g.bytes) /\ g.size \in MinData + FcsLen .. DataLen + FcsLen
      <4>1. g.bytes = b.len /\ g.size \in Nat /\ g.size >= 60 /\ g.size <= 1504
        BY <1>3
      <4>2. g.size \in MinData + FcsLen .. DataLen + FcsLen
        BY <4>1, FrameSizes
      <4> QED
        BY <4>1, <4>2
    <3>2. /\ g.body.type = "ip" /\ g.body.dst = g.dst /\ g.body.len <= g.bytes
          /\ g.body.src = g.src /\ g.body.hlen <= g.body.len
      <4>1. b.hlen \in Nat /\ b.hlen <= b.len
        BY <1>1
      <4> QED
        BY <1>1, <1>2, <1>3, <4>1
    <3> QED
      BY <3>1, <3>2 DEF SentOk
  <2> QED
    BY <2>1, <2>2
<1>5. GoodReply(h, f, r)
  BY <1>1, <1>2, <1>4 DEF GoodReply, g
<1>6. \/ IcmpInput(f.body, bsize) \in {Ignored, Outcome({r}, {})}
      \/ IcmpInput(f.body, bsize) = Crash /\ Beyond(bsize)
  BY DEF IcmpInput, b
<1> HIDE DEF r
<1>7. Beyond(bsize) => GoodOutcome(h, f, Crash)
  BY CrashIsGood
<1> QED
  BY <1>5, <1>6, <1>7, IgnoredIsGood, ReplyIsGood

\* A socket gets what ip_len leaves after the two headers.
LEMMA UdpIsGood ==
    ASSUME NEW h \in Hosts, NEW f \in SoundFrames, f.body \in IpBodies, NEW bsize \in Nat,
           f.body.src = f.src, f.body.dst = h, f.body.len = Received(f), bsize < 2^SizeBits,
           f.body.hlen <= f.body.len => bsize = f.body.len - f.body.hlen /\ bsize <= 1500,
           f.body.hlen > f.body.len => bsize > 2900
    PROVE  GoodOutcome(h, f, UdpInput(h, f.body, bsize))
<1> DEFINE n == After(bsize, UdpHdr)
           d == [to |-> h, pkt |-> f.body, n |-> n]
<1>0. f.body.hlen \in Nat /\ f.body.len \in Nat /\ f.body.type = "ip"
  BY DEF IpBodies
<1>1. CASE bsize < UdpHdr
  <2>1. UdpInput(h, f.body, bsize) = Ignored
    BY <1>1 DEF UdpInput, TooShort
  <2> QED
    BY <2>1, IgnoredIsGood
<1>2. CASE bsize >= UdpHdr /\ FindUdpSocket(f.body.kind)
  <2>1. n = bsize - 8 /\ n \in Nat
    BY <1>2, AfterUdp, Sizes
  <2>2. UdpInput(h, f.body, bsize) = ToSocket(h, f.body, n)
    BY <1>2, Sizes DEF UdpInput, TooShort
  <2> HIDE DEF n
  <2>3. CASE f.body.hlen <= f.body.len
    <3>1. f.body.hlen + UdpHdr + n = f.body.len
      BY <1>0, <1>2, <2>1, <2>3, Sizes
    <3>2. CameIn(d, f)
      BY <1>0, <2>1, <3>1 DEF CameIn
    <3>3. ToSocket(h, f.body, n) = Outcome({}, {d})
      BY <2>1, <2>3, Sizes DEF ToSocket, Beyond
    <3> HIDE DEF d
    <3> QED
      BY <2>2, <3>2, <3>3 DEF GoodOutcome, Outcome
  <2>4. CASE f.body.hlen > f.body.len
    <3>1. ToSocket(h, f.body, n) = Crash
      BY <2>1, <2>4, Sizes DEF ToSocket, Beyond
    <3> QED
      BY <1>0, <2>2, <2>4, <3>1, CrashIsGood DEF Kills
  <2> QED
    BY <1>0, <2>3, <2>4
<1>3. CASE bsize >= UdpHdr /\ ~FindUdpSocket(f.body.kind)
  <2>1. UdpInput(h, f.body, bsize) = DestUnreachable(f.body, bsize)
    BY <1>3, Sizes DEF UdpInput, TooShort
  <2> QED
    BY <2>1, UnreachableIsGood
<1> QED
  BY <1>1, <1>2, <1>3, Sizes

\* ip_input goes on with packets whose length is the one of the frame, and the
\* sender of such a packet is the sender of the frame.
LEMMA IpIsGood ==
    ASSUME NEW h \in Hosts, NEW f \in SoundFrames, f.body \in IpBodies
    PROVE  GoodOutcome(h, f, IpInput(h, f.body, Received(f)))
<1> DEFINE p == f.body
           size == Received(f)
           bsize == After(size, p.hlen)
<1>1. p.type = "ip" /\ p.hlen \in 0 .. 60 /\ p.len \in Nat /\ p.frag \in BOOLEAN
  BY DEF IpBodies
<1>6. size \in 0 .. 1500
  BY Sizes DEF Received, Lesser, SoundFrames, Frames
<1>2. Accepted(p, size) => p.len = size /\ p.src = f.src
  BY <1>1 DEF Accepted, LengthOk, SoundFrames, Sound
<1>7. /\ bsize \in Nat /\ bsize < 2^SizeBits
      /\ p.hlen <= size => bsize = size - p.hlen /\ bsize <= 1500
      /\ p.hlen > size => bsize > 2900
  <2>1. bsize \in Nat /\ bsize < 2^SizeBits
    <3>1. size \in Int /\ p.hlen \in Int
      BY <1>1, <1>6
    <3> HIDE DEF size
    <3> QED
      BY <3>1, AfterBound
  <2>2. /\ p.hlen <= size => bsize = size - p.hlen
        /\ p.hlen > size => bsize > 2900
    <3> DEFINE n == p.hlen
    <3>1. size \in 0 .. 1500 /\ n \in 0 .. 60
      BY <1>1, <1>6
    <3> HIDE DEF size, n
    <3>2. size \in Int /\ n \in Int
      BY <3>1
    <3>3. /\ n <= size => After(size, n) = size - n
          /\ n > size => After(size, n) > 2900
      BY <3>1, <3>2, AfterIs
    <3> QED
      BY <3>3 DEF n
  <2> HIDE DEF size, bsize
  <2> QED
    BY <1>1, <1>6, <2>1, <2>2
<1> HIDE DEF size, bsize
<1>3. CASE ~Accepted(p, size) \/ (Own(h, p.dst) /\ p.frag)
  <2>1. IpInput(h, f.body, size) = Ignored
    BY <1>1, <1>3 DEF IpInput
  <2> QED
    BY <2>1, IgnoredIsGood DEF size
<1>4. CASE Accepted(p, size) /\ ~Own(h, p.dst)
  <2>1. IpInput(h, f.body, size) = DestUnreachable(p, bsize)
    BY <1>1, <1>4 DEF IpInput, bsize
  <2> QED
    BY <1>2, <1>4, <1>7, <2>1, UnreachableIsGood DEF size
<1>5. CASE Accepted(p, size) /\ Own(h, p.dst) /\ ~p.frag
  <2>1. p.dst = h
    BY <1>5 DEF Own
  <2>2. IpInput(h, f.body, size) \in
            {IcmpInput(p, bsize), UdpInput(h, p, bsize), DestUnreachable(p, bsize)}
    BY <1>1, <1>5 DEF IpInput, bsize
  <2>3. GoodOutcome(h, f, IcmpInput(p, bsize))
    <3>1. Beyond(bsize) => Kills(f, h)
      BY <1>1, <1>2, <1>5, <1>7, <1>6, <2>1, Sizes DEF Beyond, Kills
    <3> QED
      BY <1>2, <1>5, <1>7, <2>1, <3>1, IcmpIsGood
  <2>4. GoodOutcome(h, f, UdpInput(h, p, bsize))
    <3>1. p.len = Received(f) /\ p.src = f.src
      BY <1>2, <1>5 DEF size
    <3> QED
      BY <1>2, <1>5, <1>7, <2>1, <3>1, UdpIsGood
  <2>5. GoodOutcome(h, f, DestUnreachable(p, bsize))
    BY <1>2, <1>5, <1>7, UnreachableIsGood
  <2> QED
    BY <2>2, <2>3, <2>4, <2>5 DEF size
<1> QED
  BY <1>1, <1>3, <1>4, <1>5

\* arp_input replies with the address of the host.
LEMMA ArpIsGood ==
    ASSUME NEW h \in Hosts, NEW f \in SoundFrames, f.body \in ArpBodies
    PROVE  GoodOutcome(h, f, ArpInput(h, f.body, Received(f)))
<1> DEFINE m == f.body
           size == Received(f)
           b == Arp("reply", h, m.tpa, m.spa)
           r == [body |-> b, bytes |-> size]
           g == Frame(h, f.src, b, size)
<1>1. size \in Nat
  BY Sizes DEF Received, Lesser, SoundFrames, Frames
<1>2. CASE m.tpa = h
  <2>1. b \in ArpBodies /\ b.type = "arp" /\ b.sha = h /\ b.spa = h
    BY <1>2 DEF Arp, ArpBodies, Addrs
  <2> HIDE DEF b, size
  <2>2. /\ g.body = b /\ g.bytes = size /\ g.src = h /\ g.size \in Nat /\ g.size >= 60
        /\ Fits(size) => g.size <= 1504
    BY <1>1, FrameFacts
  <2> HIDE DEF g
  <2>3. Fits(size) => Sound(g) /\ SentOk(g)
    <3> SUFFICES ASSUME Fits(size) PROVE Sound(g) /\ SentOk(g)
      OBVIOUS
    <3>1. Fits(g.bytes) /\ g.size \in MinData + FcsLen .. DataLen + FcsLen
      BY <2>2, FrameSizes
    <3>2. g.body.type = "arp" /\ g.body.sha = g.src /\ g.body.spa = g.src
      BY <2>1, <2>2
    <3> QED
      BY <3>1, <3>2 DEF Sound, SentOk
  <2>4. GoodReply(h, f, r)
    BY <1>1, <2>1, <2>3 DEF GoodReply, g
  <2>5. ArpInput(h, f.body, size) \in {Ignored, Outcome({r}, {})}
    BY DEF ArpInput, b
  <2> HIDE DEF r
  <2> QED
    BY <2>4, <2>5, IgnoredIsGood, ReplyIsGood DEF size
<1>3. CASE m.tpa # h
  <2>1. ArpInput(h, f.body, size) = Ignored
    BY <1>3 DEF ArpInput, Own
  <2> QED
    BY <2>1, IgnoredIsGood
<1> QED
  BY <1>2, <1>3

LEMMA EtherIsGood ==
    ASSUME NEW h \in Hosts, NEW f \in SoundFrames
    PROVE  GoodOutcome(h, f, EtherInput(h, f))
<1>1. CASE f.body \in IpBodies
  <2>1. EtherInput(h, f) = IpInput(h, f.body, Received(f))
    BY <1>1 DEF EtherInput, IpBodies
  <2> QED
    BY <1>1, <2>1, IpIsGood
<1>2. CASE f.body \in ArpBodies
  <2>1. EtherInput(h, f) = ArpInput(h, f.body, Received(f))
    BY <1>2 DEF EtherInput, ArpBodies
  <2> QED
    BY <1>2, <2>1, ArpIsGood
<1>3. CASE f.body \in [type : {"other"}]
  <2>1. EtherInput(h, f) = Ignored
    BY <1>3 DEF EtherInput
  <2> QED
    BY <2>1, IgnoredIsGood
<1> QED
  BY <1>1, <1>2, <1>3 DEF SoundFrames, Frames

\* What ether_output_reply sends.
LEMMA OutputIsGood ==
    ASSUME NEW h \in Hosts, NEW f \in SoundFrames,
           NEW g \in OutputReply(h, f, EtherInput(h, f).reply)
    PROVE  g \in SoundFrames /\ SentOk(g)
<1>1. PICK r \in EtherInput(h, f).reply :
          Fits(r.bytes) /\ g = Frame(h, f.src, r.body, r.bytes)
  BY DEF OutputReply
<1>2. GoodReply(h, f, r)
  BY EtherIsGood DEF GoodOutcome
<1>3. Sound(g) /\ SentOk(g) /\ r.bytes \in Nat /\ r.body \in IpBodies \cup ArpBodies
  BY <1>1, <1>2 DEF GoodReply
<1>4. /\ g = [src |-> h, dst |-> f.src, body |-> r.body, bytes |-> r.bytes, size |-> g.size]
      /\ g.size \in Nat
  BY <1>1, <1>3, FrameFacts
<1>5. h \in Addrs /\ f.src \in Addrs
  BY DEF Addrs, SoundFrames, Frames
<1>6. g \in Frames
  BY <1>3, <1>4, <1>5 DEF Frames
<1> QED
  BY <1>3, <1>6 DEF SoundFrames

\* A host learns of a sender what is true.
LEMMA LearnedIsTrue ==
    ASSUME NEW f \in SoundFrames, NEW a, NEW mac, <<a, mac>> \in Learned(f)
    PROVE  mac = a
  BY DEF Learned, SoundFrames, Sound

-----------------------------------------------------------------------------
(* The steps.                                                              *)

\* A sequence of what is on the wire is one still after more was sent.
LEMMA MoreOnTheWire ==
    ASSUME NEW S, NEW T, S \subseteq T, NEW q \in [Hosts -> Seq(S)]
    PROVE  q \in [Hosts -> Seq(T)]
<1>1. \A h \in Hosts : q[h] \in Seq(T)
  OBVIOUS
<1> QED
  BY <1>1

\* A frame that is put into the packet sockets is one they may hold.
LEMMA PutKeepsSound ==
    ASSUME NEW T, NEW queues \in [Hosts -> Seq(T)], NEW g \in T, Put(queues, g)
    PROVE  rx' \in [Hosts -> Seq(T)]
<1>1. \A h \in Hosts : queues[h] \in Seq(T) /\ Append(queues[h], g) \in Seq(T)
  OBVIOUS
<1>2. PICK got \in SUBSET (Hosts \ {g.src}) :
          rx' = [h \in Hosts |-> IF h \in got THEN Append(queues[h], g) ELSE queues[h]]
  BY DEF Put
<1> QED
  BY <1>1, <1>2

LEMMA TransmitKeeps ==
    ASSUME InputInv, NEW g \in SoundFrames, Transmit(g),
           \/ g.src \in Hosts /\ SentOk(g)
           \/ g.src \notin Hosts /\ g \in Injected
    PROVE  InputInv'
<1>1. sent' = IF g.src \in Hosts THEN sent \cup {g} ELSE sent
  BY DEF Transmit
<1>2. OnTheWire \subseteq OnTheWire' /\ g \in OnTheWire'
  BY <1>1 DEF OnTheWire
<1>3. rx' \in [Hosts -> Seq(OnTheWire')]
  <2>1. rx \in [Hosts -> Seq(OnTheWire')]
    BY <1>2, MoreOnTheWire DEF InputInv
  <2> QED
    BY <1>2, <2>1, PutKeepsSound DEF Transmit
<1>4. budget' \in 0 .. Budget
  BY InputAssumption DEF InputInv, Transmit
<1>5. \A f \in sent' : SentOk(f)
  BY <1>1 DEF InputInv
<1>6. /\ cache' = cache /\ delivered' = delivered /\ fatal' = fatal /\ sent \subseteq sent'
      /\ fatal' \in [Hosts -> SUBSET OnTheWire']
  BY <1>1, <1>2 DEF Transmit, InputInv
<1>7. \A d \in delivered' : \E f \in sent' \cup Injected : CameIn(d, f)
  BY <1>6 DEF InputInv
<1> QED
  BY <1>3, <1>4, <1>5, <1>6, <1>7 DEF InputInv, CacheTruthful

\* A request of a host is sound and bears its own addresses.
LEMMA RequestIsGood ==
    ASSUME NEW h \in Hosts, NEW a \in Addrs
    PROVE  LET g == Frame(h, None, Arp("request", h, h, a), ArpLen)
           IN  g \in SoundFrames /\ SentOk(g) /\ g.src = h
<1> DEFINE b == Arp("request", h, h, a)
           g == Frame(h, None, b, ArpLen)
<1>1. h \in Addrs /\ None \in Addrs \cup {None} /\ ArpLen \in Nat /\ ArpLen = 28 /\ Fits(ArpLen)
  BY Sizes DEF Addrs, Fits
<1>2. b \in ArpBodies /\ b.type = "arp" /\ b.sha = h /\ b.spa = h
  BY <1>1 DEF Arp, ArpBodies
<1> HIDE DEF b
<1>3. /\ g.body = b /\ g.bytes = ArpLen /\ g.src = h /\ g.size \in Nat /\ g.size >= 60
      /\ g.size <= 1504
      /\ g = [src |-> h, dst |-> None, body |-> b, bytes |-> ArpLen, size |-> g.size]
  BY <1>1, FrameFacts
<1>4. g \in Frames
  BY <1>1, <1>2, <1>3 DEF Frames
<1> HIDE DEF g
<1>5. Sound(g)
  BY <1>2, <1>3 DEF Sound
<1>6. SentOk(g)
  BY <1>1, <1>2, <1>3, Sizes DEF SentOk
<1> QED
  BY <1>3, <1>4, <1>5, <1>6 DEF SoundFrames, g, b

\* A datagram of a host goes to the station whose address it bears.
LEMMA DatagramIsGood ==
    ASSUME NEW h \in Hosts, NEW d \in Datagrams
    PROVE  LET g == Frame(h, d.to, Packet(h, d.to, "udp", d.port, UdpHdr + d.n), IpHdr + UdpHdr + d.n)
           IN  g \in SoundFrames /\ SentOk(g) /\ g.src = h
<1> DEFINE n == UdpHdr + d.n
           b == Packet(h, d.to, "udp", d.port, n)
           bytes == IpHdr + UdpHdr + d.n
           g == Frame(h, d.to, b, bytes)
<1>1. /\ d.to \in Addrs /\ d.port \in Ports /\ d.n \in 0 .. 1472 /\ h \in Addrs
      /\ n \in Nat /\ bytes = 20 + n /\ bytes \in 28 .. 1500
  <2>1. d \in [to : Addrs, port : Ports, n : 0 .. DataLen - IpHdr - UdpHdr]
    BY StationAssumption, Zenon
  <2>2. d.to \in Addrs /\ d.port \in Ports /\ d.n \in 0 .. 1472
    BY <2>1, Sizes
  <2>3. n \in Nat /\ bytes = 20 + n /\ bytes \in 28 .. 1500
    <3>1. PICK k \in 0 .. 1472 : k = d.n
      BY <2>2
    <3>2. UdpHdr + k = 8 + k /\ IpHdr + UdpHdr + k = 28 + k
      BY Sizes
    <3>3. n = 8 + k /\ bytes = 28 + k
      BY <3>1, <3>2
    <3> HIDE DEF n, bytes
    <3> QED
      BY <3>3
  <2>4. h \in Addrs
    BY DEF Addrs
  <2> QED
    BY <2>2, <2>3, <2>4
<1> HIDE DEF n, bytes
<1>2. /\ b \in IpBodies /\ b.type = "ip" /\ b.hlen = 20 /\ b.len = bytes /\ b.src = h
      /\ b.dst = d.to
  BY <1>1, Sizes DEF Packet, IpBodies
<1>3. Fits(bytes)
  BY <1>1, Sizes DEF Fits
<1> HIDE DEF b
<1>4. /\ g.body = b /\ g.bytes = bytes /\ g.src = h /\ g.dst = d.to /\ g.size \in Nat
      /\ g.size >= 60 /\ g.size <= 1504
      /\ g = [src |-> h, dst |-> d.to, body |-> b, bytes |-> bytes, size |-> g.size]
  BY <1>1, <1>3, FrameFacts
<1>5. g \in Frames
  BY <1>1, <1>2, <1>4 DEF Frames
<1> HIDE DEF g
<1>6. Sound(g)
  BY <1>1, <1>2, <1>4 DEF Sound
<1>7. SentOk(g)
  <2>1. g.size \in MinData + FcsLen .. DataLen + FcsLen
    BY <1>4, Sizes
  <2> QED
    BY <1>1, <1>2, <1>3, <1>4, <2>1 DEF SentOk
<1> QED
  BY <1>4, <1>5, <1>6, <1>7 DEF SoundFrames, g, b, n, bytes

\* A turn of the ingress thread.
LEMMA ReceiveKeeps ==
    ASSUME InputInv, NEW h \in Hosts, Receive(h)
    PROVE  InputInv'
<1> DEFINE f == Head(rx[h])
           o == EtherInput(h, f)
           rest == [rx EXCEPT ![h] = Tail(@)]
           out == OutputReply(h, f, o.reply)
<1>1. rx \in [Hosts -> Seq(OnTheWire)] /\ rx[h] # <<>>
  BY DEF InputInv, Receive
<1>2. f \in OnTheWire /\ f \in SoundFrames /\ Tail(rx[h]) \in Seq(OnTheWire)
  BY <1>1 DEF OnTheWire
<1>3. rest \in [Hosts -> Seq(OnTheWire)]
  BY <1>1, <1>2
<1>4. \A g \in out : g \in SoundFrames /\ SentOk(g)
  BY <1>2, OutputIsGood
<1>5. (\A d \in o.deliver : CameIn(d, f)) /\ o.crash \in BOOLEAN /\ (o.crash => Kills(f, h))
  BY <1>2, EtherIsGood DEF GoodOutcome
<1>6. /\ cache' = [cache EXCEPT ![h] = [a \in Addrs |->
                       IF \E mac \in Addrs : <<a, mac>> \in Learned(f)
                       THEN CHOOSE mac \in Addrs : <<a, mac>> \in Learned(f) ELSE cache[h][a]]]
      /\ fatal' = IF o.crash THEN [fatal EXCEPT ![h] = {f}] ELSE fatal
      /\ delivered' = delivered \cup o.deliver
      /\ sent' = sent \cup out
      /\ IF out = {} THEN rx' = rest ELSE \E r \in out : Put(rest, r)
      /\ budget' = budget
  BY DEF Receive
<1> HIDE DEF f, o, rest, out
<1>7. rx' \in [Hosts -> Seq(OnTheWire')]
  <2>1. OnTheWire \subseteq OnTheWire' /\ out \subseteq OnTheWire'
    BY <1>4, <1>6 DEF OnTheWire
  <2>2. rest \in [Hosts -> Seq(OnTheWire')]
    BY <1>3, <2>1, MoreOnTheWire
  <2> QED
    BY <1>6, <2>1, <2>2, PutKeepsSound
<1>8. /\ \A g \in sent' : SentOk(g)
      /\ \A d \in delivered' : \E g \in sent' \cup Injected : CameIn(d, g)
  <2>1. \A g \in sent' : SentOk(g)
    BY <1>4, <1>6 DEF InputInv
  <2>2. f \in sent' \cup Injected /\ sent \subseteq sent'
    BY <1>2, <1>6 DEF OnTheWire
  <2> QED
    BY <1>5, <1>6, <2>1, <2>2 DEF InputInv
<1>10. /\ fatal' \in [Hosts -> SUBSET OnTheWire']
       /\ \A k \in Hosts : \A g \in fatal'[k] : g \in Injected /\ Kills(g, k)
  <2>1. o.crash => f \in Injected
    <3>1. f \in sent => ~Kills(f, h)
      <4> SUFFICES ASSUME f \in sent, Kills(f, h) PROVE FALSE
        OBVIOUS
      <4>1. f.body.hlen <= f.body.len /\ f.body.hlen > f.body.len
        BY DEF InputInv, SentOk, Kills
      <4>2. f.body \in IpBodies
        BY <1>2 DEF SoundFrames, Frames, ArpBodies, Kills
      <4>3. f.body.hlen \in Nat /\ f.body.len \in Nat
        BY <4>2 DEF IpBodies
      <4> QED
        BY <4>1, <4>3
    <3> QED
      BY <1>2, <1>5, <3>1 DEF OnTheWire
  <2>2. OnTheWire \subseteq OnTheWire'
    BY <1>6 DEF OnTheWire
  <2>3. fatal \in [Hosts -> SUBSET OnTheWire'] /\ f \in OnTheWire'
    BY <1>2, <2>2 DEF InputInv
  <2> QED
    BY <1>5, <1>6, <2>1, <2>3 DEF InputInv
<1>9. cache' \in [Hosts -> [Addrs -> Addrs \cup {None}]] /\ CacheTruthful'
  <2> DEFINE new == [a \in Addrs |->
                       IF \E mac \in Addrs : <<a, mac>> \in Learned(f)
                       THEN CHOOSE mac \in Addrs : <<a, mac>> \in Learned(f) ELSE cache[h][a]]
  <2>1. ASSUME NEW a \in Addrs
        PROVE  new[a] \in Addrs \cup {None} /\ new[a] \in {a, None}
    <3>1. CASE \E mac \in Addrs : <<a, mac>> \in Learned(f)
      <4> DEFINE m == CHOOSE mac \in Addrs : <<a, mac>> \in Learned(f)
      <4>1. m \in Addrs /\ <<a, m>> \in Learned(f)
        BY <3>1
      <4>2. m = a
        BY <1>2, <4>1, LearnedIsTrue
      <4>3. new[a] = m
        BY <3>1
      <4> QED
        BY <4>1, <4>2, <4>3
    <3>2. CASE ~\E mac \in Addrs : <<a, mac>> \in Learned(f)
      BY <3>2 DEF InputInv, CacheTruthful
    <3> QED
      BY <3>1, <3>2
  <2>2. cache' = [cache EXCEPT ![h] = new]
    BY <1>6
  <2>3. new \in [Addrs -> Addrs \cup {None}]
    BY <2>1
  <2> HIDE DEF new
  <2> QED
    BY <2>1, <2>2, <2>3 DEF InputInv, CacheTruthful
<1> QED
  BY <1>6, <1>7, <1>8, <1>9, <1>10 DEF InputInv

\* What Station sends is sound.
LEMMA InjectedIsSound ==
    ASSUME NEW f \in Injected
    PROVE  f \in SoundFrames /\ f.src \notin Hosts
<1>1. /\ f \in Frames /\ f.src = Station
      /\ f.body.type = "ip" => f.body.src = Station
      /\ f.body.type = "arp" => f.body.sha = Station /\ f.body.spa = Station
  BY StationAssumption, Zenon
<1> QED
  BY <1>1, InputAssumption DEF SoundFrames, Sound

\* The invariant holds at the start and after every step.
THEOREM InputInvariant == Spec => []InputInv
<1>1. Init => InputInv
  BY InputAssumption DEF Init, InputInv, CacheTruthful
<1>2. InputInv /\ [Next]_vars => InputInv'
  <2> SUFFICES ASSUME InputInv, [Next]_vars PROVE InputInv'
    OBVIOUS
  <2>1. ASSUME NEW h \in Hosts, Receive(h) PROVE InputInv'
    BY <2>1, ReceiveKeeps
  <2>2. ASSUME NEW h \in Hosts, Announce(h) PROVE InputInv'
    <3>1. h \in Addrs
      BY DEF Addrs
    <3> QED
      BY <2>2, <3>1, RequestIsGood, TransmitKeeps DEF Announce
  <2>3. ASSUME NEW h \in Hosts, NEW d \in Datagrams, SendDatagram(h, d) PROVE InputInv'
    <3> DEFINE mac == cache[h][d.to]
    <3>1. d.to \in Addrs
      BY StationAssumption
    <3>2. CASE mac = None
      BY <2>3, <3>1, <3>2, RequestIsGood, TransmitKeeps DEF SendDatagram, ArpRequest
    <3>3. CASE mac # None
      <4>1. mac = d.to
        BY <3>1, <3>3 DEF InputInv, CacheTruthful
      <4> DEFINE g == Frame(h, d.to, Packet(h, d.to, "udp", d.port, UdpHdr + d.n),
                            IpHdr + UdpHdr + d.n)
      <4>2. Transmit(g)
        BY <2>3, <3>3, <4>1 DEF SendDatagram
      <4>3. g \in SoundFrames /\ SentOk(g) /\ g.src = h
        BY DatagramIsGood
      <4> HIDE DEF g
      <4> QED
        BY <4>2, <4>3, TransmitKeeps
    <3> QED
      BY <3>2, <3>3
  <2>4. ASSUME NEW h \in Hosts, NEW a \in Addrs, Forget(h, a) PROVE InputInv'
    <3>1. /\ rx' = rx /\ fatal' = fatal /\ budget' = budget /\ sent' = sent /\ delivered' = delivered
          /\ OnTheWire' = OnTheWire
      BY <2>4 DEF Forget, OnTheWire
    <3>2. cache' \in [Hosts -> [Addrs -> Addrs \cup {None}]] /\ CacheTruthful'
      BY <2>4 DEF Forget, InputInv, CacheTruthful
    <3> QED
      BY <3>1, <3>2 DEF InputInv
  <2>5. ASSUME NEW f \in Injected, Inject(f) PROVE InputInv'
    BY <2>5, InjectedIsSound, TransmitKeeps DEF Inject
  <2>6. CASE UNCHANGED vars
    BY <2>6 DEF vars, InputInv, CacheTruthful, OnTheWire
  <2> QED
    BY <2>1, <2>2, <2>3, <2>4, <2>5, <2>6 DEF Next
<1> QED
  BY <1>1, <1>2, PTL DEF Spec

\* The histories and the variables have their types, and what a host gives to
\* ether_send fits into a frame.
THEOREM InputTypeCorrect == Spec => []TypeOK
<1>1. InputInv => TypeOK
  BY DEF InputInv, TypeOK, SentOk, CameIn
<1> QED
  BY <1>1, InputInvariant, PTL

\* arp_cache_insert learns no address for another station's, whatever the hosts
\* answer for addresses that nobody has.
THEOREM CachesTellTheTruth == Spec => []CacheTruthful
<1>1. InputInv => CacheTruthful
  BY DEF InputInv
<1> QED
  BY <1>1, InputInvariant, PTL

\* ip_reply_header and ether_output_reply send an answer to the station whose
\* address is in it, with all the bytes that ip_len promises.
THEOREM AnswersGoBack == Spec => []RepliesGoBack
<1>1. InputInv => RepliesGoBack
  BY DEF InputInv, RepliesGoBack, SentOk
<1> QED
  BY <1>1, InputInvariant, PTL

\* xstack_sock_dgram_input gives a socket bytes of one frame that was sent, and
\* of a correct one the datagram without its padding, also where the lengths
\* are computed modulo the range of a size_t.
THEOREM SocketsGetWhatWasSent == Spec => []DeliveredAsSent
<1>1. InputInv => DeliveredAsSent
  BY DEF InputInv, DeliveredAsSent, CameIn
<1> QED
  BY <1>1, InputInvariant, PTL

\* ip_input, icmp_input and udp_input compute a length beyond every buffer only
\* from a header that is longer than its packet, which no host ever sends.
THEOREM DaemonsSurvive == Spec => []OnlyLongHeadersKill
<1>1. InputInv => OnlyLongHeadersKill
  BY InjectedIsSound DEF InputInv, OnlyLongHeadersKill, Kills
<1> QED
  BY <1>1, InputInvariant, PTL
=============================================================================
