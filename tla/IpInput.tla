------------------------------- MODULE IpInput -------------------------------
(***************************************************************************)
(* The input pipeline, from ether_receive over ether_input, arp_input,     *)
(* ip_input, icmp_input and udp_input to the reply (src/ether.c, src/ip.c, *)
(* src/icmp.c, src/udp.c, src/arp.c, src/linux/linux_ether.c), in several  *)
(* hosts on one network with an ordinary station.                          *)
(*                                                                         *)
(* Interfaces are promiscuous, so that every host sees every frame that is *)
(* not lost.  A station, its hardware address and its IP address have one  *)
(* name; Nobody is an address that no station has.  An IP header is the    *)
(* fields that decide something, its payload a kind and a port; sizes are  *)
(* those of the code.  TCP is in Tcp, fragments end up in IpFragment.      *)
(***************************************************************************)
EXTENDS Integers, Sequences

CONSTANTS Hosts,      \* the hosts that run this stack
          Station,    \* another station
          Nobody,     \* an address without a station
          None,       \* no hardware address; as a destination, all stations
          Ports,      \* ports a datagram may be for
          OpenPorts,  \* ports with a socket
          Injected,   \* the frames that Station sends
          Datagrams,  \* datagrams the hosts send: [to, port, n]
          SizeBits,   \* bits of a size_t: 64
          Budget      \* bound: frames sent other than in reply

DataLen  == 1500    \* ETHER_DATA_LEN, and what rx_buffer and frame leave of a frame
MinData  == 56      \* ETHER_MINLEN - ETHER_FCS_LEN
FcsLen   == 4
IpHdr    == 20
IcmpHdr  == 8       \* sizeof(struct icmp)
UdpHdr   == 8
Unreac   == 36      \* sizeof(struct icmp_destunreac)
OldData  == 8       \* and of the data that ends it
ArpLen   == 28

Addrs == Hosts \cup {Station, Nobody}

ASSUME InputAssumption ==
    /\ Budget \in Nat /\ Station \notin Hosts /\ None \notin Addrs
    /\ 2^SizeBits \in Nat /\ 2^SizeBits > 2 * DataLen

\* What may be in a frame.
IpBodies ==
    [type : {"ip"}, version : Nat, hlen : 0 .. 60, len : Nat, src : Addrs, dst : Addrs,
     frag : BOOLEAN, proto : {"icmp", "udp", "other"},
     kind : {"echo", "echo_reply", "unreachable", "none"} \cup Ports]
ArpBodies ==
    [type : {"arp"}, ether : BOOLEAN, ipv4 : BOOLEAN, oper : {"request", "reply", "other"},
     sha : Addrs, spa : Addrs, tpa : Addrs]
Frames ==
    [src : Addrs, dst : Addrs \cup {None}, body : IpBodies \cup ArpBodies \cup [type : {"other"}],
     bytes : Nat, size : Nat]

\* Station does not lie about its addresses; the hosts' datagrams need no
\* fragments.
ASSUME StationAssumption ==
    /\ Injected \subseteq Frames
    /\ \A f \in Injected :
           /\ f.src = Station
           /\ f.body.type = "ip" => f.body.src = Station
           /\ f.body.type = "arp" => f.body.sha = Station /\ f.body.spa = Station
    /\ Datagrams \subseteq [to : Addrs, port : Ports, n : 0 .. DataLen - IpHdr - UdpHdr]

Lesser(a, b)  == IF a < b THEN a ELSE b
Greater(a, b) == IF a < b THEN b ELSE a

VARIABLES
    rx,         \* frames that wait in the packet socket of each host
    fatal,      \* the frame that ended the daemon of each host, if any
    cache,      \* hardware addresses that arp_cache_get_haddr gives in each host
    budget,     \* frames that may still be sent
    sent,       \* history: what the hosts gave to ether_send
    delivered   \* history: datagrams given to sockets: [to, pkt, n]

vars == <<rx, fatal, cache, budget, sent, delivered>>

-----------------------------------------------------------------------------
(* Plausible defects of the operations below, for mutation of the model.   *)

LengthOkPadded(p, size) == p.len <= size

SwappedNot(p) == p

OwnAnyTarget(h, a) == TRUE

TooShortNever(bsize) == FALSE

FrameNoMinimum(src, dst, body, bytes) ==
    [src |-> src, dst |-> dst, body |-> body, bytes |-> bytes, size |-> bytes]

-----------------------------------------------------------------------------
(* Frames.                                                                 *)

\* A packet of n bytes after the header, as a station sends it.
Packet(src, dst, proto, kind, n) ==
    [type |-> "ip", version |-> 4, hlen |-> IpHdr, len |-> IpHdr + n, src |-> src, dst |-> dst,
     frag |-> FALSE, proto |-> proto, kind |-> kind]

Arp(oper, sha, spa, tpa) ==
    [type |-> "arp", ether |-> TRUE, ipv4 |-> TRUE, oper |-> oper, sha |-> sha, spa |-> spa,
     tpa |-> tpa]

\* ether_send: the bytes that are given, at least MinData, and a checksum.
\* More than DataLen bytes are refused (-EMSGSIZE).
Fits(bytes) == bytes <= DataLen
Frame(src, dst, body, bytes) ==
    [src |-> src, dst |-> dst, body |-> body, bytes |-> bytes,
     size |-> Greater(bytes, MinData) + FcsLen]

\* The packet socket is bound to all protocols and packet types of a promiscuous
\* interface; got are the hosts where the frame is not lost.  ether_receive
\* passes over the frames of the host itself.
Put(queues, f) ==
    \E got \in SUBSET (Hosts \ {f.src}) :
        rx' = [h \in Hosts |-> IF h \in got THEN Append(queues[h], f) ELSE queues[h]]

\* recvfrom cuts a frame off at the length of the buffer.
Received(f) == Lesser(f.size, DataLen)

\* The static entry that ip_config makes for the host itself does not resolve.
Init ==
    /\ rx = [h \in Hosts |-> <<>>]
    /\ fatal = [h \in Hosts |-> {}]
    /\ cache = [h \in Hosts |-> [a \in Addrs |-> None]]
    /\ budget = Budget
    /\ sent = {} /\ delivered = {}

-----------------------------------------------------------------------------
(* The handlers.  Each gives the reply with the bytes to send, and what    *)
(* goes to a socket; an error and 0 are no reply.  A length beyond every   *)
(* buffer ends the daemon when that many bytes are read or copied.         *)

Runs(h) == fatal[h] = {}

Outcome(reply, deliver) == [reply |-> reply, deliver |-> deliver, crash |-> FALSE]
Ignored == Outcome({}, {})
Crash   == [reply |-> {}, deliver |-> {}, crash |-> TRUE]

\* What follows a header of n bytes in size bytes, as a size_t.
After(size, n)  == (size - n) % 2^SizeBits
Beyond(bsize)   == bsize > DataLen

\* ip_route_find_by_iface: the address of the host's interface.
Own(h, a) == a = h

\* ip_reply_header swaps the addresses and adds the header to the bytes.
Swapped(p) == [p EXCEPT !.src = p.dst, !.dst = p.src]
ReplyHeader(p, bytes) == [Swapped(p) EXCEPT !.len = bytes + p.hlen]

\* icmp_generate_dest_unreachable: the message counts its data twice, and the
\* bytes to send count the message twice.  A fragment is answered by a packet
\* that is marked as a fragment.
DestUnreachable(p, bsize) ==
    LET msg   == Unreac + Lesser(OldData, bsize)
        reply == ReplyHeader([p EXCEPT !.version = 4, !.hlen = IpHdr, !.proto = "icmp",
                                       !.kind = "unreachable"], msg)
    IN  Outcome({[body |-> reply, bytes |-> msg + reply.len]}, {})

\* icmp_input, which computes a checksum over what it answers.
IcmpInput(p, bsize) ==
    LET reply == ReplyHeader([p EXCEPT !.kind = "echo_reply"], bsize)
    IN  IF bsize < IcmpHdr \/ p.kind # "echo" THEN Ignored
        ELSE IF Beyond(bsize) THEN Crash
        ELSE Outcome({[body |-> reply, bytes |-> reply.len]}, {})

\* find_udp_socket
FindUdpSocket(port) == port \in OpenPorts

\* udp_input, with the copy of xstack_sock_dgram_input, and ip_input's answer to
\* its -ENOTSOCK.
TooShort(bsize) == bsize < UdpHdr
ToSocket(h, p, n) == IF Beyond(n) THEN Crash ELSE Outcome({}, {[to |-> h, pkt |-> p, n |-> n]})
UdpInput(h, p, bsize) ==
    IF TooShort(bsize) THEN Ignored
    ELSE IF FindUdpSocket(p.kind) THEN ToSocket(h, p, After(bsize, UdpHdr))
    ELSE DestUnreachable(p, bsize)

\* The conditions under which ip_input goes on: the bit 0x40 of ip_vhl, the
\* length of the header, and ip_len == bsize.
VersionOk(p) == (p.version \div 4) % 2 = 1
LengthOk(p, size) == p.len = size
Accepted(p, size) == VersionOk(p) /\ p.hlen >= IpHdr /\ LengthOk(p, size)

\* The rest of ip_input, and the loop over the protocol handlers.  A header may
\* be longer than the packet.
IpInput(h, p, size) ==
    LET bsize == After(size, p.hlen)
    IN  CASE ~Accepted(p, size) \/ (Own(h, p.dst) /\ p.frag) -> Ignored
          [] Accepted(p, size) /\ ~Own(h, p.dst) -> DestUnreachable(p, bsize)
          [] Accepted(p, size) /\ Own(h, p.dst) /\ ~p.frag ->
                CASE p.proto = "icmp" -> IcmpInput(p, bsize)
                  [] p.proto = "udp"  -> UdpInput(h, p, bsize)
                  [] OTHER            -> DestUnreachable(p, bsize)

\* arp_input
ArpOk(m) == m.ether /\ m.ipv4
ArpInput(h, m, size) ==
    IF ArpOk(m) /\ m.oper = "request" /\ Own(h, m.tpa)
    THEN Outcome({[body |-> Arp("reply", h, m.tpa, m.spa), bytes |-> size]}, {})
    ELSE Ignored

\* ether_input
EtherInput(h, f) ==
    CASE f.body.type = "arp"   -> ArpInput(h, f.body, Received(f))
      [] f.body.type = "ip"    -> IpInput(h, f.body, Received(f))
      [] f.body.type = "other" -> Ignored

\* The arp_cache_insert of arp_input and of ip_input: <<address, hardware address>>
Learned(f) ==
    CASE f.body.type = "arp" /\ ArpOk(f.body) -> {<<f.body.spa, f.body.sha>>}
      [] f.body.type = "ip" /\ Accepted(f.body, Received(f)) -> {<<f.body.src, f.src>>}
      [] OTHER -> {}

\* ether_output_reply: the frame for the sender of f, unless it is refused.
OutputReply(h, f, reply) ==
    {Frame(h, f.src, r.body, r.bytes) : r \in {r \in reply : Fits(r.bytes)}}

\* A turn of xstack_ingress_thread.
Receive(h) ==
    /\ Runs(h) /\ rx[h] # <<>>
    /\ LET f     == Head(rx[h])
           o     == EtherInput(h, f)
           rest  == [rx EXCEPT ![h] = Tail(@)]
           out   == OutputReply(h, f, o.reply)
       IN
       /\ cache' = [cache EXCEPT ![h] = [a \in Addrs |->
                       IF \E mac \in Addrs : <<a, mac>> \in Learned(f)
                       THEN CHOOSE mac \in Addrs : <<a, mac>> \in Learned(f) ELSE @[a]]]
       /\ fatal' = IF o.crash THEN [fatal EXCEPT ![h] = {f}] ELSE fatal
       /\ delivered' = delivered \cup o.deliver
       /\ sent' = sent \cup out
       /\ IF out = {} THEN rx' = rest ELSE \E r \in out : Put(rest, r)
       /\ UNCHANGED budget

-----------------------------------------------------------------------------
(* What the hosts send of their own accord, and what Station sends.        *)

Transmit(f) ==
    /\ budget > 0 /\ budget' = budget - 1
    /\ Put(rx, f)
    /\ sent' = IF f.src \in Hosts THEN sent \cup {f} ELSE sent
    /\ UNCHANGED <<fatal, cache, delivered>>

\* arp_gratuitous
Announce(h) == Transmit(Frame(h, None, Arp("request", h, h, h), ArpLen))

\* arp_request
ArpRequest(h, a) == Transmit(Frame(h, None, Arp("request", h, h, a), ArpLen))

\* ip_send of a datagram: a frame to the hardware address in the cache, or a
\* request to all.
SendDatagram(h, d) ==
    LET mac   == cache[h][d.to]
        bytes == IpHdr + UdpHdr + d.n
    IN  IF mac = None THEN ArpRequest(h, d.to)
        ELSE Transmit(Frame(h, mac, Packet(h, d.to, "udp", d.port, UdpHdr + d.n), bytes))

Inject(f) == Transmit(f)

\* arp_cache_update and arp_cache_insert give an entry up.
Forget(h, a) ==
    /\ cache[h][a] # None
    /\ cache' = [cache EXCEPT ![h][a] = None]
    /\ UNCHANGED <<rx, fatal, budget, sent, delivered>>

Next ==
    \/ \E h \in Hosts : Runs(h) /\
           (\/ Receive(h) \/ Announce(h)
            \/ \E d \in Datagrams : SendDatagram(h, d)
            \/ \E a \in Addrs : Forget(h, a))
    \/ \E f \in Injected : Inject(f)

Spec == Init /\ [][Next]_vars

\* The ingress thread of every host keeps receiving.
FairSpec == Spec /\ \A h \in Hosts : WF_vars(Receive(h))

-----------------------------------------------------------------------------
(* Properties.                                                             *)

TypeOK ==
    /\ cache \in [Hosts -> [Addrs -> Addrs \cup {None}]]
    /\ budget \in 0..Budget
    /\ \A f \in sent : Fits(f.bytes) /\ f.size \in MinData + FcsLen .. DataLen + FcsLen
    /\ \A d \in delivered : d.to \in Hosts /\ d.n \in Nat

\* ip_input answers every packet that is not for the host with an error, an
\* error not excepted, and promiscuous hosts see each other's answers.  Yet
\* the answers to answers come to an end: what a host sends is longer by its
\* checksum than ip_len says, and the test of the length refuses it.
Quiet == <>[](\A h \in Hosts : Runs(h) => rx[h] = <<>>)

\* arp_cache_insert is called for the sender of every ARP message and of every
\* IP packet that is accepted.  If Station does not lie about its address, the
\* hosts learn no address for another station's, although the answers that
\* ip_input generates for others bear the address of Nobody.
CacheTruthful == \A h \in Hosts, a \in Addrs : cache[h][a] \in {a, None}

\* An answer goes to the station whose address is in its IP header, has all
\* the bytes that ip_len promises, and bears the address of the host itself
\* unless it tells of an unreachable one; an ARP message claims the sender's
\* own address.
RepliesGoBack ==
    \A f \in sent :
        /\ f.body.type = "ip" => /\ f.body.dst = f.dst /\ f.body.len <= f.bytes
                                 /\ f.body.kind # "unreachable" => f.body.src = f.src
        /\ f.body.type = "arp" => f.body.sha = f.src /\ f.body.spa = f.src

\* A datagram that a socket is given was in a frame that somebody sent: none of
\* its bytes is from beyond the frame, where the buffer of xstack_ingress_thread
\* holds what came before, and if the sender's ip_len counts what it sent, these
\* are the bytes of the datagram without the padding and the checksum.
DeliveredAsSent ==
    \A d \in delivered :
        \E f \in sent \cup Injected :
            LET n == d.pkt.hlen + UdpHdr + d.n IN
            /\ f.body = d.pkt /\ d.pkt.dst = d.to
            /\ n <= Received(f)
            /\ f.body.len = f.bytes => n = f.bytes

\* No answer of a host, and nothing that another station sends with a header
\* within the packet, brings a host down, although ip_input and udp_input
\* subtract lengths of another's making: only a header longer than ip_len does,
\* which ip_input does not refuse.
OnlyLongHeadersKill ==
    \A h \in Hosts : \A f \in fatal[h] :
        /\ f.src \notin Hosts
        /\ f.body.type = "ip" /\ f.body.dst = h /\ f.body.hlen > f.body.len
=============================================================================
