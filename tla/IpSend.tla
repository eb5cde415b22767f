------------------------------- MODULE IpSend -------------------------------
(***************************************************************************)
(* Transmission of IP packets: ip_send and ip_send_fragments (src/ip.c),   *)
(* the queue of deferred packets (src/ip_defer.c), and the length limit of *)
(* ether_send (src/linux/linux_ether.c).                                   *)
(*                                                                         *)
(* The egress thread sends a datagram at a time and defers it while the    *)
(* hardware address of its destination is unknown.  The ingress thread     *)
(* runs ip_defer_handler, as a periodic task and after every ARP packet,   *)
(* on the same queue without a lock.  Packets are numbered in the order    *)
(* they are sent; the bytes of a payload are numbered from 1.  ARP and the *)
(* routing table are what ip_send asks of them: the destinations that are  *)
(* resolved, and those that have a route.                                  *)
(***************************************************************************)
EXTENDS Integers, Sequences

CONSTANTS QSize,        \* XSTACK_IP_DEFER_MAX
          Mtu, HLen,    \* ETHER_DATA_LEN, sizeof(struct ip_hdr)
          BufLen,       \* room in a slot: ETHER_ALEN
          Dsts,         \* destinations
          Sizes,        \* payload sizes of the calls
          Requests,     \* {TRUE}, or BOOLEAN if sending an ARP request may fail
          MaxPackets    \* bound: calls of ip_send by the egress thread

ASSUME SendAssumption ==
    /\ QSize \in Nat \ {0, 1} /\ MaxPackets \in Nat
    /\ HLen \in Nat /\ HLen % 4 = 0 /\ Mtu \in Nat /\ Mtu > HLen + 8
    /\ BufLen \in Nat /\ Dsts # {} /\ Sizes \subseteq Nat /\ Requests \subseteq BOOLEAN

Slots == 0 .. QSize - 1
Empty == [tries |-> 0, dst |-> CHOOSE d \in Dsts : TRUE, pkt |-> 0, buf_size |-> 0]

VARIABLES
    queue, q_rd, q_wr,  \* ip_defer_queue
    defer_inhibit,
    routes,             \* destinations with a route
    resolved,           \* destinations the ARP cache resolves
    eg,                 \* egress thread: where it is in ip_send
    ing,                \* ingress thread: where it is in ip_defer_handler
    call,               \* the last packet given to ip_send: [pkt, dst, size]
    result,             \* what ip_send has returned for it
    frames,             \* the frames of it that left
    pushed,             \* history: packets that were queued: [pkt, dst]
    popped              \* history: packets the handler has sent: [pkt, dst]

queueVars   == <<queue, q_rd, q_wr, defer_inhibit>>
historyVars == <<call, result, frames, pushed>>
vars == <<queueVars, routes, resolved, eg, ing, historyVars, popped>>

Init ==
    /\ queue = [s \in Slots |-> Empty] /\ q_rd = 0 /\ q_wr = 0
    /\ defer_inhibit = FALSE
    /\ routes = Dsts /\ resolved = {}
    /\ eg = "idle" /\ ing = "idle"
    /\ call = [pkt |-> 0, dst |-> Empty.dst, size |-> 0] /\ result = "none" /\ frames = <<>>
    /\ pushed = <<>> /\ popped = <<>>

Successor(s) == (s + 1) % QSize

-----------------------------------------------------------------------------
(* Plausible defects of the operations below, for mutation of the model.   *)

MovedNot(f, plen) == f.data

TriedOutNever(s) == FALSE

HandlerNoRouteAnew ==
    /\ ing = "send" /\ queue[q_rd].dst \notin routes
    /\ queue' = [queue EXCEPT ![q_rd].tries = 0]
    /\ ing' = "idle"
    /\ UNCHANGED <<q_rd, q_wr, defer_inhibit, routes, resolved, eg, historyVars, popped>>

HandlerDropForgets ==
    /\ ing = "drop" /\ ing' = "peek"
    /\ UNCHANGED <<queueVars, routes, resolved, eg, historyVars, popped>>

-----------------------------------------------------------------------------
(* Frames.                                                                 *)

\* ip_off_round
OffRound(n) == ((n + 7) \div 8) * 8

\* next_fragment_size
NextFragmentSize(bytes) ==
    LET max == OffRound(Mtu - HLen - 8) IN IF bytes < max THEN bytes ELSE max

\* memmove(data, data + offset, plen)
Moved(f, plen) ==
    [i \in DOMAIN f.data |-> IF i <= plen THEN f.data[i + f.offset] ELSE f.data[i]]

\* One turn of the loop in ip_send_fragments.
FragmentStep(f) ==
    LET plen == NextFragmentSize(f.bytes)
        data == Moved(f, plen)
    IN  [bytes  |-> f.bytes - plen,
         offset |-> f.offset + plen,
         data   |-> data,
         out    |-> Append(f.out, [len  |-> HLen + plen,
                                   foff |-> f.offset \div 8,
                                   mf   |-> f.bytes - plen # 0,
                                   data |-> SubSeq(data, 1, plen)])]

Payload(size) == [i \in 1..size |-> i]

\* The frames that ip_send gives to ether_send for a payload.
FramesOf(size) ==
    LET loop[i \in 0 .. size] ==
            IF i = 0 THEN [bytes |-> size, offset |-> 0, data |-> Payload(size), out |-> <<>>]
            ELSE LET f == loop[i - 1] IN IF f.bytes = 0 THEN f ELSE FragmentStep(f)
    IN  IF size <= Mtu
        THEN <<[len |-> HLen + size, foff |-> 0, mf |-> FALSE, data |-> Payload(size)]>>
        ELSE loop[size].out

\* ether_send refuses a frame that is too long (-EMSGSIZE).
Fits(frame) == frame.len <= Mtu

\* What ip_send returns when k of n frames have left.
Sent(k, n) == IF k = n THEN "sent" ELSE "error"

-----------------------------------------------------------------------------
(* The egress thread: xstack_udp_send calls ip_send.                       *)

Begin(dst, size) ==
    /\ eg = "idle" /\ call.pkt < MaxPackets
    /\ call' = [pkt |-> call.pkt + 1, dst |-> dst, size |-> size]
    /\ result' = "none" /\ frames' = <<>>
    /\ eg' = "send"
    /\ UNCHANGED <<queueVars, routes, resolved, ing, pushed, popped>>

Return(r) == eg' = "idle" /\ result' = r

\* No route to host.
SendNoRoute ==
    /\ eg = "send" /\ call.dst \notin routes
    /\ Return("error")
    /\ UNCHANGED <<queueVars, routes, resolved, ing, call, frames, pushed, popped>>

\* arp_cache_get_haddr fails.  If its request could be sent the packet is
\* deferred; otherwise errno is not EHOSTUNREACH and ip_send returns 0.
SendUnresolved(requested) ==
    /\ eg = "send" /\ call.dst \in routes \ resolved
    /\ IF requested THEN eg' = "push" /\ UNCHANGED result ELSE Return("deferred")
    /\ UNCHANGED <<queueVars, routes, resolved, ing, call, frames, pushed, popped>>

\* The address is known: the frames leave, until one is refused or fails.
SendFrames ==
    /\ eg = "send" /\ call.dst \in routes \cap resolved
    /\ LET all == FramesOf(call.size) IN
       \E k \in 0 .. Len(all) :
           /\ \A i \in 1..k : Fits(all[i])
           /\ frames' = SubSeq(all, 1, k)
           /\ Return(Sent(k, Len(all)))
    /\ UNCHANGED <<queueVars, routes, resolved, ing, call, pushed, popped>>

\* ip_defer_push: -EALREADY, which ip_send turns into 0,
PushInhibit ==
    /\ eg = "push"
    /\ IF defer_inhibit THEN Return("deferred") ELSE eg' = "room" /\ UNCHANGED result
    /\ UNCHANGED <<queueVars, routes, resolved, ing, call, frames, pushed, popped>>

\* -ENOBUFS and -EMSGSIZE,
PushRoom ==
    /\ eg = "room"
    /\ IF Successor(q_wr) = q_rd \/ call.size > BufLen
       THEN Return("error") ELSE eg' = "fill" /\ UNCHANGED result
    /\ UNCHANGED <<queueVars, routes, resolved, ing, call, frames, pushed, popped>>

\* the slot, of which buf_size is not set,
PushFill ==
    /\ eg = "fill" /\ eg' = "commit"
    /\ queue' = [queue EXCEPT ![q_wr].tries = 0, ![q_wr].dst = call.dst, ![q_wr].pkt = call.pkt]
    /\ UNCHANGED <<q_rd, q_wr, defer_inhibit, routes, resolved, ing, historyVars, popped>>

\* and the commit.
PushCommit ==
    /\ eg = "commit"
    /\ q_wr' = Successor(q_wr) /\ pushed' = Append(pushed, [pkt |-> call.pkt, dst |-> call.dst])
    /\ Return("deferred")
    /\ UNCHANGED <<queue, q_rd, defer_inhibit, routes, resolved, ing, call, frames, popped>>

-----------------------------------------------------------------------------
(* The ingress thread: ip_defer_handler.  Its loop is left by return only, *)
(* so that defer_inhibit stays set.                                        *)

\* A periodic event, after arp_cache_update has forgotten some addresses, or
\* an ARP packet, after arp_cache_insert has learned one.
HandlerBegin(addresses) ==
    /\ ing = "idle" /\ ing' = "peek"
    /\ resolved' = addresses /\ defer_inhibit' = TRUE
    /\ UNCHANGED <<queue, q_rd, q_wr, routes, eg, historyVars, popped>>

Tick      == \E addresses \in SUBSET resolved : HandlerBegin(addresses)
ArpPacket == \E d \in Dsts : HandlerBegin(resolved \cup {d})

\* tries++ > 3
TriedOut(s) == queue[s].tries > 3

\* ip_defer_peek
HandlerPeek ==
    /\ ing = "peek"
    /\ IF q_rd = q_wr THEN ing' = "idle" /\ UNCHANGED queue
       ELSE /\ ing' = IF TriedOut(q_rd) THEN "drop" ELSE "send"
            /\ queue' = [queue EXCEPT ![q_rd].tries = @ + 1]
    /\ UNCHANGED <<q_rd, q_wr, defer_inhibit, routes, resolved, eg, historyVars, popped>>

\* ip_send without a route: the packet stays for a later call.
HandlerNoRoute ==
    /\ ing = "send" /\ queue[q_rd].dst \notin routes
    /\ queue' = [queue EXCEPT ![q_rd].tries = @ + 1]
    /\ ing' = "idle"
    /\ UNCHANGED <<q_rd, q_wr, defer_inhibit, routes, resolved, eg, historyVars, popped>>

\* ip_send with a route: a frame, unless it fails, if the address is resolved;
\* otherwise ip_defer_push refuses and ip_send returns 0.
HandlerSend ==
    /\ ing = "send" /\ queue[q_rd].dst \in routes
    /\ ing' = "drop"
    /\ \/ /\ queue[q_rd].dst \in resolved
          /\ popped' = Append(popped, [pkt |-> queue[q_rd].pkt, dst |-> queue[q_rd].dst])
       \/ UNCHANGED popped
    /\ UNCHANGED <<queueVars, routes, resolved, eg, historyVars>>

\* ip_defer_drop, and the next turn.
HandlerDrop ==
    /\ ing = "drop" /\ ing' = "peek"
    /\ q_rd' = IF q_rd = q_wr THEN q_rd ELSE Successor(q_rd)
    /\ UNCHANGED <<queue, q_wr, defer_inhibit, routes, resolved, eg, historyVars, popped>>

\* The routing table changes between two events of the ingress thread.
RouteChange ==
    /\ ing = "idle" /\ \E d \in Dsts : routes' \in {routes \cup {d}, routes \ {d}}
    /\ UNCHANGED <<queueVars, resolved, eg, ing, historyVars, popped>>

EgressStep ==
    \/ SendNoRoute \/ SendFrames
    \/ \E requested \in Requests : SendUnresolved(requested)
    \/ PushInhibit \/ PushRoom \/ PushFill \/ PushCommit

HandlerStep == HandlerPeek \/ HandlerNoRoute \/ HandlerSend \/ HandlerDrop

Next ==
    \/ \E dst \in Dsts, size \in Sizes : Begin(dst, size)
    \/ EgressStep
    \/ Tick \/ ArpPacket
    \/ HandlerStep
    \/ RouteChange

Spec == Init /\ [][Next]_vars

\* The ingress thread keeps running and the periodic event comes back: the
\* thread is not held in xstack_sock_dgram_input by a full ingress ring that no
\* application empties (module XstackSock).
FairSpec == Spec /\ WF_vars(HandlerStep) /\ WF_vars(Tick)

-----------------------------------------------------------------------------
(* Properties.                                                             *)

TypeOK ==
    /\ q_rd \in Slots /\ q_wr \in Slots /\ defer_inhibit \in BOOLEAN
    /\ \A s \in Slots : queue[s].tries \in 0..5 /\ queue[s].dst \in Dsts
                        /\ queue[s].pkt \in 0..MaxPackets /\ queue[s].buf_size = 0
    /\ eg \in {"idle", "send", "push", "room", "fill", "commit"}
    /\ ing \in {"idle", "peek", "send", "drop"}
    /\ result \in {"none", "deferred", "sent", "error"}

\* The frames carry the bytes of the packet in order, each at its offset, and
\* only the last one lacks the more-fragments flag.
Whole ==
    LET n == Len(frames)
        Start(i) == 8 * frames[i].foff
    IN  /\ n > 0
        /\ \A i \in 1..n :
               /\ frames[i].mf = (i < n)
               /\ Start(i) = IF i = 1 THEN 0 ELSE Start(i - 1) + Len(frames[i - 1].data)
               /\ \A j \in DOMAIN frames[i].data : frames[i].data[j] = Start(i) + j
        /\ Start(n) + Len(frames[n].data) = call.size

\* ip_send reports success exactly for packets that left whole, although a
\* fragment may fail after others are out and the fragments are made by moving
\* the payload within its own buffer; and every frame fits the link.
SentExactlyIfWhole ==
    /\ eg = "idle" => (result = "sent") = Whole
    /\ \A i \in DOMAIN frames : Fits(frames[i])

\* What the handler sends was queued, for that destination, leaves once and in
\* the order it was queued: the egress thread never writes a slot that the
\* handler has yet to read or is reading.
DeferredInOrder ==
    /\ \A i \in DOMAIN popped : \E j \in DOMAIN pushed : pushed[j] = popped[i]
    /\ \A i, j \in DOMAIN popped : i < j => popped[i].pkt < popped[j].pkt

\* A queued packet leaves the queue, sent or given up after a few tries, even
\* if its destination never gets a route or an answer.
Queued(p) ==
    \E i \in Slots : i < (q_wr - q_rd) % QSize /\ queue[(q_rd + i) % QSize].pkt = p
DeferredLeaves == \A p \in 1..MaxPackets : Queued(p) ~> ~Queued(p)

\* A packet for which ip_send returns 0 without sending it has been queued.
\* Refuted: once ip_defer_handler has run, defer_inhibit makes ip_defer_push
\* refuse every packet with -EALREADY.
DeferredIsQueued ==
    result = "deferred" => \E j \in DOMAIN pushed : pushed[j].pkt = call.pkt
=============================================================================
