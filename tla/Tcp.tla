--------------------------------- MODULE Tcp ---------------------------------
(***************************************************************************)
(* TCP input (src/tcp.c): the map of control blocks, tcp_input and the     *)
(* state machine tcp_fsm, which answers a segment by rewriting it.         *)
(*                                                                         *)
(* The peers are clients as RFC 793 describes them, and may crash and open *)
(* the same connection anew.  A segment that was sent may arrive at any    *)
(* time, any number of times, or never: the network is the set of all      *)
(* segments sent.  Payload, window and options do not matter to tcp_fsm    *)
(* and are left out; sequence numbers have SeqBits bits.                   *)
(*                                                                         *)
(* tcp_conn_cmp adds the results of two memcmp, so that it takes different *)
(* connections for equal and need not be transitive.  RB_FIND is exact     *)
(* among connections that it orders; among others it may also miss a       *)
(* control block, if a rotation has brought the tree into a shape in which *)
(* the search goes another way than the insertion did.                     *)
(***************************************************************************)
EXTENDS Integers, Sequences

CONSTANTS Conns,    \* connections: local and remote address and port
          Cmp,      \* tcp_conn_cmp of two connections
          MaxBlocks,\* bound: control blocks
          SeqBits,  \* 32
          MaxRuns,  \* bound: runs of a peer
          Isn,      \* the first sequence number of each run of each peer
          MaxData,  \* bound: data segments of a run
          HdrOk     \* whether tcp_hdr_size accepts a header: {TRUE} or BOOLEAN

\* A client that opens the same connection anew does so with a new initial
\* sequence number, as RFC 793 asks.
ASSUME TcpAssumption ==
    /\ SeqBits \in Nat \ {0, 1} /\ 2^SeqBits \in Nat \ {0, 1}
    /\ MaxBlocks \in Nat /\ MaxData \in Nat /\ HdrOk \subseteq BOOLEAN
    /\ MaxRuns \in Nat \ {0} /\ Isn \in [Conns -> [1..MaxRuns -> 0 .. 2^SeqBits - 1]]
    /\ \A c \in Conns : \A q, r \in 1..MaxRuns : Isn[c][q] = Isn[c][r] => q = r

\* memcmp changes its sign with the order of its arguments.
ASSUME CmpAssumption ==
    /\ Cmp \in [Conns -> [Conns -> Int]]
    /\ \A c, d \in Conns : Cmp[c][d] < 0 <=> Cmp[d][c] > 0

Runs      == 1..MaxRuns
Seqs      == 0 .. 2^SeqBits - 1
Add(n, i) == (n + i) % 2^SeqBits

\* tcp_conn_cmp orders the connections of C, as it does any two connections
\* and any number of connections with one local, or one remote, endpoint.
Orders(C) == \A a, b, c \in C : Cmp[a][b] <= 0 /\ Cmp[b][c] <= 0 => Cmp[a][c] <= 0

VARIABLES
    tcb,        \* tcp_conn_map: the control blocks, as they were made
    run,        \* the present run of each peer
    peer,       \* its runs: their state, and how many sequence numbers they used
    toServer,   \* segments sent by the peers
    toPeer      \* segments sent by tcp_input

vars == <<tcb, run, peer, toServer, toPeer>>

\* The run of the sender is not part of a segment but tells whose it was.
Segment(c, r, flags, seqno, ack_num) ==
    [conn |-> c, run |-> r, flags |-> flags, seqno |-> seqno, ack_num |-> ack_num]

Init ==
    /\ tcb = << >>
    /\ run = [c \in Conns |-> 1]
    /\ peer = [c \in Conns |-> [r \in Runs |-> [state |-> "closed", used |-> 0]]]
    /\ toServer = {} /\ toPeer = {}

-----------------------------------------------------------------------------
(* Plausible defects of the operations below, for mutation of the model.   *)

ListenStays(t, s) ==
    LET r == Segment(s.conn, s.run, s.flags \cup {"ACK"}, 0, Add(s.seqno, 1))
    IN  [tcb   |-> [t EXCEPT !.recv_next = r.ack_num, !.send_next = Add(r.seqno, 1)],
         reply |-> {r}]

SynRcvdSeqOnly(t, s) ==
    [tcb |-> IF s.seqno = t.recv_next THEN [t EXCEPT !.state = "ESTABLISHED"] ELSE t, reply |-> {}]

EstablishedAckAhead(t, s) ==
    IF "FIN" \notin s.flags THEN [tcb |-> t, reply |-> {}]
    ELSE LET r == Segment(s.conn, s.run, s.flags \cup {"ACK"}, t.send_next, Add(s.seqno, 2))
         IN  [tcb   |-> [t EXCEPT !.state = "LAST_ACK", !.recv_next = r.ack_num,
                                  !.send_next = Add(r.seqno, 1)],
              reply |-> {r}]

EstablishedAnyAck(t, s) ==
    [tcb |-> IF "ACK" \in s.flags /\ s.seqno # t.recv_next
             THEN [t EXCEPT !.state = "LAST_ACK"] ELSE t, reply |-> {}]

-----------------------------------------------------------------------------
(* tcp_fsm: the control block after segment s, and the reply.              *)

Ignore(t) == [tcb |-> t, reply |-> {}]

Listen(t, s) ==
    LET r == Segment(s.conn, s.run, s.flags \cup {"ACK"}, 0, Add(s.seqno, 1))
    IN  IF "SYN" \notin s.flags THEN Ignore(t)
        ELSE [tcb   |-> [t EXCEPT !.state = "SYN_RCVD", !.recv_next = r.ack_num,
                                  !.send_next = Add(r.seqno, 1)],
              reply |-> {r}]

SynRcvd(t, s) ==
    LET r == Segment(s.conn, s.run, s.flags \ {"ACK"}, t.send_next, s.seqno)
    IN  IF "ACK" \in s.flags /\ s.seqno = t.recv_next /\ s.ack_num = t.send_next
        THEN Ignore([t EXCEPT !.state = "ESTABLISHED"])
        ELSE [tcb   |-> [t EXCEPT !.recv_next = r.ack_num, !.send_next = Add(r.seqno, 1)],
              reply |-> {r}]

Established(t, s) ==
    LET r == Segment(s.conn, s.run, s.flags \cup {"ACK"}, t.send_next, Add(s.seqno, 1))
    IN  IF "FIN" \notin s.flags THEN Ignore(t)
        ELSE [tcb   |-> [t EXCEPT !.state = "LAST_ACK", !.recv_next = r.ack_num,
                                  !.send_next = Add(r.seqno, 1)],
              reply |-> {r}]

LastAck(t, s) == Ignore(IF "ACK" \in s.flags THEN [t EXCEPT !.state = "CLOSED"] ELSE t)

Fsm(t, s) ==
    CASE t.state = "LISTEN"      -> Listen(t, s)
      [] t.state = "SYN_RCVD"    -> SynRcvd(t, s)
      [] t.state = "ESTABLISHED" -> Established(t, s)
      [] t.state = "LAST_ACK"    -> LastAck(t, s)
      [] t.state = "CLOSED"      -> Ignore(t)

\* A client discards a segment that acknowledges nothing, such as the replies
\* of SYN_RCVD; the network does not keep them.
Heeded(reply) == {r \in reply : "ACK" \in r.flags}

\* tcp_find_connection: the control blocks that tcp_conn_cmp takes for that of
\* the segment, and what RB_FIND may return, 0 for NULL.
Held    == {tcb[b].conn : b \in DOMAIN tcb}
Same(s) == {b \in DOMAIN tcb : Cmp[s.conn][tcb[b].conn] = 0}
FindConnection(s) ==
    IF Same(s) # {} /\ Orders(Held \cup {s.conn}) THEN Same(s) ELSE Same(s) \cup {0}

\* tcp_new_connection, and the state tcp_input gives it
NewConnection(s) ==
    [conn |-> s.conn, run |-> s.run, state |-> "LISTEN", recv_next |-> 0, send_next |-> 0]

\* tcp_input: a SYN that finds no control block makes one.  A bad header is
\* then only noticed when the reply is to be sent.
InputNew(s, hdrOk) ==
    LET f == Fsm(NewConnection(s), s) IN
    /\ 0 \in FindConnection(s) /\ "SYN" \in s.flags /\ Len(tcb) < MaxBlocks
    /\ tcb' = Append(tcb, f.tcb)
    /\ toPeer' = IF hdrOk THEN toPeer \cup Heeded(f.reply) ELSE toPeer

\* A SYN that finds one, another segment that finds none, and a bad header are
\* refused.
InputOld(s, b) ==
    LET f == Fsm(tcb[b], s) IN
    /\ b # 0 /\ "SYN" \notin s.flags
    /\ tcb' = [tcb EXCEPT ![b] = f.tcb]
    /\ toPeer' = toPeer \cup Heeded(f.reply)

TcpInput(s, hdrOk) ==
    /\ s \in toServer
    /\ InputNew(s, hdrOk) \/ (hdrOk /\ \E b \in FindConnection(s) : InputOld(s, b))
    /\ UNCHANGED <<run, peer, toServer>>

-----------------------------------------------------------------------------
(* The peers.                                                              *)

Now(c) == peer[c][run[c]]
\* The next sequence number of peer c.
Unused(c) == Add(Isn[c][run[c]], Now(c).used)

\* Peer c goes to a state with a segment that uses n sequence numbers.
PeerSends(c, state, flags, n, ack) ==
    /\ toServer' = toServer \cup {Segment(c, run[c], flags, Unused(c), ack)}
    /\ peer' = [peer EXCEPT ![c][run[c]] = [state |-> state, used |-> Now(c).used + n]]
    /\ UNCHANGED <<tcb, run, toPeer>>

PeerOpen(c) == Now(c).state = "closed" /\ PeerSends(c, "syn_sent", {"SYN"}, 1, 0)

PeerSynAck(c, r) ==
    /\ Now(c).state = "syn_sent"
    /\ r.conn = c /\ r.flags = {"SYN", "ACK"} /\ r.ack_num = Unused(c)
    /\ PeerSends(c, "established", {"ACK"}, 0, Add(r.seqno, 1))

\* A SYN|ACK for an earlier run is answered with a reset.
PeerReset(c, r) ==
    /\ Now(c).state = "syn_sent"
    /\ r.conn = c /\ r.flags = {"SYN", "ACK"} /\ r.ack_num # Unused(c)
    /\ toServer' = toServer \cup {Segment(c, run[c], {"RST"}, r.ack_num, 0)}
    /\ UNCHANGED <<tcb, run, peer, toPeer>>

\* The server's first sequence number is 0; it sends no data.
PeerData(c) ==
    /\ Now(c).state = "established" /\ Now(c).used <= MaxData
    /\ PeerSends(c, "established", {"ACK"}, 1, 1)

PeerClose(c) == Now(c).state = "established" /\ PeerSends(c, "fin_wait", {"FIN", "ACK"}, 1, 1)

PeerFinAck(c, r) ==
    /\ Now(c).state = "fin_wait"
    /\ r.conn = c /\ r.flags = {"FIN", "ACK"} /\ r.seqno = 1 /\ r.ack_num = Unused(c)
    /\ PeerSends(c, "done", {"ACK"}, 0, Add(r.seqno, 1))

\* The peer crashes, or is done, and uses the same ports again.
PeerRestart(c) ==
    /\ Now(c).state # "closed" /\ run[c] < MaxRuns
    /\ run' = [run EXCEPT ![c] = @ + 1]
    /\ UNCHANGED <<tcb, peer, toServer, toPeer>>

PeerStep(c) ==
    \/ PeerOpen(c) \/ PeerData(c) \/ PeerClose(c) \/ PeerRestart(c)
    \/ \E r \in toPeer : PeerSynAck(c, r) \/ PeerReset(c, r) \/ PeerFinAck(c, r)

Next ==
    \/ \E s \in toServer, hdrOk \in HdrOk : TcpInput(s, hdrOk)
    \/ \E c \in Conns : PeerStep(c)

Spec == Init /\ [][Next]_vars

-----------------------------------------------------------------------------
(* Properties.                                                             *)

TypeOK ==
    /\ Len(tcb) <= MaxBlocks
    /\ \A b \in DOMAIN tcb :
           /\ tcb[b].conn \in Conns /\ tcb[b].run \in Runs
           /\ tcb[b].state \in {"SYN_RCVD", "ESTABLISHED", "LAST_ACK", "CLOSED"}
           /\ tcb[b].recv_next \in Seqs /\ tcb[b].send_next \in Seqs
    /\ \A c \in Conns : run[c] \in Runs /\ \A r \in Runs :
           peer[c][r].state \in {"closed", "syn_sent", "established", "fin_wait", "done"}

\* The run of the peer whose SYN made the control block.
Opener(t) == peer[t.conn][t.run]

\* A connection that tcp_fsm takes for established, or has begun to close, is
\* one whose peer has received the SYN|ACK in the run that opened it: no
\* stray, duplicate or overtaking segment, none of another run and none of a
\* connection with the same sum completes a handshake.
HandshakeAgreed ==
    \A b \in DOMAIN tcb :
        tcb[b].state \in {"ESTABLISHED", "LAST_ACK", "CLOSED"}
            => Opener(tcb[b]).state \in {"established", "fin_wait", "done"}

\* tcp_fsm never acknowledges a sequence number that the peer has not used.
AcksOnlySent ==
    \A r \in toPeer :
        \E i \in 1 .. peer[r.conn][r.run].used : r.ack_num = Add(Isn[r.conn][r.run], i)

\* Both ends agree on the close: tcp_fsm leaves ESTABLISHED only after the
\* FIN of the run that opened the connection, and a peer is done only after
\* tcp_fsm has left it.
CloseAgreed ==
    /\ \A b \in DOMAIN tcb : tcb[b].state \in {"LAST_ACK", "CLOSED"}
                                  => Opener(tcb[b]).state \in {"fin_wait", "done"}
    /\ \A c \in Conns, r \in Runs : peer[c][r].state = "done"
           => \E b \in DOMAIN tcb : /\ tcb[b].conn = c /\ tcb[b].run = r
                                     /\ tcb[b].state \in {"LAST_ACK", "CLOSED"}
=============================================================================
