----------------------------- MODULE TcpProofs -----------------------------
(***************************************************************************)
(* Machine-checked proofs about tcp_input and tcp_fsm, for any number of   *)
(* connections, of runs of a peer and of bits in a sequence number.  What  *)
(* needs the search of tcp_find_connection to be exact is proved for       *)
(* connections that tcp_conn_cmp orders, though it may not tell them       *)
(* apart; the rest whatever the search misses.                             *)
(***************************************************************************)
EXTENDS Tcp, Integers, TLAPS

-----------------------------------------------------------------------------
(* Remainders.                                                             *)

\* A quotient and a remainder are unique.
LEMMA ModUnique ==
    ASSUME NEW m \in Nat \ {0}, NEW q \in Nat, NEW r \in 0 .. m - 1
    PROVE  (m * q + r) % m = r
  BY SMT

\* Adding one to a remainder.
LEMMA ModSucc ==
    ASSUME NEW m \in Nat \ {0}, NEW a \in Nat
    PROVE  ((a % m) + 1) % m = (a + 1) % m
<1> DEFINE q == a \div m
           r == a % m
<1>1. a = m * q + r /\ r \in 0 .. m - 1 /\ q \in Nat
  BY SMT
<1>2. CASE r + 1 < m
  <2>1. a + 1 = m * q + (r + 1) /\ r + 1 \in 0 .. m - 1
    BY <1>1, <1>2, SMT
  <2>2. (m * q + (r + 1)) % m = r + 1
    BY <1>1, <2>1, ModUnique
  <2>3. (r + 1) % m = r + 1
    BY <1>1, <1>2, SMT
  <2> QED
    BY <2>1, <2>2, <2>3
<1>3. CASE r + 1 = m
  <2>1. a + 1 = m * (q + 1) + 0 /\ 0 \in 0 .. m - 1 /\ q + 1 \in Nat
    BY <1>1, <1>3, SMT
  <2>2. (m * (q + 1) + 0) % m = 0
    BY <2>1, ModUnique
  <2>3. (r + 1) % m = 0
    BY <1>1, <1>3, SMT
  <2> QED
    BY <2>1, <2>2, <2>3
<1> QED
  BY <1>1, <1>2, <1>3

-----------------------------------------------------------------------------
(* The inductive invariant.                                                *)

TcbStates  == {"SYN_RCVD", "ESTABLISHED", "LAST_ACK", "CLOSED"}
PeerStates == {"closed", "syn_sent", "established", "fin_wait", "done"}
Flags      == {{"SYN"}, {"ACK"}, {"RST"}, {"FIN", "ACK"}}
Replies    == {{"SYN", "ACK"}, {"FIN", "ACK"}}

Tcbs     == [conn : Conns, run : Runs, state : TcbStates, recv_next : Seqs, send_next : Seqs]
Segments(F) == [conn : Conns, run : Runs, flags : F, seqno : Seqs, ack_num : Seqs]

\* The types of the variables, with those of segments.
Types ==
    /\ tcb \in Seq(Tcbs) /\ Len(tcb) <= MaxBlocks
    /\ run \in [Conns -> Runs]
    /\ peer \in [Conns -> [Runs -> [state : PeerStates, used : Nat]]]
    /\ toServer \subseteq Segments(Flags)
    /\ toPeer \subseteq Segments(Replies)

\* Run r of peer c has opened a control block that is in a state of S, or in any.
In(c, r, S)  == \E b \in DOMAIN tcb : tcb[b].conn = c /\ tcb[b].run = r /\ tcb[b].state \in S
Opened(c, r) == \E b \in DOMAIN tcb : tcb[b].conn = c /\ tcb[b].run = r

\* A run that has sent a SYN, and only such a run, has used numbers.
Counts ==
    \A c \in Conns, r \in Runs :
        /\ peer[c][r].state = "closed" => peer[c][r].used = 0
        /\ peer[c][r].state = "syn_sent" => peer[c][r].used = 1
        /\ peer[c][r].state # "closed" => peer[c][r].used > 0

\* What a segment of a peer says: a SYN, that its run has begun, and a
\* segment with ACK, that its run is an opener and has received the SYN|ACK.
FromPeer ==
    \A s \in toServer :
        /\ s.flags = {"SYN"} => /\ peer[s.conn][s.run].state # "closed"
                                /\ s.seqno = Isn[s.conn][s.run]
        /\ "ACK" \in s.flags => /\ Opened(s.conn, s.run)
                                /\ peer[s.conn][s.run].state \in {"established", "fin_wait", "done"}
        /\ "FIN" \in s.flags => /\ peer[s.conn][s.run].state \in {"fin_wait", "done"}
                                /\ \E i \in 1 .. peer[s.conn][s.run].used :
                                       Add(s.seqno, 1) = Add(Isn[s.conn][s.run], i)

\* What a reply says: it went to an opener.
FromServer ==
    \A r \in toPeer :
        /\ Opened(r.conn, r.run)
        /\ r.flags = {"SYN", "ACK"} => r.ack_num = Add(Isn[r.conn][r.run], 1)

\* What the state of a run says: only an opener gets beyond syn_sent.
PeerKnows ==
    \A c \in Conns, r \in Runs :
        peer[c][r].state \in {"established", "fin_wait", "done"} => Opened(c, r)

\* What a control block says about its opener.
Begun == \A b \in DOMAIN tcb : Opener(tcb[b]).state # "closed"

TcpInv ==
    /\ Types /\ Counts /\ FromPeer /\ FromServer /\ PeerKnows /\ Begun
    /\ AcksOnlySent

\* What an exact search adds.  No two control blocks are equal to tcp_conn_cmp;
Unique ==
    \A a, b \in DOMAIN tcb : Cmp[tcb[a].conn][tcb[b].conn] = 0 => a = b

\* a FIN|ACK, and a run that is done, say that tcp_fsm has left ESTABLISHED;
FinAcked ==
    \A r \in toPeer : r.flags = {"FIN", "ACK"} => In(r.conn, r.run, {"LAST_ACK", "CLOSED"})
DoneKnows ==
    \A c \in Conns, r \in Runs : peer[c][r].state = "done" => In(c, r, {"LAST_ACK", "CLOSED"})

\* the state of a control block says how far its opener is.
TcbKnows ==
    \A b \in DOMAIN tcb :
        /\ tcb[b].state \in {"ESTABLISHED", "LAST_ACK", "CLOSED"}
               => Opener(tcb[b]).state \in {"established", "fin_wait", "done"}
        /\ tcb[b].state \in {"LAST_ACK", "CLOSED"} => Opener(tcb[b]).state \in {"fin_wait", "done"}

OrderedInv == Unique /\ FinAcked /\ DoneKnows /\ TcbKnows

-----------------------------------------------------------------------------
(* Lemmas about the operators.                                             *)

LEMMA AddType ==
    ASSUME NEW n \in Nat, NEW i \in Nat
    PROVE  Add(n, i) \in Seqs
  BY TcpAssumption DEF Add, Seqs

\* The fields of a control block in the map.
LEMMA BlockType ==
    ASSUME Types, NEW b \in DOMAIN tcb
    PROVE  /\ tcb[b] \in Tcbs /\ tcb[b].conn \in Conns /\ tcb[b].run \in Runs
           /\ tcb[b].state \in TcbStates
           /\ tcb[b].recv_next \in Seqs /\ tcb[b].send_next \in Seqs
<1>1. tcb[b] \in Tcbs
  BY DEF Types
<1> QED
  BY <1>1 DEF Tcbs

LEMMA SeqsAreNat == Seqs \subseteq Nat /\ 0 \in Seqs
  BY TcpAssumption DEF Seqs

LEMMA AddZero ==
    ASSUME NEW n \in Seqs
    PROVE  Add(n, 0) = n
<1> DEFINE m == 2^SeqBits
<1>1. m \in Nat \ {0} /\ n \in 0 .. m - 1 /\ Add(n, 0) = (n + 0) % m
  BY TcpAssumption DEF Seqs, Add
<1> HIDE DEF m
<1> QED
  BY <1>1, SMT

LEMMA AddSucc ==
    ASSUME NEW n \in Nat, NEW i \in Nat
    PROVE  Add(Add(n, i), 1) = Add(n, i + 1)
<1> DEFINE m == 2^SeqBits
           a == n + i
<1>1. m \in Nat \ {0} /\ a \in Nat /\ n + (i + 1) = a + 1
  BY TcpAssumption
<1>2. Add(Add(n, i), 1) = ((a % m) + 1) % m /\ Add(n, i + 1) = (n + (i + 1)) % m
  BY DEF Add
<1> HIDE DEF m, a
<1>3. ((a % m) + 1) % m = (a + 1) % m
  BY <1>1, ModSucc
<1> QED
  BY <1>1, <1>2, <1>3

\* Different runs of a peer open with different numbers, and are told apart
\* by what acknowledges them.
LEMMA IsnTellsRuns ==
    ASSUME NEW c \in Conns, NEW q \in Runs, NEW r \in Runs,
           Add(Isn[c][q], 1) = Add(Isn[c][r], 1)
    PROVE  q = r
<1> DEFINE m == 2^SeqBits
<1>1. m \in Nat \ {0, 1} /\ Isn[c][q] \in 0 .. m - 1 /\ Isn[c][r] \in 0 .. m - 1
  BY TcpAssumption DEF Runs
<1>2. (Isn[c][q] + 1) % m = (Isn[c][r] + 1) % m
  BY DEF Add
<1> HIDE DEF m
<1>3. Isn[c][q] = Isn[c][r]
  BY <1>1, <1>2, SMT
<1> QED
  BY <1>3, TcpAssumption DEF Runs

\* The flags of the segments, taken apart.
LEMMA FlagFacts ==
    ASSUME NEW f \in Flags
    PROVE  /\ "SYN" \in f => f = {"SYN"} /\ f \cup {"ACK"} = {"SYN", "ACK"}
           /\ "FIN" \in f => "ACK" \in f /\ f \cup {"ACK"} = {"FIN", "ACK"}
           /\ f = {"SYN"} => "SYN" \in f
           /\ "ACK" \notin f \ {"ACK"}
  BY DEF Flags

LEMMA ReplyFacts ==
    /\ {"SYN", "ACK"} # {"FIN", "ACK"}
    /\ {"SYN", "ACK"} \in Replies /\ {"FIN", "ACK"} \in Replies
    /\ "ACK" \in {"SYN", "ACK"} /\ "ACK" \in {"FIN", "ACK"}
<1>1. "SYN" \in {"SYN", "ACK"} /\ "SYN" \notin {"FIN", "ACK"}
  OBVIOUS
<1>2. {"SYN", "ACK"} # {"FIN", "ACK"}
  BY <1>1
<1> QED
  BY <1>2 DEF Replies

-----------------------------------------------------------------------------
(* What tcp_input does to a control block.                                 *)

\* A SYN opens control block b with contents t.
Opens(s, b, t) ==
    /\ 0 \in FindConnection(s) /\ s.flags = {"SYN"}
    /\ b = Len(tcb) + 1 /\ b <= MaxBlocks /\ tcb' = Append(tcb, t)
    /\ t.conn = s.conn /\ t.run = s.run /\ t.state = "SYN_RCVD"
    /\ \/ toPeer' = toPeer
       \/ toPeer' = toPeer \cup {Segment(s.conn, s.run, {"SYN", "ACK"}, 0, Add(s.seqno, 1))}

\* Any other segment leaves the connection and the run of the block that it
\* finds alone, and moves its state as tcp_fsm does.
Moves(s, b, t) ==
    LET old == tcb[b] IN
    /\ b \in Same(s) /\ tcb' = [tcb EXCEPT ![b] = t]
    /\ t.conn = old.conn /\ t.run = old.run
    /\ \/ t.state = old.state /\ toPeer' = toPeer
       \/ /\ old.state = "SYN_RCVD" /\ t.state = "ESTABLISHED"
          /\ "ACK" \in s.flags /\ toPeer' = toPeer
       \/ /\ old.state = "ESTABLISHED" /\ t.state = "LAST_ACK" /\ "FIN" \in s.flags
          /\ toPeer' = toPeer \cup {Segment(s.conn, s.run, {"FIN", "ACK"}, old.send_next,
                                            Add(s.seqno, 1))}
       \/ old.state = "LAST_ACK" /\ t.state = "CLOSED" /\ toPeer' = toPeer

LEMMA NewCases ==
    ASSUME Types, NEW s \in toServer, NEW h \in BOOLEAN, InputNew(s, h)
    PROVE  \E t \in Tcbs : Opens(s, Len(tcb) + 1, t)
<1> DEFINE t == [conn |-> s.conn, run |-> s.run, state |-> "SYN_RCVD",
                 recv_next |-> Add(s.seqno, 1), send_next |-> Add(0, 1)]
           r == Segment(s.conn, s.run, {"SYN", "ACK"}, 0, Add(s.seqno, 1))
           f == Fsm(NewConnection(s), s)
<1>1. /\ s.conn \in Conns /\ s.run \in Runs /\ s.flags \in Flags /\ s.seqno \in Seqs
      /\ "SYN" \in s.flags
  BY DEF Types, Segments, InputNew
<1>2. s.flags = {"SYN"} /\ s.flags \cup {"ACK"} = {"SYN", "ACK"}
  BY <1>1, FlagFacts
<1>3. Add(s.seqno, 1) \in Seqs /\ Add(0, 1) \in Seqs
  BY <1>1, SeqsAreNat, AddType
<1>4. f = [tcb |-> t, reply |-> {r}]
  BY <1>1, <1>2 DEF Fsm, NewConnection, Listen, Segment
<1>5. f.tcb = t /\ f.reply = {r}
  BY <1>4
<1>6. Heeded({r}) = {r}
  BY DEF Heeded, Segment
<1>7. /\ tcb' = Append(tcb, f.tcb) /\ 0 \in FindConnection(s) /\ Len(tcb) < MaxBlocks
      /\ toPeer' = toPeer \/ toPeer' = toPeer \cup Heeded(f.reply)
  BY DEF InputNew
<1>8. t \in Tcbs /\ t.conn = s.conn /\ t.run = s.run /\ t.state = "SYN_RCVD"
  BY <1>1, <1>3 DEF Tcbs, TcbStates
<1>9. Len(tcb) + 1 <= MaxBlocks
  BY <1>7, TcpAssumption DEF Types
<1> HIDE DEF t, r, f
<1>10. Opens(s, Len(tcb) + 1, t)
  BY <1>2, <1>5, <1>6, <1>7, <1>8, <1>9 DEF Opens, r
<1> QED
  BY <1>8, <1>10

LEMMA OldCases ==
    ASSUME Types, NEW s \in toServer, NEW b \in FindConnection(s), InputOld(s, b)
    PROVE  \E u \in Tcbs : Moves(s, b, u)
<1> DEFINE t == tcb[b]
           f == Fsm(t, s)
<1>1. /\ s.conn \in Conns /\ s.run \in Runs /\ s.flags \in Flags
      /\ s.seqno \in Seqs /\ s.ack_num \in Seqs
  BY DEF Types, Segments
<1>2. b \in Same(s) /\ b \in DOMAIN tcb /\ t \in Tcbs
  BY DEF InputOld, FindConnection, Same, Types
<1>3. t.send_next \in Seqs /\ Add(s.seqno, 1) \in Seqs /\ Add(t.send_next, 1) \in Seqs
  <2>1. t.send_next \in Seqs
    BY <1>2 DEF Tcbs
  <2> QED
    BY <1>1, <2>1, SeqsAreNat, AddType
<1>4. tcb' = [tcb EXCEPT ![b] = f.tcb] /\ toPeer' = toPeer \cup Heeded(f.reply)
  BY DEF InputOld
<1>5. toPeer \cup Heeded({}) = toPeer
  BY DEF Heeded
<1>6. CASE t.state = "SYN_RCVD"
  <2> DEFINE ok == "ACK" \in s.flags /\ s.seqno = t.recv_next /\ s.ack_num = t.send_next
             r  == Segment(s.conn, s.run, s.flags \ {"ACK"}, t.send_next, s.seqno)
             u  == [t EXCEPT !.recv_next = s.seqno, !.send_next = Add(t.send_next, 1)]
             v  == [t EXCEPT !.state = "ESTABLISHED"]
  <2>1. f = SynRcvd(t, s)
    BY <1>6 DEF Fsm
  <2>2. CASE ok
    <3>1. f = [tcb |-> v, reply |-> {}]
      BY <2>1, <2>2 DEF SynRcvd, Ignore
    <3>2. v \in Tcbs /\ v.conn = t.conn /\ v.run = t.run /\ v.state = "ESTABLISHED"
      BY <1>2 DEF Tcbs, TcbStates
    <3>3. Moves(s, b, v)
      BY <1>2, <1>4, <1>5, <1>6, <2>2, <3>1, <3>2 DEF Moves
    <3> HIDE DEF v
    <3> QED
      BY <3>2, <3>3
  <2>3. CASE ~ok
    <3>1. f = [tcb |-> u, reply |-> {r}]
      BY <2>1, <2>3 DEF SynRcvd, Segment
    <3>2. u \in Tcbs /\ u.conn = t.conn /\ u.run = t.run /\ u.state = t.state
      BY <1>1, <1>2, <1>3 DEF Tcbs, TcbStates
    <3>3. Heeded({r}) = {}
      BY <1>1, FlagFacts DEF Heeded, Segment
    <3>4. tcb' = [tcb EXCEPT ![b] = u] /\ toPeer' = toPeer
      <4>1. f.tcb = u /\ f.reply = {r}
        BY <3>1
      <4> HIDE DEF u, r, f
      <4> QED
        BY <1>4, <3>3, <4>1
    <3>5. Moves(s, b, u)
      BY <1>2, <3>2, <3>4 DEF Moves
    <3> HIDE DEF u
    <3> QED
      BY <3>2, <3>5
  <2> QED
    BY <2>2, <2>3
<1>7. CASE t.state = "ESTABLISHED" /\ "FIN" \in s.flags
  <2> DEFINE r == Segment(s.conn, s.run, {"FIN", "ACK"}, t.send_next, Add(s.seqno, 1))
             u == [t EXCEPT !.state = "LAST_ACK", !.recv_next = Add(s.seqno, 1),
                            !.send_next = Add(t.send_next, 1)]
  <2>1. s.flags \cup {"ACK"} = {"FIN", "ACK"}
    BY <1>1, <1>7, FlagFacts
  <2>2. f = [tcb |-> u, reply |-> {r}]
    BY <1>7, <2>1 DEF Fsm, Established, Segment
  <2>3. u \in Tcbs /\ u.conn = t.conn /\ u.run = t.run /\ u.state = "LAST_ACK"
    BY <1>2, <1>3 DEF Tcbs, TcbStates
  <2>4. Heeded({r}) = {r}
    BY DEF Heeded, Segment
  <2>5. Moves(s, b, u)
    BY <1>2, <1>4, <1>7, <2>2, <2>3, <2>4 DEF Moves
  <2> HIDE DEF u
  <2> QED
    BY <2>3, <2>5
<1>8. CASE t.state = "LAST_ACK" /\ "ACK" \in s.flags
  <2> DEFINE u == [t EXCEPT !.state = "CLOSED"]
  <2>1. f = [tcb |-> u, reply |-> {}]
    BY <1>8 DEF Fsm, LastAck, Ignore
  <2>2. u \in Tcbs /\ u.conn = t.conn /\ u.run = t.run /\ u.state = "CLOSED"
    BY <1>2 DEF Tcbs, TcbStates
  <2>3. Moves(s, b, u)
    BY <1>2, <1>4, <1>5, <1>8, <2>1, <2>2 DEF Moves
  <2> HIDE DEF u
  <2> QED
    BY <2>2, <2>3
<1>9. CASE \/ t.state = "ESTABLISHED" /\ "FIN" \notin s.flags
           \/ t.state = "LAST_ACK" /\ "ACK" \notin s.flags
           \/ t.state = "CLOSED"
  <2>1. f = [tcb |-> t, reply |-> {}]
    BY <1>9 DEF Fsm, Established, LastAck, Ignore
  <2>2. Moves(s, b, t)
    BY <1>2, <1>4, <1>5, <2>1 DEF Moves
  <2> QED
    BY <1>2, <2>2
<1> QED
  BY <1>2, <1>6, <1>7, <1>8, <1>9 DEF Tcbs, TcbStates

\* What tcp_input does, whatever the search returns.
LEMMA InputCases ==
    ASSUME Types, NEW s \in toServer, NEW h \in BOOLEAN, TcpInput(s, h)
    PROVE  /\ run' = run /\ peer' = peer /\ toServer' = toServer
           /\ \E b \in Nat, t \in Tcbs : Opens(s, b, t) \/ Moves(s, b, t)
<1>1. run' = run /\ peer' = peer /\ toServer' = toServer
  BY DEF TcpInput
<1>2. CASE InputNew(s, h)
  <2>1. Len(tcb) + 1 \in Nat
    BY DEF Types
  <2> QED
    BY <1>1, <1>2, <2>1, NewCases
<1>3. ASSUME NEW b \in FindConnection(s), InputOld(s, b)
      PROVE  \E c \in Nat, t \in Tcbs : Opens(s, c, t) \/ Moves(s, c, t)
  <2>1. b \in Nat
    BY <1>3 DEF InputOld, FindConnection, Same, Types
  <2> QED
    BY <1>3, <2>1, OldCases
<1> QED
  BY <1>1, <1>2, <1>3 DEF TcpInput

\* Control blocks stay, with their connection and run, and LAST_ACK and CLOSED
\* are left for CLOSED only.
LEMMA BlocksStay ==
    ASSUME Types, NEW s \in toServer, NEW b \in Nat, NEW t \in Tcbs,
           Opens(s, b, t) \/ Moves(s, b, t)
    PROVE  /\ tcb' \in Seq(Tcbs) /\ Len(tcb') <= MaxBlocks
           /\ b \in DOMAIN tcb' /\ tcb'[b] = t
           /\ \A a \in DOMAIN tcb' : a # b => a \in DOMAIN tcb /\ tcb'[a] = tcb[a]
           /\ \A a \in DOMAIN tcb :
                  /\ a \in DOMAIN tcb'
                  /\ tcb'[a].conn = tcb[a].conn /\ tcb'[a].run = tcb[a].run
                  /\ tcb[a].state \in {"LAST_ACK", "CLOSED"} =>
                         tcb'[a].state \in {"LAST_ACK", "CLOSED"}
<1>1. CASE Opens(s, b, t)
  <2>1. /\ tcb \in Seq(Tcbs) /\ tcb' = Append(tcb, t) /\ b = Len(tcb) + 1 /\ b <= MaxBlocks
    BY <1>1 DEF Opens, Types
  <2>2. /\ tcb' \in Seq(Tcbs) /\ Len(tcb') = b /\ DOMAIN tcb' = 1 .. b
        /\ DOMAIN tcb = 1 .. b - 1 /\ tcb'[b] = t
        /\ \A a \in 1 .. b - 1 : tcb'[a] = tcb[a]
    BY <2>1
  <2> QED
    BY <2>1, <2>2
<1>2. CASE Moves(s, b, t)
  <2>1. /\ tcb \in Seq(Tcbs) /\ tcb' = [tcb EXCEPT ![b] = t] /\ b \in DOMAIN tcb
        /\ Len(tcb) <= MaxBlocks
    BY <1>2 DEF Moves, Same, Types
  <2>2. /\ tcb' \in Seq(Tcbs) /\ Len(tcb') = Len(tcb) /\ DOMAIN tcb' = DOMAIN tcb
        /\ tcb'[b] = t /\ \A a \in DOMAIN tcb : a # b => tcb'[a] = tcb[a]
    BY <2>1
  <2>3. /\ t.conn = tcb[b].conn /\ t.run = tcb[b].run
        /\ tcb[b].state \in {"LAST_ACK", "CLOSED"} => t.state \in {"LAST_ACK", "CLOSED"}
    BY <1>2 DEF Moves
  <2> QED
    BY <2>1, <2>2, <2>3
<1> QED
  BY <1>1, <1>2

-----------------------------------------------------------------------------
(* Every step keeps the invariant.                                         *)

LEMMA InitTcpInv == Init => TcpInv /\ OrderedInv
<1> SUFFICES ASSUME Init PROVE TcpInv /\ OrderedInv
  OBVIOUS
<1>1. 1 \in Runs
  BY TcpAssumption DEF Runs
<1>2. tcb \in Seq(Tcbs) /\ Len(tcb) = 0 /\ DOMAIN tcb = {} /\ toPeer = {} /\ toServer = {}
  BY DEF Init
<1>3. Types
  BY <1>1, <1>2, TcpAssumption DEF Types, Init, PeerStates
<1>4. \A c \in Conns, r \in Runs : peer[c][r].state = "closed" /\ peer[c][r].used = 0
  BY DEF Init
<1>5. Counts /\ PeerKnows /\ DoneKnows
  BY <1>4 DEF Counts, PeerKnows, DoneKnows
<1> QED
  BY <1>2, <1>3, <1>5 DEF TcpInv, OrderedInv, FromPeer, FromServer, Begun, TcbKnows, Unique,
                          FinAcked, AcksOnlySent

\* tcp_input keeps what does not depend on the search.
LEMMA InputKeeps ==
    ASSUME TcpInv, NEW s \in toServer, NEW h \in BOOLEAN, TcpInput(s, h)
    PROVE  TcpInv'
<1>1. /\ run' = run /\ peer' = peer /\ toServer' = toServer /\ Types
      /\ \E b \in Nat, t \in Tcbs : Opens(s, b, t) \/ Moves(s, b, t)
  BY InputCases DEF TcpInv
<1>2. PICK b \in Nat, t \in Tcbs : Opens(s, b, t) \/ Moves(s, b, t)
  BY <1>1
<1>3. /\ s.conn \in Conns /\ s.run \in Runs /\ s.flags \in Flags /\ s.seqno \in Seqs
  BY DEF TcpInv, Types, Segments
<1>4. /\ tcb' \in Seq(Tcbs) /\ Len(tcb') <= MaxBlocks /\ b \in DOMAIN tcb' /\ tcb'[b] = t
      /\ \A a \in DOMAIN tcb' : a # b => a \in DOMAIN tcb /\ tcb'[a] = tcb[a]
      /\ \A a \in DOMAIN tcb :
             a \in DOMAIN tcb' /\ tcb'[a].conn = tcb[a].conn /\ tcb'[a].run = tcb[a].run
  BY <1>1, <1>2, BlocksStay
<1>5. ASSUME NEW c, NEW r, Opened(c, r) PROVE Opened(c, r)'
  BY <1>4, <1>5 DEF Opened
<1>6. FromPeer'
  BY <1>1, <1>5 DEF TcpInv, FromPeer
<1>7. PeerKnows'
  BY <1>1, <1>5 DEF TcpInv, PeerKnows
<1>8. Counts'
  BY <1>1 DEF TcpInv, Counts
<1>9. Add(s.seqno, 1) \in Seqs /\ 0 \in Seqs
  BY <1>3, SeqsAreNat, AddType
<1>10. CASE Opens(s, b, t)
  <2> DEFINE r == Segment(s.conn, s.run, {"SYN", "ACK"}, 0, Add(s.seqno, 1))
  <2>1. /\ peer[s.conn][s.run].state # "closed" /\ s.seqno = Isn[s.conn][s.run]
        /\ t.conn = s.conn /\ t.run = s.run
        /\ toPeer' \subseteq toPeer \cup {r}
    BY <1>10 DEF Opens, TcpInv, FromPeer
  <2>2. /\ r \in Segments(Replies) /\ r.conn = s.conn /\ r.run = s.run
        /\ r.flags = {"SYN", "ACK"} /\ r.ack_num = Add(Isn[s.conn][s.run], 1)
    BY <1>3, <1>9, <2>1, ReplyFacts DEF Segments, Segment
  <2> HIDE DEF r
  <2>3. Opened(s.conn, s.run)'
    BY <1>4, <2>1 DEF Opened
  <2>4. Types'
    BY <1>1, <1>4, <2>1, <2>2 DEF TcpInv, Types
  <2>5. FromServer'
    BY <1>5, <2>1, <2>2, <2>3 DEF TcpInv, FromServer
  <2>6. AcksOnlySent'
    <3>1. 1 \in 1 .. peer[s.conn][s.run].used
      BY <1>3, <2>1 DEF TcpInv, Types, Counts
    <3> QED
      BY <1>1, <2>1, <2>2, <3>1 DEF TcpInv, AcksOnlySent
  <2>7. Begun'
    BY <1>1, <1>4, <2>1 DEF TcpInv, Begun, Opener
  <2> QED
    BY <1>6, <1>7, <1>8, <2>4, <2>5, <2>6, <2>7 DEF TcpInv
<1>11. CASE Moves(s, b, t)
  <2> DEFINE old == tcb[b]
             r == Segment(s.conn, s.run, {"FIN", "ACK"}, old.send_next, Add(s.seqno, 1))
             fin == "FIN" \in s.flags
  <2>1. /\ b \in DOMAIN tcb /\ t.conn = old.conn /\ t.run = old.run
        /\ toPeer' = toPeer \/ (fin /\ toPeer' = toPeer \cup {r})
    BY <1>11 DEF Moves, Same
  <2>2. /\ r \in Segments(Replies) /\ r.conn = s.conn /\ r.run = s.run
        /\ r.flags = {"FIN", "ACK"} /\ r.ack_num = Add(s.seqno, 1)
    <3>1. old.send_next \in Seqs
      BY <1>1, <2>1, BlockType
    <3> QED
      BY <1>3, <1>9, <3>1, ReplyFacts DEF Segments, Segment
  <2> HIDE DEF r
  <2>3. Types'
    BY <1>1, <1>4, <2>1, <2>2 DEF TcpInv, Types
  <2>4. fin => Opened(s.conn, s.run)'
    BY <1>3, <1>5, FlagFacts DEF TcpInv, FromPeer
  <2>5. FromServer'
    BY <1>5, <2>1, <2>2, <2>4, ReplyFacts DEF TcpInv, FromServer
  <2>6. AcksOnlySent'
    <3>1. fin => \E i \in 1 .. peer[s.conn][s.run].used :
                     Add(s.seqno, 1) = Add(Isn[s.conn][s.run], i)
      BY DEF TcpInv, FromPeer
    <3> QED
      BY <1>1, <2>1, <2>2, <3>1 DEF TcpInv, AcksOnlySent
  <2>7. Begun'
    BY <1>1, <1>4, <2>1 DEF TcpInv, Begun, Opener
  <2> QED
    BY <1>6, <1>7, <1>8, <2>3, <2>5, <2>6, <2>7 DEF TcpInv
<1> QED
  BY <1>2, <1>10, <1>11

\* Among ordered connections being equal is transitive.
LEMMA EqualTrans ==
    ASSUME Orders(Conns), NEW a \in Conns, NEW b \in Conns, NEW c \in Conns,
           Cmp[a][b] = 0, Cmp[a][c] = 0
    PROVE  Cmp[b][c] = 0 /\ Cmp[b][a] = 0
<1>1. /\ Cmp[a][b] \in Int /\ Cmp[b][a] \in Int /\ Cmp[b][c] \in Int
      /\ Cmp[c][b] \in Int /\ Cmp[a][c] \in Int /\ Cmp[c][a] \in Int
  BY CmpAssumption
<1>2. /\ Cmp[a][b] < 0 <=> Cmp[b][a] > 0
      /\ Cmp[b][a] < 0 <=> Cmp[a][b] > 0
      /\ Cmp[b][c] < 0 <=> Cmp[c][b] > 0
      /\ Cmp[c][b] < 0 <=> Cmp[b][c] > 0
      /\ Cmp[a][c] < 0 <=> Cmp[c][a] > 0
      /\ Cmp[c][a] < 0 <=> Cmp[a][c] > 0
  BY CmpAssumption
<1>3. Cmp[b][a] = 0 /\ Cmp[c][a] = 0
  BY <1>1, <1>2
<1>4. Cmp[b][c] <= 0 /\ Cmp[c][b] <= 0
  BY <1>1, <1>3 DEF Orders
<1> QED
  BY <1>1, <1>2, <1>3, <1>4

\* A connection is equal to itself.
LEMMA CmpSelf ==
    ASSUME NEW c \in Conns
    PROVE  Cmp[c][c] = 0
<1>1. Cmp[c][c] \in Int /\ (Cmp[c][c] < 0 <=> Cmp[c][c] > 0)
  BY CmpAssumption
<1> QED
  BY <1>1

\* tcp_input among ordered connections: only the opener of a control block
\* moves it on.
LEMMA InputKeepsOrdered ==
    ASSUME Orders(Conns), TcpInv, OrderedInv,
           NEW s \in toServer, NEW h \in BOOLEAN, TcpInput(s, h)
    PROVE  OrderedInv'
<1>1. /\ run' = run /\ peer' = peer /\ toServer' = toServer /\ Types
      /\ \E b \in Nat, t \in Tcbs : Opens(s, b, t) \/ Moves(s, b, t)
  BY InputCases DEF TcpInv
<1>2. PICK b \in Nat, t \in Tcbs : Opens(s, b, t) \/ Moves(s, b, t)
  BY <1>1
<1>3. /\ s.conn \in Conns /\ s.run \in Runs /\ s.flags \in Flags
      /\ \A a \in DOMAIN tcb : tcb[a].conn \in Conns /\ tcb[a].run \in Runs
  BY <1>1, BlockType DEF TcpInv, Types, Segments
<1>4. /\ b \in DOMAIN tcb' /\ tcb'[b] = t
      /\ \A a \in DOMAIN tcb' : a # b => a \in DOMAIN tcb /\ tcb'[a] = tcb[a]
      /\ \A a \in DOMAIN tcb :
             /\ a \in DOMAIN tcb' /\ tcb'[a].conn = tcb[a].conn /\ tcb'[a].run = tcb[a].run
             /\ tcb[a].state \in {"LAST_ACK", "CLOSED"} => tcb'[a].state \in {"LAST_ACK", "CLOSED"}
  BY <1>1, <1>2, BlocksStay
<1>5. ASSUME NEW c, NEW r, In(c, r, {"LAST_ACK", "CLOSED"})
      PROVE  In(c, r, {"LAST_ACK", "CLOSED"})'
  BY <1>4, <1>5 DEF In
<1>6. DoneKnows'
  BY <1>1, <1>5 DEF OrderedInv, DoneKnows
<1>7. CASE Opens(s, b, t)
  <2>1. t.conn = s.conn /\ t.state = "SYN_RCVD" /\ 0 \in FindConnection(s)
    BY <1>7 DEF Opens
  <2>2. \A a \in DOMAIN tcb : Cmp[s.conn][tcb[a].conn] # 0
    <3>1. Orders(Held \cup {s.conn})
      <4>1. Held \cup {s.conn} \subseteq Conns
        BY <1>3 DEF Held
      <4> QED
        BY <4>1 DEF Orders
    <3>2. Same(s) = {}
      <4>1. 0 \notin Same(s)
        BY <1>1 DEF Same, Types
      <4> QED
        BY <2>1, <3>1, <4>1 DEF FindConnection
    <3> QED
      BY <3>2 DEF Same
  <2>3. Unique'
    <3> SUFFICES ASSUME NEW a \in DOMAIN tcb', NEW c \in DOMAIN tcb',
                        Cmp[tcb'[a].conn][tcb'[c].conn] = 0
                 PROVE  a = c
      BY DEF Unique
    <3>1. CASE a # b /\ c # b
      BY <1>4, <3>1 DEF OrderedInv, Unique
    <3>2. CASE a = b /\ c # b
      BY <1>4, <2>1, <2>2, <3>2
    <3>3. CASE a # b /\ c = b
      <4>1. a \in DOMAIN tcb /\ Cmp[tcb[a].conn][s.conn] = 0 /\ tcb[a].conn \in Conns
        BY <1>3, <1>4, <2>1, <3>3
      <4>2. Cmp[s.conn][tcb[a].conn] = 0
        BY <1>3, <4>1, EqualTrans, CmpSelf
      <4> QED
        BY <2>2, <4>1, <4>2
    <3> QED
      BY <3>1, <3>2, <3>3
  <2>4. FinAcked'
    <3> DEFINE r == Segment(s.conn, s.run, {"SYN", "ACK"}, 0, Add(s.seqno, 1))
    <3>1. toPeer' \subseteq toPeer \cup {r} /\ r.flags # {"FIN", "ACK"}
      BY <1>7, ReplyFacts DEF Opens, Segment
    <3> HIDE DEF r
    <3> QED
      BY <1>5, <3>1 DEF OrderedInv, FinAcked
  <2>5. TcbKnows'
    <3>1. ASSUME NEW a \in DOMAIN tcb'
          PROVE  Opener(tcb[a])' = Opener(tcb'[a])
      BY <1>1 DEF Opener
    <3> QED
      BY <1>1, <1>4, <2>1 DEF OrderedInv, TcbKnows, Opener
  <2> QED
    BY <1>6, <2>3, <2>4, <2>5 DEF OrderedInv
<1>8. CASE Moves(s, b, t)
  <2> DEFINE old == tcb[b]
             r == Segment(s.conn, s.run, {"FIN", "ACK"}, old.send_next, Add(s.seqno, 1))
  <2>1. /\ b \in DOMAIN tcb /\ Cmp[s.conn][old.conn] = 0 /\ old.conn \in Conns
        /\ t.conn = old.conn /\ t.run = old.run /\ DOMAIN tcb' = DOMAIN tcb
    BY <1>3, <1>8 DEF Moves, Same
  <2>2. Unique'
    BY <1>4, <2>1 DEF OrderedInv, Unique
  \* The block found is that of the opener.
  <2>3. Opened(s.conn, s.run) => old.conn = s.conn /\ old.run = s.run
    <3> SUFFICES ASSUME Opened(s.conn, s.run) PROVE old.conn = s.conn /\ old.run = s.run
      OBVIOUS
    <3>1. PICK a \in DOMAIN tcb : tcb[a].conn = s.conn /\ tcb[a].run = s.run
      BY DEF Opened
    <3>2. Cmp[tcb[a].conn][old.conn] = 0
      BY <2>1, <3>1
    <3>3. a = b
      BY <2>1, <3>1, <3>2 DEF OrderedInv, Unique
    <3> QED
      BY <3>1, <3>3
  <2>4. /\ "ACK" \in s.flags => /\ old.conn = s.conn /\ old.run = s.run
                                /\ Opener(old).state \in {"established", "fin_wait", "done"}
        /\ "FIN" \in s.flags => /\ old.conn = s.conn /\ old.run = s.run
                                /\ Opener(old).state \in {"fin_wait", "done"}
    BY <1>3, <2>3, FlagFacts DEF TcpInv, FromPeer, Opener
  <2>5. FinAcked'
    <3>1. \/ toPeer' = toPeer
          \/ "FIN" \in s.flags /\ t.state = "LAST_ACK" /\ toPeer' = toPeer \cup {r}
      BY <1>8 DEF Moves
    <3>2. r.conn = s.conn /\ r.run = s.run
      BY DEF Segment
    <3> HIDE DEF r
    <3>3. "FIN" \in s.flags /\ t.state = "LAST_ACK" => In(s.conn, s.run, {"LAST_ACK", "CLOSED"})'
      BY <1>4, <2>1, <2>4 DEF In
    <3> QED
      BY <1>5, <3>1, <3>2, <3>3 DEF OrderedInv, FinAcked
  <2>6. TcbKnows'
    <3> SUFFICES ASSUME NEW a \in DOMAIN tcb'
                 PROVE  /\ tcb'[a].state \in {"ESTABLISHED", "LAST_ACK", "CLOSED"}
                               => Opener(tcb'[a]).state \in {"established", "fin_wait", "done"}
                        /\ tcb'[a].state \in {"LAST_ACK", "CLOSED"}
                               => Opener(tcb'[a]).state \in {"fin_wait", "done"}
      BY <1>1 DEF TcbKnows, Opener
    <3>1. CASE a # b
      BY <1>4, <3>1 DEF OrderedInv, TcbKnows
    <3>2. CASE a = b
      <4>1. Opener(t) = Opener(old) /\ tcb'[a] = t
        BY <1>4, <2>1, <3>2 DEF Opener
      <4>2. /\ old.state \in {"ESTABLISHED", "LAST_ACK", "CLOSED"}
                   => Opener(old).state \in {"established", "fin_wait", "done"}
            /\ old.state \in {"LAST_ACK", "CLOSED"} => Opener(old).state \in {"fin_wait", "done"}
        BY <2>1 DEF OrderedInv, TcbKnows
      <4>3. \/ t.state = old.state
            \/ t.state = "ESTABLISHED" /\ "ACK" \in s.flags
            \/ t.state = "LAST_ACK" /\ "FIN" \in s.flags
            \/ old.state = "LAST_ACK" /\ t.state = "CLOSED"
        BY <1>8 DEF Moves
      <4> HIDE DEF old
      <4> QED
        BY <2>4, <4>1, <4>2, <4>3
    <3> QED
      BY <3>1, <3>2
  <2> QED
    BY <1>6, <2>2, <2>5, <2>6 DEF OrderedInv
<1> QED
  BY <1>2, <1>7, <1>8

\* How a step of a peer may move its run: it opens, or an opener goes on.
Advances(c, st, f, n) ==
    LET now == peer[c][run[c]].state IN
    \/ now = "closed" /\ st = "syn_sent" /\ f = {"SYN"} /\ n = 1
    \/ /\ now \in {"syn_sent", "established", "fin_wait"}
       /\ st \in {"established", "fin_wait", "done"} /\ (now = "fin_wait" => st = "done")
       /\ Opened(c, run[c]) /\ "ACK" \in f
       /\ "FIN" \in f => st = "fin_wait" /\ n = 1

LEMMA SendsKeeps ==
    ASSUME TcpInv, NEW c \in Conns, NEW st \in PeerStates, NEW f \in Flags, NEW n \in {0, 1},
           NEW a \in Seqs, PeerSends(c, st, f, n, a), Advances(c, st, f, n)
    PROVE  /\ TcpInv'
           /\ (OrderedInv /\ (st = "done" => In(c, run[c], {"LAST_ACK", "CLOSED"}))) => OrderedInv'
<1> DEFINE r == run[c]
           old == peer[c][r]
           s == Segment(c, r, f, Unused(c), a)
<1>1. /\ r \in Runs /\ old.used \in Nat /\ old.state \in PeerStates
      /\ Isn[c][r] \in Seqs /\ Isn[c][r] \in Nat
  <2>1. r \in Runs /\ old.used \in Nat /\ old.state \in PeerStates
    BY DEF TcpInv, Types
  <2>2. Isn[c][r] \in Seqs
    BY <2>1, TcpAssumption DEF Runs, Seqs
  <2> QED
    BY <2>1, <2>2, SeqsAreNat
<1>2. Unused(c) \in Seqs /\ Unused(c) = Add(Isn[c][r], old.used)
  BY <1>1, AddType DEF Unused, Now
<1>3. /\ toServer' = toServer \cup {s} /\ tcb' = tcb /\ run' = run /\ toPeer' = toPeer
      /\ peer' = [peer EXCEPT ![c][r] = [state |-> st, used |-> old.used + n]]
  BY DEF PeerSends, Now
<1>4. /\ peer'[c][r].state = st /\ peer'[c][r].used = old.used + n
      /\ \A d \in Conns, q \in Runs : d # c \/ q # r => peer'[d][q] = peer[d][q]
      /\ peer' \in [Conns -> [Runs -> [state : PeerStates, used : Nat]]]
  BY <1>1, <1>3 DEF TcpInv, Types
<1>5. /\ s \in Segments(Flags) /\ s.conn = c /\ s.run = r /\ s.flags = f
      /\ s.seqno = Unused(c)
  BY <1>1, <1>2 DEF Segments, Segment
<1> HIDE DEF s
\* What is known of a run stays true.
<1>6. ASSUME NEW d \in Conns, NEW q \in Runs
      PROVE  /\ peer[d][q].state # "closed" => peer'[d][q].state # "closed"
             /\ peer[d][q].state \in {"established", "fin_wait", "done"}
                    => peer'[d][q].state \in {"established", "fin_wait", "done"}
             /\ peer[d][q].state \in {"fin_wait", "done"} => peer'[d][q].state \in {"fin_wait", "done"}
             /\ 1 .. peer[d][q].used \subseteq 1 .. peer'[d][q].used
  <2>1. CASE d # c \/ q # r
    BY <1>4, <2>1
  <2>2. CASE d = c /\ q = r
    BY <1>1, <1>4, <2>2 DEF Advances
  <2> QED
    BY <2>1, <2>2
<1>7. Types'
  BY <1>3, <1>4, <1>5 DEF TcpInv, Types
<1>8. Counts'
  <2> SUFFICES ASSUME NEW d \in Conns, NEW q \in Runs
               PROVE  /\ peer'[d][q].state = "closed" => peer'[d][q].used = 0
                      /\ peer'[d][q].state = "syn_sent" => peer'[d][q].used = 1
                      /\ peer'[d][q].state # "closed" => peer'[d][q].used > 0
    BY DEF Counts
  <2>1. CASE d # c \/ q # r
    BY <1>4, <2>1 DEF TcpInv, Counts
  <2>2. CASE d = c /\ q = r
    BY <1>1, <1>4, <2>2 DEF TcpInv, Counts, Advances
  <2> QED
    BY <2>1, <2>2
<1>9. ASSUME NEW d, NEW q PROVE Opened(d, q)' <=> Opened(d, q)
  BY <1>3 DEF Opened
<1>10. FromServer'
  BY <1>3, <1>9 DEF TcpInv, FromServer
<1>11. PeerKnows'
  <2> SUFFICES ASSUME NEW d \in Conns, NEW q \in Runs
               PROVE  peer'[d][q].state \in {"established", "fin_wait", "done"} => Opened(d, q)
    BY <1>3, <1>9 DEF PeerKnows
  <2>1. CASE d # c \/ q # r
    BY <1>4, <2>1 DEF TcpInv, PeerKnows
  <2>2. CASE d = c /\ q = r
    BY <1>4, <2>2 DEF Advances
  <2> QED
    BY <2>1, <2>2
<1>12. Begun' /\ (TcbKnows => TcbKnows')
  <2>1. \A b \in DOMAIN tcb : tcb[b].conn \in Conns /\ tcb[b].run \in Runs
    BY BlockType DEF TcpInv
  <2> QED
    BY <1>3, <1>6, <2>1 DEF TcpInv, Begun, TcbKnows, Opener
<1>13. AcksOnlySent'
  <2>1. \A q \in toPeer : q.conn \in Conns /\ q.run \in Runs
    BY DEF TcpInv, Types, Segments
  <2> QED
    BY <1>3, <1>6, <2>1 DEF TcpInv, AcksOnlySent
<1>14. FromPeer'
  <2> SUFFICES ASSUME NEW q \in toServer'
               PROVE  /\ q.flags = {"SYN"} => /\ peer'[q.conn][q.run].state # "closed"
                                              /\ q.seqno = Isn[q.conn][q.run]
                      /\ "ACK" \in q.flags =>
                             /\ Opened(q.conn, q.run)
                             /\ peer'[q.conn][q.run].state \in {"established", "fin_wait", "done"}
                      /\ "FIN" \in q.flags =>
                             /\ peer'[q.conn][q.run].state \in {"fin_wait", "done"}
                             /\ \E i \in 1 .. peer'[q.conn][q.run].used :
                                    Add(q.seqno, 1) = Add(Isn[q.conn][q.run], i)
    BY <1>9 DEF FromPeer
  <2>1. CASE q \in toServer
    <3>1. q.conn \in Conns /\ q.run \in Runs
      BY <2>1 DEF TcpInv, Types, Segments
    <3> QED
      BY <1>6, <2>1, <3>1 DEF TcpInv, FromPeer
  <2>2. CASE q = s
    <3>1. CASE f = {"SYN"}
      <4>1. old.state = "closed" /\ st = "syn_sent" /\ old.used = 0
        BY <1>1, <3>1 DEF Advances, TcpInv, Counts
      <4>2. Add(Isn[c][r], 0) = Isn[c][r]
        BY <1>1, AddZero
      <4>3. "ACK" \notin f /\ "FIN" \notin f
        BY <3>1
      <4> QED
        BY <1>2, <1>4, <1>5, <2>2, <4>1, <4>2, <4>3
    <3>2. CASE f # {"SYN"}
      <4>1. Opened(c, r) /\ st \in {"established", "fin_wait", "done"}
        BY <3>2 DEF Advances
      <4>2. "FIN" \in f => /\ st = "fin_wait" /\ old.used + 1 \in 1 .. peer'[c][r].used
                           /\ Add(Unused(c), 1) = Add(Isn[c][r], old.used + 1)
        <5>1. "FIN" \in f => st = "fin_wait" /\ n = 1
          BY <3>2 DEF Advances
        <5>2. Add(Unused(c), 1) = Add(Isn[c][r], old.used + 1)
          BY <1>1, <1>2, AddSucc
        <5>3. n = 1 => old.used + 1 \in 1 .. peer'[c][r].used
          BY <1>1, <1>4
        <5> QED
          BY <5>1, <5>2, <5>3
      <4> QED
        BY <1>4, <1>5, <2>2, <3>2, <4>1, <4>2
    <3> QED
      BY <3>1, <3>2
  <2> QED
    BY <1>3, <2>1, <2>2
<1>15. ASSUME OrderedInv, st = "done" => In(c, r, {"LAST_ACK", "CLOSED"}) PROVE OrderedInv'
  <2>1. \A d, q, S : In(d, q, S)' <=> In(d, q, S)
    BY <1>3 DEF In
  <2>2. DoneKnows'
    BY <1>4, <1>15, <2>1 DEF OrderedInv, DoneKnows
  <2> QED
    BY <1>3, <1>12, <1>15, <2>1, <2>2 DEF OrderedInv, Unique, FinAcked
<1> QED
  BY <1>7, <1>8, <1>10, <1>11, <1>12, <1>13, <1>14, <1>15 DEF TcpInv

\* A SYN|ACK that acknowledges a run in syn_sent is for the opener.
LEMMA SynAckIsForOpener ==
    ASSUME TcpInv, NEW c \in Conns, NEW q \in toPeer, PeerSynAck(c, q)
    PROVE  Opened(c, run[c])
<1>1. run[c] \in Runs /\ q.conn = c /\ q.run \in Runs
  BY DEF TcpInv, Types, Segments, PeerSynAck
<1>2. peer[c][run[c]].used = 1
  BY <1>1 DEF TcpInv, Counts, PeerSynAck, Now
<1>3. Add(Isn[c][q.run], 1) = Add(Isn[c][run[c]], 1)
  BY <1>1, <1>2 DEF PeerSynAck, TcpInv, FromServer, Unused, Now
<1>4. q.run = run[c]
  BY <1>1, <1>3, IsnTellsRuns
<1> QED
  BY <1>1, <1>4 DEF TcpInv, FromServer

LEMMA PeerStepKeeps ==
    ASSUME TcpInv, NEW c \in Conns, PeerStep(c)
    PROVE  TcpInv' /\ (OrderedInv => OrderedInv')
<1>0. /\ run[c] \in Runs /\ Now(c) = peer[c][run[c]]
      /\ {"SYN"} \in Flags /\ {"ACK"} \in Flags /\ {"FIN", "ACK"} \in Flags
      /\ PeerStates = {"closed", "syn_sent", "established", "fin_wait", "done"}
      /\ 0 \in Seqs /\ 1 \in Seqs /\ {"ACK"} # {"SYN"}
  <2>1. "ACK" \in {"ACK"} /\ "ACK" \notin {"SYN"}
    OBVIOUS
  <2>2. 0 \in Seqs /\ 1 \in Seqs
    BY TcpAssumption DEF Seqs
  <2> QED
    BY <2>1, <2>2 DEF TcpInv, Types, Now, Flags, PeerStates
<1>1. CASE PeerOpen(c)
  <2>1. PeerSends(c, "syn_sent", {"SYN"}, 1, 0) /\ Advances(c, "syn_sent", {"SYN"}, 1)
    BY <1>0, <1>1 DEF PeerOpen, Advances
  <2> QED
    BY <1>0, <2>1, SendsKeeps
<1>2. ASSUME NEW q \in toPeer, PeerSynAck(c, q) PROVE TcpInv' /\ (OrderedInv => OrderedInv')
  <2>1. Add(q.seqno, 1) \in Seqs
    BY SeqsAreNat, AddType DEF TcpInv, Types, Segments
  <2>2. Advances(c, "established", {"ACK"}, 0)
    BY <1>0, <1>2, SynAckIsForOpener DEF PeerSynAck, Advances
  <2>3. PeerSends(c, "established", {"ACK"}, 0, Add(q.seqno, 1))
    BY <1>2 DEF PeerSynAck
  <2> QED
    BY <1>0, <2>1, <2>2, <2>3, SendsKeeps
<1>3. CASE PeerData(c)
  <2>1. Now(c).state = "established" /\ Opened(c, run[c])
    BY <1>0, <1>3 DEF PeerData, TcpInv, PeerKnows
  <2>2. PeerSends(c, "established", {"ACK"}, 1, 1) /\ Advances(c, "established", {"ACK"}, 1)
    BY <1>0, <1>3, <2>1 DEF PeerData, Advances
  <2> QED
    BY <1>0, <2>2, SendsKeeps
<1>4. CASE PeerClose(c)
  <2>1. Now(c).state = "established" /\ Opened(c, run[c])
    BY <1>0, <1>4 DEF PeerClose, TcpInv, PeerKnows
  <2>2. PeerSends(c, "fin_wait", {"FIN", "ACK"}, 1, 1) /\ Advances(c, "fin_wait", {"FIN", "ACK"}, 1)
    BY <1>0, <1>4, <2>1 DEF PeerClose, Advances
  <2> QED
    BY <1>0, <2>2, SendsKeeps
<1>5. ASSUME NEW q \in toPeer, PeerFinAck(c, q) PROVE TcpInv' /\ (OrderedInv => OrderedInv')
  <2>1. Add(q.seqno, 1) \in Seqs
    BY SeqsAreNat, AddType DEF TcpInv, Types, Segments
  <2>2. Now(c).state = "fin_wait" /\ Opened(c, run[c])
    BY <1>0, <1>5 DEF PeerFinAck, TcpInv, PeerKnows
  <2>3. Advances(c, "done", {"ACK"}, 0)
    BY <1>0, <2>2 DEF Advances
  <2>5. OrderedInv => In(c, run[c], {"LAST_ACK", "CLOSED"})
    <3> SUFFICES ASSUME OrderedInv PROVE In(c, run[c], {"LAST_ACK", "CLOSED"})
      OBVIOUS
    <3>1. PICK a \in DOMAIN tcb : /\ tcb[a].conn = c /\ tcb[a].run = q.run
                                 /\ tcb[a].state \in {"LAST_ACK", "CLOSED"}
      BY <1>5 DEF PeerFinAck, OrderedInv, FinAcked, In
    <3>2. PICK b \in DOMAIN tcb : tcb[b].conn = c /\ tcb[b].run = run[c]
      BY <2>2 DEF Opened
    <3>3. a = b
      BY <3>1, <3>2, CmpSelf DEF OrderedInv, Unique
    <3> QED
      BY <3>1, <3>2, <3>3 DEF In
  <2>4. PeerSends(c, "done", {"ACK"}, 0, Add(q.seqno, 1))
    BY <1>5 DEF PeerFinAck
  <2> QED
    BY <1>0, <2>1, <2>3, <2>4, <2>5, SendsKeeps
\* A reset carries neither SYN nor ACK: the invariant does not speak of it.
<1>6. ASSUME NEW q \in toPeer, PeerReset(c, q) PROVE TcpInv' /\ (OrderedInv => OrderedInv')
  <2> DEFINE s == Segment(c, run[c], {"RST"}, q.ack_num, 0)
  <2>1. /\ s \in Segments(Flags) /\ s.flags = {"RST"}
        /\ toServer' = toServer \cup {s} /\ UNCHANGED <<tcb, run, peer, toPeer>>
    BY <1>0, <1>6 DEF PeerReset, TcpInv, Types, Segments, Segment, Flags
  <2> HIDE DEF s
  <2>2. "SYN" \notin s.flags /\ "ACK" \notin s.flags /\ "FIN" \notin s.flags /\ s.flags # {"SYN"}
    BY <2>1, FlagFacts
  <2>3. Types'
    BY <2>1 DEF TcpInv, Types
  <2>4. FromPeer'
    BY <2>1, <2>2 DEF TcpInv, FromPeer, Opened
  <2>5. Counts' /\ FromServer' /\ PeerKnows' /\ Begun' /\ AcksOnlySent'
    BY <2>1 DEF TcpInv, Counts, FromServer, PeerKnows, Begun, AcksOnlySent, Opened, Opener
  <2>6. OrderedInv => OrderedInv'
    BY <2>1 DEF OrderedInv, Unique, FinAcked, DoneKnows, TcbKnows, In, Opener
  <2> QED
    BY <2>3, <2>4, <2>5, <2>6 DEF TcpInv
<1>7. CASE PeerRestart(c)
  <2>1. run' \in [Conns -> Runs] /\ UNCHANGED <<tcb, peer, toServer, toPeer>>
    <3>1. run[c] < MaxRuns /\ run' = [run EXCEPT ![c] = @ + 1] /\ UNCHANGED <<tcb, peer, toServer, toPeer>>
      BY <1>7 DEF PeerRestart
    <3>2. run \in [Conns -> 1..MaxRuns]
      BY <1>0 DEF TcpInv, Types, Runs
    <3>3. run[c] + 1 \in 1..MaxRuns
      BY <3>1, <3>2, TcpAssumption
    <3> QED
      BY <3>1, <3>2, <3>3 DEF Runs
  <2>2. Types'
    BY <2>1 DEF TcpInv, Types
  <2>3. /\ Counts' /\ FromPeer' /\ FromServer' /\ PeerKnows' /\ Begun'
        /\ AcksOnlySent'
    BY <2>1 DEF TcpInv, Counts, FromPeer, FromServer, PeerKnows, Begun, AcksOnlySent,
                Opened, Opener
  <2>4. OrderedInv => OrderedInv'
    BY <2>1 DEF OrderedInv, Unique, FinAcked, DoneKnows, TcbKnows, In, Opener
  <2> QED
    BY <2>2, <2>3, <2>4 DEF TcpInv
<1> QED
  BY <1>1, <1>2, <1>3, <1>4, <1>5, <1>6, <1>7 DEF PeerStep

-----------------------------------------------------------------------------
(* The theorems.                                                           *)

\* tcp_input and the peers keep TcpInv, whatever is lost, repeated or
\* reordered, however often a peer crashes and whatever tcp_find_connection
\* misses.
THEOREM TcpInvariant == Spec => []TcpInv
<1>1. Init => TcpInv
  BY InitTcpInv
<1>2. TcpInv /\ [Next]_vars => TcpInv'
  <2> SUFFICES ASSUME TcpInv, [Next]_vars PROVE TcpInv'
    OBVIOUS
  <2>1. CASE UNCHANGED vars
    <3>1. /\ tcb' = tcb /\ run' = run /\ peer' = peer /\ toServer' = toServer
          /\ toPeer' = toPeer
      BY <2>1 DEF vars
    <3>2. Types'
      BY <3>1 DEF TcpInv, Types
    <3>3. Counts' /\ FromPeer' /\ FromServer' /\ PeerKnows' /\ Begun' /\ AcksOnlySent'
      BY <3>1 DEF TcpInv, Counts, FromPeer, FromServer, PeerKnows, Begun, AcksOnlySent,
                  Opened, Opener
    <3> QED
      BY <3>2, <3>3 DEF TcpInv
  <2>2. CASE Next
    BY <2>2, InputKeeps, PeerStepKeeps, TcpAssumption DEF Next
  <2> QED
    BY <2>1, <2>2
<1> QED
  BY <1>1, <1>2, PTL DEF Spec

\* Among connections that tcp_conn_cmp orders, equal or not, tcp_input keeps one
\* control block for each sum, and the two ends know of each other what
\* OrderedInv says.
THEOREM OrderedInvariant ==
    ASSUME Orders(Conns)
    PROVE  Spec => []OrderedInv
<1>1. Init => OrderedInv
  BY InitTcpInv
<1>2. TcpInv /\ OrderedInv /\ [Next]_vars => OrderedInv'
  <2> SUFFICES ASSUME TcpInv, OrderedInv, [Next]_vars PROVE OrderedInv'
    OBVIOUS
  <2>1. CASE UNCHANGED vars
    BY <2>1 DEF vars, OrderedInv, Unique, FinAcked, DoneKnows, TcbKnows, In, Opener
  <2>2. CASE Next
    BY <2>2, InputKeepsOrdered, PeerStepKeeps, TcpAssumption DEF Next
  <2> QED
    BY <2>1, <2>2
<1> QED
  BY <1>1, <1>2, TcpInvariant, PTL DEF Spec

\* Every control block and every peer keeps its type; no control block is left
\* in LISTEN.
THEOREM TcpTypeCorrect == Spec => []TypeOK
<1>1. TcpInv => TypeOK
  BY BlockType DEF TcpInv, Types, TypeOK, TcbStates, PeerStates
<1> QED
  BY <1>1, TcpInvariant, PTL

\* Among connections that tcp_conn_cmp orders, no stray, repeated or overtaking
\* segment, none of another run of the peer and none of a connection with the
\* same sum completes a handshake.
THEOREM HandshakesAgree ==
    ASSUME Orders(Conns)
    PROVE  Spec => []HandshakeAgreed
<1>1. OrderedInv => HandshakeAgreed
  BY DEF OrderedInv, TcbKnows, HandshakeAgreed
<1> QED
  BY <1>1, OrderedInvariant, PTL

\* tcp_fsm acknowledges only numbers that the peer has used, although it takes
\* them from the segment it answers.
THEOREM AcknowledgesOnlySent == Spec => []AcksOnlySent
<1>1. TcpInv => AcksOnlySent
  BY DEF TcpInv
<1> QED
  BY <1>1, TcpInvariant, PTL

\* Among connections that tcp_conn_cmp orders, both ends agree on the close.
THEOREM ClosesAgree ==
    ASSUME Orders(Conns)
    PROVE  Spec => []CloseAgreed
<1>1. OrderedInv => CloseAgreed
  BY DEF OrderedInv, TcbKnows, DoneKnows, In, CloseAgreed
<1> QED
  BY <1>1, OrderedInvariant, PTL
=============================================================================
