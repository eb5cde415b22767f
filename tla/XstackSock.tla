----------------------------- MODULE XstackSock -----------------------------
(***************************************************************************)
(* One datagram socket of the stack: the daemon's main, ingress and egress *)
(* threads (src/xstack.c) and the application (lib/xstack.c), which share  *)
(* two rings and two process ids in a memory-mapped file and notify each   *)
(* other with SIGUSR2.                                                     *)
(*                                                                         *)
(* The daemon may be stopped, may be terminated, and may be started again  *)
(* while an application is still attached; applications come and go.  A    *)
(* call that a restart overtakes goes on with the index it has loaded from *)
(* the old ring: every step of a call makes one access to the file, and a  *)
(* datagram is copied in one step.                                         *)
(*                                                                         *)
(* The memory barriers, the frames and the addresses are left out.  A      *)
(* process is named by its number: daemon processes 1, 2, ... and          *)
(* applications 1, 2, ...; 0 is the 0 that memset leaves in the pid fields *)
(* and in the slots.                                                       *)
(***************************************************************************)
EXTENDS Integers

CONSTANTS ALen,          \* a_len of both rings
          MaxRx,         \* bound on received datagrams
          MaxTx,         \* bound on calls of xstack_sendto
          MaxBoots,      \* bound on starts of the daemon
          MaxClients,    \* bound on starts of an application
          Dispositions,  \* what the daemon may inherit for SIGUSR2
          CreateMayFail  \* whether pthread_create may fail

ASSUME SockAssumption ==
    /\ ALen \in Nat \ {0, 1}
    /\ MaxRx \in Nat /\ MaxTx \in Nat /\ MaxBoots \in Nat /\ MaxClients \in Nat
    /\ Dispositions \subseteq {"default", "ignore"}
    /\ CreateMayFail \in BOOLEAN

VARIABLES
    \* the daemon process
    dpc,           \* where main is; "off" not running, "dead" terminated
    xstack_state,  \* enum xstack_state
    boots,         \* number of the daemon process
    usr2,          \* disposition of SIGUSR2 in the daemon
    ipc,           \* where the ingress thread is
    cancelled,     \* pthread_cancel(ingress_tid) was called
    epc,           \* where the egress thread is
    \* the memory-mapped file
    pid_inetd, pid_end,
    in_len, in_rd, in_wr, in_data,  \* ingress ring: a_len, m_read, m_write, slots
    eg_len, eg_rd, eg_wr, eg_data,  \* egress ring
    \* the application
    cpc,           \* where it is, "off" when there is none
    client,        \* its number
    masked,        \* it has blocked SIGUSR2
    pending,       \* SIGUSR2 is pending for it
    idx,           \* the index its call has loaded, 0 outside of calls
    seen,          \* era of the ring that idx belongs to, or 0
    joined,        \* era in which it attached to an initialised socket, or 0
    cdeath,        \* how the last application ended
    \* history
    rxn, txn,      \* datagrams received from the wire, calls of xstack_sendto
    delivered,     \* datagrams returned by calls that no restart overtook
    handed,        \* datagrams passed to proto_send
    in_stale       \* a call that a restart overtook has stored the ingress m_read

mainVars   == <<dpc, xstack_state, boots, usr2>>
threadVars == <<ipc, cancelled, epc>>
daemonVars == <<mainVars, threadVars>>
pidVars    == <<pid_inetd, pid_end>>
inVars     == <<in_len, in_rd, in_wr, in_data, in_stale>>
egVars     == <<eg_len, eg_rd, eg_wr, eg_data>>
shmVars    == <<pidVars, inVars, egVars>>
appVars    == <<client, masked, pending, joined, cdeath>>
callVars   == <<cpc, idx, seen>>
clientVars == <<appVars, callVars>>
histVars   == <<rxn, txn, delivered, handed>>
vars       == <<daemonVars, shmVars, clientVars, histVars>>

DaemonUp == dpc \notin {"off", "dead"}

\* The contents of the rings belong to the daemon that cleared them last, those
\* of the zeroed file to the first one.
Era == IF boots <= 1 THEN 1 ELSE IF dpc = "boot" THEN boots - 1 ELSE boots

\* The era that an index belongs to when it is loaded: in a cleared file only
\* the 0 that queue_create is going to store is an index of the ring.
EraOf(len, i) == IF len = 0 /\ i # 0 THEN 0 ELSE Era

\* The index that the application's call has loaded is not of this ring.
Overtaken == seen = 0 \/ seen # Era

Slots == 0 .. ALen - 1

\* (index + 1) % cb->a_len, with the a_len of queue_create.
NextElement(i) == (i + 1) % ALen

\* The slots between m_read and m_write, and what they hold.
Window(rd, wr) ==
    {s \in Slots : IF rd <= wr THEN rd <= s /\ s < wr ELSE rd <= s \/ s < wr}
Queued(data, rd, wr) == {data[s] : s \in Window(rd, wr)}

\* The file starts out zeroed.
Init ==
    /\ dpc = "off" /\ xstack_state = "STOPPED" /\ boots = 0 /\ usr2 = "default"
    /\ ipc = "none" /\ cancelled = FALSE /\ epc = "none"
    /\ pid_inetd = 0 /\ pid_end = 0
    /\ in_len = 0 /\ in_rd = 0 /\ in_wr = 0 /\ in_data = [s \in Slots |-> 0]
    /\ eg_len = 0 /\ eg_rd = 0 /\ eg_wr = 0 /\ eg_data = [s \in Slots |-> 0]
    /\ cpc = "off" /\ client = 0 /\ masked = FALSE /\ pending = FALSE
    /\ idx = 0 /\ seen = 0 /\ joined = 0 /\ cdeath = "no"
    /\ rxn = 0 /\ txn = 0 /\ delivered = {} /\ handed = {} /\ in_stale = FALSE

-----------------------------------------------------------------------------
(* Signals.                                                                *)

\* The whole daemon process ends.
DaemonDies ==
    /\ dpc' = "dead" /\ xstack_state' = "STOPPED"
    /\ ipc' = "none" /\ epc' = "none" /\ cancelled' = FALSE
    /\ UNCHANGED <<boots, usr2>>

ClientDies(why) ==
    /\ cpc' = "off" /\ masked' = FALSE /\ pending' = FALSE
    /\ idx' = 0 /\ seen' = 0 /\ joined' = 0
    /\ cdeath' = why
    /\ UNCHANGED client

\* SIGUSR2 sent to the daemon process.  The egress thread blocks it, but main
\* and the ingress thread do not: it is never left pending for sigtimedwait.
\* It terminates the daemon unless the daemon inherited SIG_IGN, when it is
\* discarded.
Usr2TerminatesDaemon == usr2 = "default"

\* SIGUSR2 sent to the attached application.
ClientSignalled ==
    IF masked
    THEN pending' = TRUE /\ UNCHANGED <<client, masked, joined, cdeath, callVars>>
    ELSE ClientDies("usr2")

\* A step of a call that changes neither a ring nor the pids: it goes on at pc.
CallGoesOn(pc) ==
    /\ cpc' = pc
    /\ UNCHANGED <<daemonVars, shmVars, histVars>>

\* The call returns.
CallEnds == cpc' = "idle" /\ idx' = 0 /\ seen' = 0

-----------------------------------------------------------------------------
(* Plausible defects of the operations below, for mutation of the model.   *)

ListenBlockForgotten ==
    /\ cpc = "mapped"
    /\ CallGoesOn("masked")
    /\ UNCHANGED <<appVars, idx, seen>>

\* The control block is stored after the rings.
CreateIngressAfterCtrl ==
    /\ dpc = "create_ingress"
    /\ pid_end' = 0
    /\ ipc' = "rx" /\ dpc' = "create_egress"
    /\ UNCHANGED <<xstack_state, boots, usr2, cancelled, epc, pid_inetd, inVars, egVars,
                   clientVars, histVars>>

CreateEgressNoReturn ==
    /\ dpc = "create_egress"
    /\ \/ epc' = "wait" /\ dpc' = "set_running" /\ UNCHANGED cancelled
       \/ CreateMayFail /\ epc' = "none" /\ cancelled' = TRUE /\ dpc' = "set_running"
    /\ UNCHANGED <<xstack_state, boots, usr2, ipc, shmVars, clientVars, histVars>>

\* The full ring is not recognised.
DgramAllocNoFullCheck ==
    /\ ipc = "input"
    /\ ipc' = "fill"
    /\ UNCHANGED <<mainVars, cancelled, epc, shmVars, clientVars, histVars>>

\* The index is not reduced modulo a_len.
DgramCommitNoWrap ==
    /\ ipc = "commit"
    /\ in_wr' = in_wr + 1
    /\ ipc' = "notify"
    /\ UNCHANGED <<mainVars, cancelled, epc, pidVars, in_len, in_rd, in_data, in_stale, egVars,
                   clientVars, histVars>>

\* The newest datagram is peeked.
RecvPeekTestNewest ==
    /\ cpc = "rtest"
    /\ IF idx = in_wr
       THEN CallGoesOn("rwait") /\ idx' = 0 /\ seen' = 0
       ELSE CallGoesOn("rcopy") /\ idx' = (in_wr + ALen - 1) % ALen /\ UNCHANGED seen
    /\ UNCHANGED appVars

\* The egress ring is cleared from its pop end.
EgressDiscardAll ==
    /\ epc = "discard"
    /\ eg_rd' = eg_wr
    /\ epc' = "check"
    /\ UNCHANGED <<mainVars, ipc, cancelled, pidVars, inVars, eg_len, eg_wr, eg_data,
                   clientVars, histVars>>

\* sigwait instead of sigtimedwait.
RecvTimeoutNever ==
    FALSE /\ UNCHANGED vars

EgressTimeoutNever ==
    FALSE /\ UNCHANGED vars

\* The egress thread does not look at the state.
EgressCheckNever ==
    /\ epc = "check"
    /\ epc' = "wait"
    /\ UNCHANGED <<mainVars, ipc, cancelled, shmVars, clientVars, histVars>>

-----------------------------------------------------------------------------
(* The daemon's main thread.                                               *)

\* The daemon is started, for the first time or again.
DaemonBoot ==
    /\ ~DaemonUp
    /\ boots < MaxBoots
    /\ dpc' = "boot" /\ xstack_state' = "STOPPED" /\ boots' = boots + 1
    /\ usr2' \in Dispositions
    /\ ipc' = "none" /\ epc' = "none" /\ cancelled' = FALSE
    /\ UNCHANGED <<shmVars, clientVars, histVars>>

\* xstack_init: the file is mapped and zeroed, in one step ...
InitClear ==
    /\ dpc = "boot"
    /\ pid_inetd' = 0 /\ pid_end' = 0
    /\ in_len' = 0 /\ in_rd' = 0 /\ in_wr' = 0 /\ in_data' = [s \in Slots |-> 0]
    /\ eg_len' = 0 /\ eg_rd' = 0 /\ eg_wr' = 0 /\ eg_data' = [s \in Slots |-> 0]
    /\ in_stale' = FALSE
    /\ dpc' = "cleared"
    /\ UNCHANGED <<xstack_state, boots, usr2, threadVars, clientVars, histVars>>

\* ... the control block is stored ...
InitCtrl ==
    /\ dpc = "cleared"
    /\ pid_inetd' = boots /\ pid_end' = 0
    /\ dpc' = "ctrl"
    /\ UNCHANGED <<xstack_state, boots, usr2, threadVars, inVars, egVars, clientVars, histVars>>

\* ... then the two rings; xstack_bind concerns no other process.
InitIngressQ ==
    /\ dpc = "ctrl"
    /\ in_len' = ALen /\ in_rd' = 0 /\ in_wr' = 0
    /\ in_stale' = FALSE
    /\ dpc' = "ingress_q"
    /\ UNCHANGED <<xstack_state, boots, usr2, threadVars, pidVars, in_data, egVars,
                   clientVars, histVars>>

InitEgressQ ==
    /\ dpc = "ingress_q"
    /\ eg_len' = ALen /\ eg_rd' = 0 /\ eg_wr' = 0
    /\ dpc' = "create_ingress"
    /\ UNCHANGED <<xstack_state, boots, usr2, threadVars, pidVars, inVars, eg_data,
                   clientVars, histVars>>

\* xstack_start: main ignores its result, so that a failed pthread_create
\* leads to sigwaitinfo as well.
CreateIngress ==
    /\ dpc = "create_ingress"
    /\ \/ ipc' = "rx" /\ dpc' = "create_egress"
       \/ CreateMayFail /\ ipc' = "none" /\ dpc' = "wait"
    /\ UNCHANGED <<xstack_state, boots, usr2, cancelled, epc, shmVars, clientVars, histVars>>

CreateEgress ==
    /\ dpc = "create_egress"
    /\ \/ epc' = "wait" /\ dpc' = "set_running" /\ UNCHANGED cancelled
       \/ CreateMayFail /\ epc' = "none" /\ cancelled' = TRUE /\ dpc' = "wait"
    /\ UNCHANGED <<xstack_state, boots, usr2, ipc, shmVars, clientVars, histVars>>

SetRunning ==
    /\ dpc = "set_running"
    /\ xstack_state' = "RUNNING"
    /\ dpc' = "wait"
    /\ UNCHANGED <<boots, usr2, threadVars, shmVars, clientVars, histVars>>

\* SIGUSR1 arrives in sigwaitinfo and xstack_stop begins.
Stop ==
    /\ dpc = "wait"
    /\ xstack_state' = "DYING"
    /\ dpc' = "join_ingress"
    /\ UNCHANGED <<boots, usr2, threadVars, shmVars, clientVars, histVars>>

\* pthread_join of a thread that was never created is undefined: the daemon
\* crashes (tid 0).
JoinIngress ==
    /\ dpc = "join_ingress"
    /\ \/ /\ ipc = "exited"
          /\ dpc' = "join_egress"
          /\ UNCHANGED <<xstack_state, boots, usr2, threadVars>>
       \/ ipc = "none" /\ DaemonDies
    /\ UNCHANGED <<shmVars, clientVars, histVars>>

\* Then the state is STOPPED, the Ethernet handle is closed and main returns.
JoinEgress ==
    /\ dpc = "join_egress"
    /\ \/ /\ epc = "exited"
          /\ xstack_state' = "STOPPED"
          /\ dpc' = "off"
          /\ UNCHANGED <<boots, usr2, threadVars>>
       \/ epc = "none" /\ DaemonDies
    /\ UNCHANGED <<shmVars, clientVars, histVars>>

MainStep ==
    \/ InitClear \/ InitCtrl \/ InitIngressQ \/ InitEgressQ
    \/ CreateIngress \/ CreateEgress \/ SetRunning
    \/ JoinIngress \/ JoinEgress

-----------------------------------------------------------------------------
(* The ingress thread; nobody else stores in_wr.                           *)

\* ether_receive returns a frame with a UDP datagram for the socket.
IngressRx ==
    /\ ipc = "rx" /\ ~cancelled
    /\ rxn < MaxRx
    /\ rxn' = rxn + 1
    /\ ipc' = "input"
    /\ UNCHANGED <<mainVars, cancelled, epc, shmVars, clientVars, txn, delivered, handed>>

\* ether_receive times out, fails, or returns a frame for something else.
IngressOther ==
    /\ ipc = "rx" /\ ~cancelled
    /\ ipc' = "check"
    /\ UNCHANGED <<mainVars, cancelled, epc, shmVars, clientVars, histVars>>

\* recvfrom in ether_receive is a cancellation point.
IngressCancel ==
    /\ ipc = "rx" /\ cancelled
    /\ ipc' = "exited"
    /\ UNCHANGED <<mainVars, cancelled, epc, shmVars, clientVars, histVars>>

\* xstack_sock_dgram_input: queue_alloc, repeated while the ring is full ...
DgramAlloc ==
    /\ ipc = "input"
    /\ NextElement(in_wr) # in_rd
    /\ ipc' = "fill"
    /\ UNCHANGED <<mainVars, cancelled, epc, shmVars, clientVars, histVars>>

\* ... the slot is filled ...
DgramFill ==
    /\ ipc = "fill"
    /\ in_data' = [in_data EXCEPT ![in_wr] = rxn]
    /\ ipc' = "commit"
    /\ UNCHANGED <<mainVars, cancelled, epc, pidVars, in_len, in_rd, in_wr, in_stale, egVars,
                   clientVars, histVars>>

\* ... and committed ...
DgramCommit ==
    /\ ipc = "commit"
    /\ in_wr' = NextElement(in_wr)
    /\ ipc' = "notify"
    /\ UNCHANGED <<mainVars, cancelled, epc, pidVars, in_len, in_rd, in_data, in_stale, egVars,
                   clientVars, histVars>>

\* ... and kill(pid_end, SIGUSR2): pid 0 is the daemon's own process group,
\* the pid of an application that has ended is nobody.
DgramNotify ==
    /\ ipc = "notify"
    /\ IF pid_end = 0 /\ Usr2TerminatesDaemon
       THEN DaemonDies
       ELSE ipc' = "check" /\ UNCHANGED <<mainVars, cancelled, epc>>
    /\ IF pid_end = client /\ cpc # "off" THEN ClientSignalled ELSE UNCHANGED clientVars
    /\ UNCHANGED <<shmVars, histVars>>

IngressCheck ==
    /\ ipc = "check"
    /\ ipc' = IF xstack_state = "DYING" THEN "exited" ELSE "rx"
    /\ UNCHANGED <<mainVars, cancelled, epc, shmVars, clientVars, histVars>>

IngressStep ==
    \/ IngressRx \/ IngressOther \/ IngressCancel
    \/ DgramAlloc \/ DgramFill \/ DgramCommit \/ DgramNotify \/ IngressCheck

-----------------------------------------------------------------------------
(* The egress thread; nobody else stores eg_rd.                            *)

\* sigtimedwait returns, always because of its timeout (see above).
EgressTimeout ==
    /\ epc = "wait"
    /\ epc' = "look"
    /\ UNCHANGED <<mainVars, ipc, cancelled, shmVars, clientVars, histVars>>

\* queue_isempty
EgressLook ==
    /\ epc = "look"
    /\ epc' = IF eg_wr = eg_rd THEN "check" ELSE "peek"
    /\ UNCHANGED <<mainVars, ipc, cancelled, shmVars, clientVars, histVars>>

\* queue_peek, repeated while the ring is empty.
EgressPeek ==
    /\ epc = "peek"
    /\ eg_rd # eg_wr
    /\ epc' = "send"
    /\ UNCHANGED <<mainVars, ipc, cancelled, shmVars, clientVars, histVars>>

\* proto_send; its result is only logged.
EgressSend ==
    /\ epc = "send"
    /\ handed' = handed \cup {eg_data[eg_rd]}
    /\ epc' = "test"
    /\ UNCHANGED <<mainVars, ipc, cancelled, shmVars, clientVars, rxn, txn, delivered>>

\* queue_discard: the ring is tested ...
EgressTest ==
    /\ epc = "test"
    /\ epc' = IF eg_rd = eg_wr THEN "check" ELSE "discard"
    /\ UNCHANGED <<mainVars, ipc, cancelled, shmVars, clientVars, histVars>>

\* ... and m_read is stored.
EgressDiscard ==
    /\ epc = "discard"
    /\ eg_rd' = NextElement(eg_rd)
    /\ epc' = "check"
    /\ UNCHANGED <<mainVars, ipc, cancelled, pidVars, inVars, eg_len, eg_wr, eg_data,
                   clientVars, histVars>>

EgressCheck ==
    /\ epc = "check"
    /\ epc' = IF xstack_state = "DYING" THEN "exited" ELSE "wait"
    /\ UNCHANGED <<mainVars, ipc, cancelled, shmVars, clientVars, histVars>>

EgressStep ==
    \/ EgressTimeout \/ EgressLook \/ EgressPeek \/ EgressSend
    \/ EgressTest \/ EgressDiscard \/ EgressCheck

-----------------------------------------------------------------------------
(* The application.                                                        *)

\* xstack_listen: the file is mapped ...
ClientStart ==
    /\ cpc = "off"
    /\ client < MaxClients
    /\ client' = client + 1
    /\ cdeath' = "no"
    /\ CallGoesOn("mapped")
    /\ UNCHANGED <<masked, pending, joined, idx, seen>>

\* ... SIGUSR2 is blocked ...
ListenBlock ==
    /\ cpc = "mapped"
    /\ masked' = TRUE
    /\ CallGoesOn("masked")
    /\ UNCHANGED <<client, pending, joined, cdeath, idx, seen>>

\* ... and only then the pid is published.
ListenPublish ==
    /\ cpc = "masked"
    /\ pid_end' = client
    /\ cpc' = "idle"
    /\ joined' = IF eg_len # 0 THEN Era ELSE 0
    /\ UNCHANGED <<daemonVars, pid_inetd, inVars, egVars, client, masked, pending, cdeath,
                   idx, seen, histVars>>

\* xstack_recvfrom is called ...
RecvCall ==
    /\ cpc = "idle"
    /\ CallGoesOn("rwait")
    /\ UNCHANGED <<appVars, idx, seen>>

\* ... sigtimedwait takes a pending signal or times out ...
RecvSignalled ==
    /\ cpc = "rwait" /\ pending
    /\ pending' = FALSE
    /\ CallGoesOn("rpeek")
    /\ UNCHANGED <<client, masked, joined, cdeath, idx, seen>>

RecvTimeout ==
    /\ cpc = "rwait" /\ ~pending
    /\ CallGoesOn("rpeek")
    /\ UNCHANGED <<appVars, idx, seen>>

\* ... queue_peek loads m_read ...
RecvPeek ==
    /\ cpc = "rpeek"
    /\ idx' = in_rd /\ seen' = EraOf(in_len, in_rd)
    /\ CallGoesOn("rtest")
    /\ UNCHANGED appVars

\* ... and tests m_write; while the ring is empty the wait is repeated.  The
\* slot is read * b_size, and the b_size of a cleared file is 0 ...
RecvPeekTest ==
    /\ cpc = "rtest"
    /\ IF idx = in_wr
       THEN CallGoesOn("rwait") /\ idx' = 0 /\ seen' = 0
       ELSE /\ CallGoesOn("rcopy")
            /\ idx' = idx \/ (Overtaken /\ idx' = 0)
            /\ UNCHANGED seen
    /\ UNCHANGED appVars

\* ... the slot is copied; what a call copies that a restart has overtaken is
\* anything ...
RecvCopy ==
    /\ cpc = "rcopy"
    /\ delivered' = IF Overtaken THEN delivered ELSE delivered \cup {in_data[idx]}
    /\ cpc' = "rdone"
    /\ UNCHANGED <<daemonVars, shmVars, appVars, idx, seen, rxn, txn, handed>>

\* ... and, unless the caller passed XSTACK_MSG_PEEK ...
RecvKeep ==
    /\ cpc = "rdone"
    /\ CallEnds
    /\ UNCHANGED <<daemonVars, shmVars, appVars, histVars>>

\* ... queue_discard loads m_read ...
RecvDiscard ==
    /\ cpc = "rdone"
    /\ idx' = in_rd
    /\ CallGoesOn("dtest")
    /\ UNCHANGED <<appVars, seen>>

\* ... tests m_write ...
RecvDiscardTest ==
    /\ cpc = "dtest"
    /\ IF idx = in_wr
       THEN CallEnds
       ELSE cpc' = "dmod" /\ UNCHANGED <<idx, seen>>
    /\ UNCHANGED <<daemonVars, shmVars, appVars, histVars>>

\* ... divides by a_len ...
RecvDiscardModulo ==
    /\ cpc = "dmod" /\ in_len # 0
    /\ CallGoesOn("dstore")
    /\ UNCHANGED <<appVars, idx, seen>>

\* ... and stores m_read.
RecvDiscardStore ==
    /\ cpc = "dstore"
    /\ in_rd' = NextElement(idx)
    /\ in_stale' = (in_stale \/ Overtaken)
    /\ CallEnds
    /\ UNCHANGED <<daemonVars, pidVars, in_len, in_wr, in_data, egVars, appVars, histVars>>

\* xstack_sendto is called; one that returns ENOBUFS changes nothing.
SendCall ==
    /\ cpc = "idle"
    /\ txn < MaxTx
    /\ txn' = txn + 1
    /\ cpc' = "salloc"
    /\ UNCHANGED <<daemonVars, shmVars, appVars, idx, seen, rxn, delivered, handed>>

\* queue_alloc loads m_write ...
SendAlloc ==
    /\ cpc = "salloc"
    /\ idx' = eg_wr /\ seen' = EraOf(eg_len, eg_wr)
    /\ CallGoesOn("smod")
    /\ UNCHANGED appVars

\* ... divides by a_len ...
SendAllocModulo ==
    /\ cpc = "smod" /\ eg_len # 0
    /\ CallGoesOn("stest")
    /\ UNCHANGED <<appVars, idx, seen>>

\* ... tests m_read, and is repeated while the ring is full; the slot is
\* write * b_size ...
SendAllocTest ==
    /\ cpc = "stest"
    /\ IF NextElement(idx) = eg_rd
       THEN CallGoesOn("salloc") /\ idx' = 0 /\ seen' = 0
       ELSE /\ CallGoesOn("sfill")
            /\ idx' = idx \/ (Overtaken /\ idx' = 0)
            /\ UNCHANGED seen
    /\ UNCHANGED appVars

\* ... dstaddr and buf are stored, buf_size is not and keeps the 0 of the
\* cleared file ...
SendFill ==
    /\ cpc = "sfill"
    /\ eg_data' = [eg_data EXCEPT ![idx] = txn]
    /\ cpc' = "scommit"
    /\ UNCHANGED <<daemonVars, pidVars, inVars, eg_len, eg_rd, eg_wr, appVars, idx, seen, histVars>>

\* ... queue_commit loads m_write ...
SendCommit ==
    /\ cpc = "scommit"
    /\ idx' = eg_wr
    /\ CallGoesOn("cmod")
    /\ UNCHANGED <<appVars, seen>>

\* ... divides by a_len ...
SendCommitModulo ==
    /\ cpc = "cmod" /\ eg_len # 0
    /\ CallGoesOn("cstore")
    /\ UNCHANGED <<appVars, idx, seen>>

\* ... and stores m_write ...
SendCommitStore ==
    /\ cpc = "cstore"
    /\ eg_wr' = NextElement(idx)
    /\ cpc' = "skill"
    /\ UNCHANGED <<daemonVars, pidVars, inVars, eg_len, eg_rd, eg_data, appVars, idx, seen, histVars>>

\* ... and kill(pid_inetd, SIGUSR2): pid 0 is the application's own process
\* group, the pid of a daemon that has ended is nobody.
SendNotify ==
    /\ cpc = "skill"
    /\ IF pid_inetd = boots /\ DaemonUp /\ Usr2TerminatesDaemon
       THEN DaemonDies
       ELSE UNCHANGED daemonVars
    /\ pending' = (pending \/ pid_inetd = 0)
    /\ CallEnds
    /\ UNCHANGED <<shmVars, client, masked, joined, cdeath, histVars>>

\* queue_discard, queue_alloc and queue_commit divide by the 0 of a cleared
\* file.
DivideByZero ==
    /\ \/ cpc = "dmod" /\ in_len = 0
       \/ cpc \in {"smod", "cmod"} /\ eg_len = 0
    /\ ClientDies("fpe")
    /\ UNCHANGED <<daemonVars, shmVars, histVars>>

\* The application exits or is killed, at any point.
ClientExit ==
    /\ cpc # "off"
    /\ ClientDies("exit")
    /\ UNCHANGED <<daemonVars, shmVars, histVars>>

RecvStep ==
    \/ RecvCall \/ RecvSignalled \/ RecvTimeout \/ RecvPeek \/ RecvPeekTest \/ RecvCopy
    \/ RecvKeep \/ RecvDiscard \/ RecvDiscardTest \/ RecvDiscardModulo \/ RecvDiscardStore

SendStep ==
    \/ SendCall \/ SendAlloc \/ SendAllocModulo \/ SendAllocTest \/ SendFill
    \/ SendCommit \/ SendCommitModulo \/ SendCommitStore \/ SendNotify

ClientStep ==
    ListenBlock \/ ListenPublish \/ RecvStep \/ SendStep \/ DivideByZero

-----------------------------------------------------------------------------
Next ==
    \/ DaemonBoot \/ Stop \/ MainStep
    \/ IngressStep \/ EgressStep
    \/ ClientStart \/ ClientStep \/ ClientExit

Spec == Init /\ [][Next]_vars

\* The kernel schedules every thread, ether_receive and both sigtimedwait
\* calls have timeouts, and an application that is attached keeps calling
\* xstack_recvfrom, not with XSTACK_MSG_PEEK only (examples/unetcat.c).
\* Starting or stopping either process is nobody's duty.
FairSpec ==
    /\ Spec
    /\ WF_vars(MainStep) /\ WF_vars(IngressStep) /\ WF_vars(EgressStep)
    /\ WF_vars(ClientStep) /\ SF_vars(RecvDiscard)

-----------------------------------------------------------------------------
(* Properties.                                                             *)

\* The places inside the two calls.
RecvCalls == {"rpeek", "rtest", "rcopy", "rdone", "dtest", "dmod", "dstore"}
SendCalls == {"salloc", "smod", "stest", "sfill", "scommit", "cmod", "cstore", "skill"}

TypeOK ==
    /\ dpc \in {"off", "dead", "boot", "cleared", "ctrl", "ingress_q", "create_ingress",
                "create_egress", "set_running", "wait", "join_ingress", "join_egress"}
    /\ xstack_state \in {"STOPPED", "RUNNING", "DYING"}
    /\ boots \in 0..MaxBoots /\ usr2 \in {"default", "ignore"}
    /\ ipc \in {"none", "rx", "input", "fill", "commit", "notify", "check", "exited"}
    /\ cancelled \in BOOLEAN
    /\ epc \in {"none", "wait", "look", "peek", "send", "test", "discard", "check", "exited"}
    /\ pid_inetd \in 0..MaxBoots /\ pid_end \in 0..MaxClients
    /\ in_len \in {0, ALen} /\ eg_len \in {0, ALen}
    /\ in_rd \in Slots /\ in_wr \in Slots /\ in_data \in [Slots -> 0..MaxRx]
    /\ eg_rd \in Slots /\ eg_wr \in Slots /\ eg_data \in [Slots -> 0..MaxTx]
    /\ cpc \in {"off", "mapped", "masked", "idle", "rwait"} \cup RecvCalls \cup SendCalls
    /\ client \in 0..MaxClients /\ masked \in BOOLEAN /\ pending \in BOOLEAN
    /\ idx \in Slots /\ seen \in 0..(MaxBoots + 1) /\ joined \in 0..MaxBoots
    /\ cdeath \in {"no", "exit", "usr2", "fpe"}
    /\ rxn \in 0..MaxRx /\ txn \in 0..MaxTx
    /\ delivered \subseteq 0..MaxRx /\ handed \subseteq 0..MaxTx
    /\ in_stale \in BOOLEAN

InQueue == Queued(in_data, in_rd, in_wr)
EgQueue == Queued(eg_data, eg_rd, eg_wr)

\* xstack_listen blocks SIGUSR2 before it publishes the pid, and xstack_init
\* makes the rings usable last: an application that does not exit by itself
\* ends only by dividing by a_len = 0, in xstack_sendto or in the discard of
\* xstack_recvfrom, and only if it did not attach to the initialised socket of
\* the running daemon.  A notification never terminates it.
ClientSurvives ==
    [][cpc # "off" /\ cpc' = "off" =>
           cdeath' = "exit" \/ (cdeath' = "fpe" /\ (joined = 0 \/ joined # Era))]_vars

\* The pid that xstack_sock_dgram_input signals is that of the application
\* that attached after xstack_init, whatever other applications did before.
AttachedIsNotified ==
    cpc # "off" /\ joined # 0 /\ joined = Era => pid_end = client

InLoop(pc) == pc \notin {"none", "exited"}

\* While xstack_state is RUNNING both threads are in their loops.  While it is
\* STOPPED none is, except during xstack_start between the two calls of
\* pthread_create and set_state, and except for an ingress thread that was
\* cancelled because the second call failed and has not met a cancellation
\* point: there the comment of XSTACK_STOPPED, that the threads are not running,
\* is wrong.  So main returns, closing the Ethernet handle, only when both are
\* gone.
StateTellsThreads ==
    /\ xstack_state = "RUNNING" => InLoop(ipc) /\ InLoop(epc)
    /\ xstack_state = "STOPPED" /\ dpc \notin {"create_egress", "set_running"} =>
           ~InLoop(epc) /\ (InLoop(ipc) => cancelled /\ DaemonUp)

\* A datagram leaves the ingress ring only after xstack_recvfrom returned it
\* to some application, or because a new daemon clears the file, or after a
\* call that the restart overtook has stored its old index as m_read.
IngressNoLoss ==
    [][InQueue \ InQueue' \subseteq delivered \/ dpc = "boot" \/ in_stale \/ in_stale']_vars

\* Datagrams are delivered in the order of their arrival: a datagram is first
\* returned when all earlier ones are off the ring, and after them; as long as
\* no overtaken call has stored m_read.
IngressInOrder ==
    [][~in_stale => \A n \in delivered' \ delivered :
           /\ \A m \in delivered : m < n
           /\ \A m \in InQueue : n <= m]_vars

\* A datagram leaves the egress ring only after the egress thread passed it to
\* the protocol, or because a new daemon clears the file: an overtaken call of
\* xstack_sendto stores m_write and a slot only while the ring is empty.
EgressNoLoss ==
    [][(EgQueue \ EgQueue') \ {0} \subseteq handed \/ dpc = "boot"]_vars

\* Signals coalesce, get lost with a stale pid and are consumed one per call,
\* but because of the timeout in xstack_recvfrom a queued datagram reaches an
\* application that stays and keeps receiving from a daemon that stays.
IngressDelivered ==
    \A n \in 1..MaxRx :
        n \in InQueue ~>
            n \in delivered \/ cpc = "off" \/ xstack_state = "DYING" \/ ~DaemonUp

\* Because of the timeout in the egress thread, a committed datagram reaches
\* proto_send unless the daemon is stopped.
EgressHanded ==
    \A n \in 1..MaxTx :
        n \in EgQueue ~> n \in handed \/ xstack_state = "DYING" \/ ~DaemonUp

\* While an application is attached xstack_stop returns, also when the ingress
\* thread waits on a full ring, unless the application itself is stuck in
\* queue_alloc of xstack_sendto for ever: it spins on a ring that the egress
\* thread has left, and makes no room for the ingress thread that is joined.
StopUnlessSendto ==
    xstack_state = "DYING" ~>
        xstack_state = "STOPPED" \/ cpc = "off" \/ [](cpc \in {"salloc", "smod", "stest"})
=============================================================================
