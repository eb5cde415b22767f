-------------------------- MODULE XstackSockProofs --------------------------
(***************************************************************************)
(* Machine-checked proofs about one datagram socket: for rings of any      *)
(* size, any number of datagrams, of restarts of the daemon and of         *)
(* applications.                                                           *)
(***************************************************************************)
EXTENDS XstackSock, TLAPS

-----------------------------------------------------------------------------
(* Indices of a ring.                                                      *)

\* How far a slot is from m_read.
Dist(rd, s) == IF rd <= s THEN s - rd ELSE s - rd + ALen

\* The index wraps at the last slot.
LEMMA NextIs ==
    ASSUME NEW i \in Slots
    PROVE  NextElement(i) = IF i = ALen - 1 THEN 0 ELSE i + 1
<1>1. i \in Int /\ 0 <= i /\ i < ALen /\ ALen \in Nat
  BY SockAssumption DEF Slots
<1>2. CASE i = ALen - 1
  <2>1. ALen % ALen = 0
    BY <1>1
  <2> QED
    BY <1>1, <1>2, <2>1 DEF NextElement
<1>3. CASE i # ALen - 1
  BY <1>1, <1>3 DEF NextElement
<1> QED
  BY <1>2, <1>3

\* It is a slot again, and no two slots have the same successor.
LEMMA NextFacts ==
    /\ 0 \in Slots
    /\ \A i \in Slots : NextElement(i) \in Slots /\ NextElement(i) # i
    /\ \A i, j \in Slots : NextElement(i) = NextElement(j) => i = j
<1>1. 0 \in Slots
  BY SockAssumption DEF Slots
<1>2. ASSUME NEW i \in Slots PROVE NextElement(i) \in Slots /\ NextElement(i) # i
  <2>1. NextElement(i) = IF i = ALen - 1 THEN 0 ELSE i + 1
    BY NextIs
  <2> QED
    BY <2>1, SockAssumption DEF Slots
<1>3. ASSUME NEW i \in Slots, NEW j \in Slots, NextElement(i) = NextElement(j) PROVE i = j
  <2>1. /\ NextElement(i) = IF i = ALen - 1 THEN 0 ELSE i + 1
        /\ NextElement(j) = IF j = ALen - 1 THEN 0 ELSE j + 1
    BY NextIs
  <2>2. ALen \in Nat /\ i \in Int /\ j \in Int /\ 0 <= i /\ i < ALen /\ 0 <= j /\ j < ALen
    BY SockAssumption DEF Slots
  <2>3. NextElement(i) = NextElement(j)
    BY <1>3
  <2> QED
    BY <2>1, <2>2, <2>3
<1> QED
  BY <1>1, <1>2, <1>3

\* The first slot of a window and what its neighbours are.
LEMMA WindowFacts ==
    ASSUME NEW rd \in Slots, NEW wr \in Slots
    PROVE  /\ Window(rd, wr) \subseteq Slots
           /\ wr \notin Window(rd, wr)
           /\ rd = wr => Window(rd, wr) = {}
           /\ rd # wr => rd \in Window(rd, wr) /\ \A s \in Window(rd, wr) : Dist(rd, rd) <= Dist(rd, s)
  BY SockAssumption DEF Window, Slots, Dist

\* queue_discard: the window loses its first slot and keeps its order.
LEMMA WindowShrinks ==
    ASSUME NEW rd \in Slots, NEW wr \in Slots, rd # wr
    PROVE  /\ Window(rd, wr) = Window(NextElement(rd), wr) \cup {rd}
           /\ \A s \in Window(NextElement(rd), wr) : Dist(NextElement(rd), s) = Dist(rd, s) - 1
<1>1. NextElement(rd) = IF rd = ALen - 1 THEN 0 ELSE rd + 1
  BY NextIs
<1>2. ALen \in Nat /\ ALen > 1 /\ rd \in Int /\ wr \in Int /\ 0 <= rd /\ rd < ALen /\ 0 <= wr /\ wr < ALen
  BY SockAssumption DEF Slots
<1>3. Window(rd, wr) = Window(NextElement(rd), wr) \cup {rd}
  <2>1. CASE rd = ALen - 1
    BY <1>1, <1>2, <2>1 DEF Window, Slots
  <2>2. CASE rd # ALen - 1
    BY <1>1, <1>2, <2>2 DEF Window, Slots
  <2> QED
    BY <2>1, <2>2
<1>4. ASSUME NEW s \in Window(NextElement(rd), wr) PROVE Dist(NextElement(rd), s) = Dist(rd, s) - 1
  BY <1>1, <1>2 DEF Window, Slots, Dist
<1> QED
  BY <1>3, <1>4

\* queue_commit: the window gains the slot at m_write, as the last one.
LEMMA WindowGrows ==
    ASSUME NEW rd \in Slots, NEW wr \in Slots, NextElement(wr) # rd
    PROVE  /\ Window(rd, NextElement(wr)) = Window(rd, wr) \cup {wr}
           /\ \A s \in Window(rd, wr) : Dist(rd, s) < Dist(rd, wr)
<1>1. NextElement(wr) = IF wr = ALen - 1 THEN 0 ELSE wr + 1
  BY NextIs
<1>2. ALen \in Nat /\ ALen > 1 /\ rd \in Int /\ wr \in Int /\ 0 <= rd /\ rd < ALen /\ 0 <= wr /\ wr < ALen
  BY SockAssumption DEF Slots
<1>3. Window(rd, NextElement(wr)) = Window(rd, wr) \cup {wr}
  <2>1. CASE wr = ALen - 1
    BY <1>1, <1>2, <2>1 DEF Window, Slots
  <2>2. CASE wr # ALen - 1
    BY <1>1, <1>2, <2>2 DEF Window, Slots
  <2> QED
    BY <2>1, <2>2
<1>4. ASSUME NEW s \in Window(rd, wr) PROVE Dist(rd, s) < Dist(rd, wr)
  BY <1>2 DEF Window, Slots, Dist
<1> QED
  BY <1>3, <1>4

-----------------------------------------------------------------------------
(* The inductive invariant.                                                *)

Starting    == {"boot", "cleared", "ctrl", "ingress_q", "create_ingress"}
IngressLoop == {"rx", "input", "fill", "commit", "notify", "check"}
EgressLoop  == {"wait", "look", "peek", "send", "test", "discard", "check"}

\* What main's place in the start and the stop of the daemon says about its
\* threads.
Threads ==
    /\ boots = 0 => dpc = "off"
    /\ dpc \in Starting \cup {"off", "dead", "create_egress", "set_running"} =>
           xstack_state = "STOPPED"
    /\ dpc \in {"join_ingress", "join_egress"} => xstack_state = "DYING"
    /\ dpc = "wait" => xstack_state \in {"STOPPED", "RUNNING"}
    /\ dpc \in Starting => ipc = "none" /\ epc = "none" /\ ~cancelled
    /\ dpc = "create_egress" => ipc \in IngressLoop /\ epc = "none" /\ ~cancelled
    /\ dpc = "set_running" \/ xstack_state = "RUNNING" =>
           ipc \in IngressLoop /\ epc \in EgressLoop /\ ~cancelled
    /\ dpc = "wait" /\ xstack_state = "STOPPED" => epc = "none" /\ (ipc \in IngressLoop => cancelled)
    /\ dpc = "join_egress" => ipc = "exited"
    /\ dpc \in {"off", "dead"} => ipc \in {"none", "exited"} /\ epc \in {"none", "exited"}

\* The rings are usable when xstack_init has created them, the egress ring
\* last; a daemon may be terminated before that.
Untouched == boots = 0 \/ (boots = 1 /\ dpc = "boot")
Created ==
    /\ Untouched \/ dpc \in {"cleared", "ctrl"} => in_len = 0
    /\ Untouched \/ dpc \in {"cleared", "ctrl", "ingress_q"} => eg_len = 0
    /\ dpc = "ingress_q" => in_len # 0
    /\ dpc = "create_ingress" => eg_len # 0
    /\ eg_len # 0 => in_len # 0
    /\ eg_len = 0 => ipc \notin IngressLoop /\ epc \notin EgressLoop

\* The pids in the file, and the era in which the application attached.
Attachment ==
    /\ pid_inetd <= boots /\ (dpc = "boot" => pid_inetd < boots)
    /\ pid_end <= client
    /\ cpc \in {"mapped", "masked"} => pid_end < client
    /\ cpc \notin {"off", "mapped"} => masked
    /\ cpc \in {"off", "mapped", "masked"} => joined = 0
    /\ joined <= Era /\ seen <= Era
    /\ joined # 0 /\ joined = Era => eg_len # 0 /\ pid_end = client

\* The ingress ring holds datagrams in the order of their arrival, none older
\* than one that has been delivered, as long as no overtaken call has stored
\* m_read; the datagram that a call is at is the first.
InOrderRing ==
    /\ \A s, t \in Window(in_rd, in_wr) : Dist(in_rd, s) <= Dist(in_rd, t) => in_data[s] <= in_data[t]
    /\ \A m \in delivered, s \in Window(in_rd, in_wr) : m <= in_data[s]
Reading ==
    /\ cpc \in {"rtest", "rcopy", "dtest", "dmod", "dstore"} => idx = in_rd
    /\ cpc \in {"rcopy", "rdone", "dtest", "dmod", "dstore"} => in_rd # in_wr
    /\ cpc \in {"rdone", "dtest", "dmod", "dstore"} => in_data[in_rd] \in delivered
Arrived ==
    /\ \A s \in Slots : in_data[s] <= rxn
    /\ \A m \in delivered : m <= rxn
    /\ ipc = "commit" => in_data[in_wr] = rxn
InSorted == ~in_stale => InOrderRing
InRoom  == ~in_stale /\ ipc \in {"fill", "commit"} => NextElement(in_wr) # in_rd
InCall  == ~in_stale /\ ~Overtaken => Reading
InFresh ==
    /\ in_len = 0 => in_wr = 0 /\ (~in_stale => in_rd = 0)
    /\ in_len = 0 /\ ~Overtaken =>
           cpc \notin {"rcopy", "rdone", "dtest", "dmod", "dstore"} /\ (cpc = "rtest" => idx = 0)
Ingress == Arrived /\ InSorted /\ InRoom /\ InCall /\ InFresh

\* The egress ring has room for the datagram that is being committed, the one
\* that the egress thread works on stays the first, and a call that a restart
\* has overtaken finds the ring empty.
Sending == {"smod", "stest", "sfill", "scommit", "cmod", "cstore"}
Working == {"peek", "send", "test", "discard"}
Writing ==
    /\ cpc \in Sending \ {"scommit"} => idx = eg_wr
    /\ cpc \in Sending \ {"smod", "stest"} => NextElement(eg_wr) # eg_rd
EgWork   == epc \in Working => eg_rd # eg_wr
EgHanded == epc \in {"test", "discard"} => eg_data[eg_rd] \in handed
EgCall   == ~Overtaken => Writing
EgOver   == Overtaken /\ cpc \in Sending => epc \notin Working /\ (eg_len # 0 => eg_rd = eg_wr)
EgFresh  == eg_len = 0 => eg_rd = 0 /\ \A s \in Window(eg_rd, eg_wr) : eg_data[s] = 0
EgZero   ==
    /\ eg_len = 0 /\ cpc \in Sending /\ (cpc = "smod" => ~Overtaken) => eg_wr = 0
    /\ eg_len = 0 /\ cpc = "cstore" => \A s \in Slots : eg_data[s] = 0
Egress == EgWork /\ EgHanded /\ EgCall /\ EgOver /\ EgFresh /\ EgZero

\* The parts of TypeOK.
DaemonType ==
    /\ dpc \in {"off", "dead", "boot", "cleared", "ctrl", "ingress_q", "create_ingress",
                "create_egress", "set_running", "wait", "join_ingress", "join_egress"}
    /\ xstack_state \in {"STOPPED", "RUNNING", "DYING"}
    /\ boots \in 0..MaxBoots /\ usr2 \in {"default", "ignore"}
    /\ ipc \in {"none", "rx", "input", "fill", "commit", "notify", "check", "exited"}
    /\ epc \in {"none", "wait", "look", "peek", "send", "test", "discard", "check", "exited"}
    /\ pid_inetd \in 0..MaxBoots /\ pid_end \in 0..MaxClients
    /\ in_len \in {0, ALen} /\ eg_len \in {0, ALen}
FlagType == cancelled \in BOOLEAN /\ masked \in BOOLEAN /\ pending \in BOOLEAN /\ in_stale \in BOOLEAN
AppType ==
    /\ cpc \in {"off", "mapped", "masked", "idle", "rwait"} \cup RecvCalls \cup SendCalls
    /\ client \in 0..MaxClients
    /\ idx \in Slots /\ seen \in 0..(MaxBoots + 1) /\ joined \in 0..MaxBoots
    /\ cdeath \in {"no", "exit", "usr2", "fpe"}
DataType ==
    /\ in_rd \in Slots /\ in_wr \in Slots /\ in_data \in [Slots -> 0..MaxRx]
    /\ eg_rd \in Slots /\ eg_wr \in Slots /\ eg_data \in [Slots -> 0..MaxTx]
    /\ rxn \in 0..MaxRx /\ txn \in 0..MaxTx
    /\ delivered \subseteq 0..MaxRx /\ handed \subseteq 0..MaxTx

SockInv == TypeOK /\ Threads /\ Created /\ Attachment /\ Ingress /\ Egress

\* TypeOK, cut into the parts that are shown one by one.
LEMMA TypeParts == TypeOK <=> DaemonType /\ FlagType /\ AppType /\ DataType
  BY DEF TypeOK, DaemonType, FlagType, AppType, DataType

\* A restart changes the era when it clears the file, unless the file is still
\* untouched; nothing else does.
LEMMA EraFacts ==
    ASSUME SockInv, [Next]_vars
    PROVE  /\ Era \in Nat \ {0} /\ Era' \in Nat \ {0} /\ Era <= MaxBoots + 1
           /\ (boots # 0 => Era <= boots) /\ boots \in Nat
           /\ ~InitClear => Era' = Era
           /\ InitClear => Era' = IF boots = 1 THEN Era ELSE Era + 1
<1>1. boots \in 0..MaxBoots /\ (boots = 0 => dpc = "off") /\ MaxBoots \in Nat
  BY SockAssumption DEF SockInv, TypeOK, Threads
<1>2. Next \/ UNCHANGED vars
  OBVIOUS
<1>3. CASE DaemonBoot
  BY <1>1, <1>3 DEF DaemonBoot, DaemonUp, InitClear, Era
<1>4. CASE InitClear
  BY <1>1, <1>4 DEF InitClear, Era
<1>5. CASE InitCtrl \/ InitIngressQ \/ InitEgressQ \/ CreateIngress \/ CreateEgress \/ SetRunning
  BY <1>1, <1>5 DEF InitCtrl, InitIngressQ, InitEgressQ, CreateIngress, CreateEgress, SetRunning,
                    InitClear, Era
<1>6. CASE JoinIngress \/ JoinEgress \/ Stop
  BY <1>1, <1>6 DEF JoinIngress, JoinEgress, Stop, DaemonDies, InitClear, Era
<1>7. CASE IngressStep
  <2>1. boots' = boots /\ (dpc' = dpc \/ dpc' = "dead")
    BY <1>7 DEF IngressStep, IngressRx, IngressOther, IngressCancel, DgramAlloc, DgramFill,
                DgramCommit, DgramNotify, IngressCheck, DaemonDies, mainVars
  <2>2. dpc # "boot" \/ ipc = "none"
    BY DEF SockInv, Threads, Starting
  <2>3. ipc # "none"
    BY <1>7 DEF IngressStep, IngressRx, IngressOther, IngressCancel, DgramAlloc, DgramFill,
                DgramCommit, DgramNotify, IngressCheck
  <2> QED
    BY <1>1, <2>1, <2>2, <2>3 DEF InitClear, Era
<1>8. CASE EgressStep
  <2>1. boots' = boots /\ dpc' = dpc
    BY <1>8 DEF EgressStep, EgressTimeout, EgressLook, EgressPeek, EgressSend, EgressTest,
                EgressDiscard, EgressCheck, mainVars
  <2> QED
    BY <1>1, <2>1 DEF InitClear, Era
<1>9. CASE ClientStart \/ ClientStep \/ ClientExit
  <2>1. boots' = boots
    BY <1>9 DEF ClientStart, ClientStep, ClientExit, ListenBlock, ListenPublish, RecvStep, SendStep,
                RecvCall, RecvSignalled, RecvTimeout, RecvPeek, RecvPeekTest, RecvCopy, RecvKeep,
                RecvDiscard, RecvDiscardTest, RecvDiscardModulo, RecvDiscardStore, SendCall, SendAlloc,
                SendAllocModulo, SendAllocTest, SendFill, SendCommit, SendCommitModulo,
                SendCommitStore, SendNotify, DivideByZero, CallGoesOn, DaemonDies, daemonVars, mainVars
  <2>2. dpc' = dpc \/ SendNotify
    BY <1>9 DEF ClientStart, ClientStep, ClientExit, ListenBlock, ListenPublish, RecvStep, SendStep,
                RecvCall, RecvSignalled, RecvTimeout, RecvPeek, RecvPeekTest, RecvCopy, RecvKeep,
                RecvDiscard, RecvDiscardTest, RecvDiscardModulo, RecvDiscardStore, SendCall, SendAlloc,
                SendAllocModulo, SendAllocTest, SendFill, SendCommit, SendCommitModulo,
                SendCommitStore, DivideByZero, CallGoesOn, daemonVars, mainVars
  <2>3. SendNotify => dpc # "boot" \/ dpc' = dpc
    BY <1>1 DEF SendNotify, SockInv, Attachment, daemonVars, mainVars
  <2>4. dpc' # dpc => dpc' = "dead"
    BY <2>2 DEF SendNotify, DaemonDies, daemonVars, mainVars
  <2> QED
    BY <1>1, <2>1, <2>2, <2>3, <2>4 DEF InitClear, Era, SendNotify
<1>10. CASE UNCHANGED vars
  BY <1>1, <1>10 DEF vars, daemonVars, mainVars, InitClear, Era
<1> QED
  BY <1>2, <1>3, <1>4, <1>5, <1>6, <1>7, <1>8, <1>9, <1>10 DEF Next, MainStep

-----------------------------------------------------------------------------
(* The steps.                                                              *)

\* The threads are where main believes them to be.
LEMMA ThreadsKept ==
    ASSUME SockInv, Next
    PROVE  Threads'
<1> USE SockAssumption DEF SockInv, TypeOK, Threads, Starting, IngressLoop, EgressLoop,
           mainVars, threadVars, daemonVars, pidVars, inVars, egVars, shmVars, appVars, callVars,
           clientVars, histVars
<1>1. CASE DaemonBoot
  BY <1>1 DEF DaemonBoot, DaemonUp
<1>2. CASE Stop \/ SetRunning
  BY <1>2 DEF Stop, SetRunning
<1>3. CASE InitClear
  BY <1>3 DEF InitClear
<1>4. CASE InitCtrl
  BY <1>4 DEF InitCtrl
<1>5. CASE InitIngressQ
  BY <1>5 DEF InitIngressQ
<1>6. CASE InitEgressQ
  BY <1>6 DEF InitEgressQ
<1>7. CASE CreateIngress \/ CreateEgress
  BY <1>7 DEF CreateIngress, CreateEgress
<1>8. CASE JoinIngress \/ JoinEgress
  BY <1>8 DEF JoinIngress, DaemonDies, JoinEgress
<1>9. CASE IngressRx
  BY <1>9 DEF IngressRx
<1>10. CASE IngressOther \/ IngressCancel \/ IngressCheck
  BY <1>10 DEF IngressOther, IngressCancel, IngressCheck
<1>11. CASE DgramAlloc
  BY <1>11 DEF DgramAlloc
<1>12. CASE DgramFill
  BY <1>12 DEF DgramFill
<1>13. CASE DgramCommit
  BY <1>13 DEF DgramCommit
<1>14. CASE DgramNotify
  BY <1>14 DEF DgramNotify, ClientSignalled, ClientDies, DaemonDies, Usr2TerminatesDaemon
<1>15. CASE EgressTimeout \/ EgressLook \/ EgressPeek \/ EgressTest \/ EgressCheck
  BY <1>15 DEF EgressTimeout, EgressLook, EgressPeek, EgressTest, EgressCheck
<1>16. CASE EgressSend
  BY <1>16 DEF EgressSend
<1>17. CASE EgressDiscard
  BY <1>17 DEF EgressDiscard
<1>18. CASE ClientStart \/ ListenBlock
  BY <1>18 DEF ClientStart, CallGoesOn, ListenBlock
<1>19. CASE ListenPublish
  BY <1>19 DEF ListenPublish
<1>20. CASE RecvCall \/ RecvSignalled \/ RecvTimeout
  BY <1>20 DEF RecvCall, CallGoesOn, RecvSignalled, RecvTimeout
<1>21. CASE RecvPeek
  BY <1>21 DEF RecvPeek, EraOf, CallGoesOn
<1>22. CASE RecvPeekTest
  BY <1>22 DEF RecvPeekTest, CallGoesOn
<1>23. CASE RecvCopy
  BY <1>23 DEF RecvCopy
<1>24. CASE RecvKeep \/ RecvDiscardModulo
  BY <1>24 DEF RecvKeep, CallEnds, RecvDiscardModulo, CallGoesOn
<1>25. CASE RecvDiscard \/ RecvDiscardTest
  BY <1>25 DEF RecvDiscard, CallGoesOn, RecvDiscardTest, CallEnds
<1>26. CASE RecvDiscardStore
  BY <1>26 DEF RecvDiscardStore, CallEnds
<1>27. CASE SendCall
  BY <1>27 DEF SendCall
<1>28. CASE SendAllocModulo \/ SendCommitModulo
  BY <1>28 DEF SendAllocModulo, CallGoesOn, SendCommitModulo
<1>29. CASE SendAlloc
  BY <1>29 DEF SendAlloc, EraOf, CallGoesOn
<1>30. CASE SendAllocTest
  BY <1>30 DEF SendAllocTest, CallGoesOn
<1>31. CASE SendFill
  BY <1>31 DEF SendFill
<1>32. CASE SendCommit
  BY <1>32 DEF SendCommit, CallGoesOn
<1>33. CASE SendCommitStore
  BY <1>33 DEF SendCommitStore
<1>34. CASE SendNotify
  BY <1>34 DEF SendNotify, DaemonDies, Usr2TerminatesDaemon, DaemonUp, CallEnds
<1>35. CASE DivideByZero \/ ClientExit
  BY <1>35 DEF DivideByZero, ClientDies, ClientExit
<1> QED
  BY <1>1, <1>2, <1>3, <1>4, <1>5, <1>6, <1>7, <1>8, <1>9, <1>10, <1>11, <1>12, <1>13, <1>14,
     <1>15, <1>16, <1>17, <1>18, <1>19, <1>20, <1>21, <1>22, <1>23, <1>24, <1>25, <1>26, <1>27,
     <1>28, <1>29, <1>30, <1>31, <1>32, <1>33, <1>34, <1>35
  DEF Next, MainStep, IngressStep, EgressStep, ClientStep, RecvStep, SendStep

\* The rings are usable when xstack_init has created them.
LEMMA CreatedKept ==
    ASSUME SockInv, Next
    PROVE  Created'
<1> USE SockAssumption DEF SockInv, TypeOK, Threads, Created, Untouched, Starting, IngressLoop, EgressLoop,
           mainVars, threadVars, daemonVars, pidVars, inVars, egVars, shmVars, appVars, callVars,
           clientVars, histVars
<1>1. CASE DaemonBoot
  BY <1>1 DEF DaemonBoot, DaemonUp
<1>2. CASE Stop \/ SetRunning
  BY <1>2 DEF Stop, SetRunning
<1>3. CASE InitClear
  BY <1>3 DEF InitClear
<1>4. CASE InitCtrl
  BY <1>4 DEF InitCtrl
<1>5. CASE InitIngressQ
  BY <1>5 DEF InitIngressQ
<1>6. CASE InitEgressQ
  BY <1>6 DEF InitEgressQ
<1>7. CASE CreateIngress \/ CreateEgress
  BY <1>7 DEF CreateIngress, CreateEgress
<1>8. CASE JoinIngress \/ JoinEgress
  BY <1>8 DEF JoinIngress, DaemonDies, JoinEgress
<1>9. CASE IngressRx
  BY <1>9 DEF IngressRx
<1>10. CASE IngressOther \/ IngressCancel \/ IngressCheck
  BY <1>10 DEF IngressOther, IngressCancel, IngressCheck
<1>11. CASE DgramAlloc
  BY <1>11 DEF DgramAlloc
<1>12. CASE DgramFill
  BY <1>12 DEF DgramFill
<1>13. CASE DgramCommit
  BY <1>13 DEF DgramCommit
<1>14. CASE DgramNotify
  BY <1>14 DEF DgramNotify, ClientSignalled, ClientDies, DaemonDies, Usr2TerminatesDaemon
<1>15. CASE EgressTimeout \/ EgressLook \/ EgressPeek \/ EgressTest \/ EgressCheck
  BY <1>15 DEF EgressTimeout, EgressLook, EgressPeek, EgressTest, EgressCheck
<1>16. CASE EgressSend
  BY <1>16 DEF EgressSend
<1>17. CASE EgressDiscard
  BY <1>17 DEF EgressDiscard
<1>18. CASE ClientStart \/ ListenBlock
  BY <1>18 DEF ClientStart, CallGoesOn, ListenBlock
<1>19. CASE ListenPublish
  BY <1>19 DEF ListenPublish
<1>20. CASE RecvCall \/ RecvSignalled \/ RecvTimeout
  BY <1>20 DEF RecvCall, CallGoesOn, RecvSignalled, RecvTimeout
<1>21. CASE RecvPeek
  BY <1>21 DEF RecvPeek, EraOf, CallGoesOn
<1>22. CASE RecvPeekTest
  BY <1>22 DEF RecvPeekTest, CallGoesOn
<1>23. CASE RecvCopy
  BY <1>23 DEF RecvCopy
<1>24. CASE RecvKeep \/ RecvDiscardModulo
  BY <1>24 DEF RecvKeep, CallEnds, RecvDiscardModulo, CallGoesOn
<1>25. CASE RecvDiscard \/ RecvDiscardTest
  BY <1>25 DEF RecvDiscard, CallGoesOn, RecvDiscardTest, CallEnds
<1>26. CASE RecvDiscardStore
  BY <1>26 DEF RecvDiscardStore, CallEnds
<1>27. CASE SendCall
  BY <1>27 DEF SendCall
<1>28. CASE SendAllocModulo \/ SendCommitModulo
  BY <1>28 DEF SendAllocModulo, CallGoesOn, SendCommitModulo
<1>29. CASE SendAlloc
  BY <1>29 DEF SendAlloc, EraOf, CallGoesOn
<1>30. CASE SendAllocTest
  BY <1>30 DEF SendAllocTest, CallGoesOn
<1>31. CASE SendFill
  BY <1>31 DEF SendFill
<1>32. CASE SendCommit
  BY <1>32 DEF SendCommit, CallGoesOn
<1>33. CASE SendCommitStore
  BY <1>33 DEF SendCommitStore
<1>34. CASE SendNotify
  BY <1>34 DEF SendNotify, DaemonDies, Usr2TerminatesDaemon, DaemonUp, CallEnds
<1>35. CASE DivideByZero \/ ClientExit
  BY <1>35 DEF DivideByZero, ClientDies, ClientExit
<1> QED
  BY <1>1, <1>2, <1>3, <1>4, <1>5, <1>6, <1>7, <1>8, <1>9, <1>10, <1>11, <1>12, <1>13, <1>14,
     <1>15, <1>16, <1>17, <1>18, <1>19, <1>20, <1>21, <1>22, <1>23, <1>24, <1>25, <1>26, <1>27,
     <1>28, <1>29, <1>30, <1>31, <1>32, <1>33, <1>34, <1>35
  DEF Next, MainStep, IngressStep, EgressStep, ClientStep, RecvStep, SendStep

\* Eras only grow, and only xstack_init and xstack_listen write the pids.
LEMMA AttachmentKept ==
    ASSUME SockInv, Next
    PROVE  Attachment'
<1>0. /\ Era \in Nat \ {0} /\ Era' \in Nat \ {0} /\ (boots # 0 => Era <= boots)
      /\ ~InitClear => Era' = Era
      /\ InitClear => Era' = IF boots = 1 THEN Era ELSE Era + 1
  BY EraFacts
<1> USE SockAssumption DEF SockInv, TypeOK, Threads, Created, Untouched, Attachment, Starting,
           IngressLoop, EgressLoop,
           mainVars, threadVars, daemonVars, pidVars, inVars, egVars, shmVars, appVars, callVars,
           clientVars, histVars
<1>1. CASE DaemonBoot
  BY <1>0, <1>1 DEF DaemonBoot, DaemonUp
<1>2. CASE Stop \/ SetRunning
  BY <1>0, <1>2 DEF Stop, SetRunning
<1>3. CASE InitClear
  BY <1>0, <1>3 DEF InitClear
<1>4. CASE InitCtrl
  BY <1>0, <1>4 DEF InitCtrl
<1>5. CASE InitIngressQ
  BY <1>0, <1>5 DEF InitIngressQ
<1>6. CASE InitEgressQ
  BY <1>0, <1>6 DEF InitEgressQ
<1>7. CASE CreateIngress \/ CreateEgress
  BY <1>0, <1>7 DEF CreateIngress, CreateEgress
<1>8. CASE JoinIngress \/ JoinEgress
  BY <1>0, <1>8 DEF JoinIngress, DaemonDies, JoinEgress
<1>9. CASE IngressRx
  BY <1>0, <1>9 DEF IngressRx
<1>10. CASE IngressOther \/ IngressCancel \/ IngressCheck
  BY <1>0, <1>10 DEF IngressOther, IngressCancel, IngressCheck
<1>11. CASE DgramAlloc
  BY <1>0, <1>11 DEF DgramAlloc
<1>12. CASE DgramFill
  BY <1>0, <1>12 DEF DgramFill
<1>13. CASE DgramCommit
  BY <1>0, <1>13 DEF DgramCommit
<1>14. CASE DgramNotify
  BY <1>0, <1>14 DEF DgramNotify, ClientSignalled, ClientDies, DaemonDies, Usr2TerminatesDaemon
<1>15. CASE EgressTimeout \/ EgressLook \/ EgressPeek \/ EgressTest \/ EgressCheck
  BY <1>0, <1>15 DEF EgressTimeout, EgressLook, EgressPeek, EgressTest, EgressCheck
<1>16. CASE EgressSend
  BY <1>0, <1>16 DEF EgressSend
<1>17. CASE EgressDiscard
  BY <1>0, <1>17 DEF EgressDiscard
<1>18. CASE ClientStart \/ ListenBlock
  BY <1>0, <1>18 DEF ClientStart, CallGoesOn, ListenBlock
<1>19. CASE ListenPublish
  BY <1>0, <1>19 DEF ListenPublish
<1>20. CASE RecvCall \/ RecvSignalled \/ RecvTimeout
  BY <1>0, <1>20 DEF RecvCall, CallGoesOn, RecvSignalled, RecvTimeout
<1>21. CASE RecvPeek
  BY <1>0, <1>21 DEF RecvPeek, EraOf, CallGoesOn
<1>22. CASE RecvPeekTest
  BY <1>0, <1>22 DEF RecvPeekTest, CallGoesOn
<1>23. CASE RecvCopy
  BY <1>0, <1>23 DEF RecvCopy
<1>24. CASE RecvKeep \/ RecvDiscardModulo
  BY <1>0, <1>24 DEF RecvKeep, CallEnds, RecvDiscardModulo, CallGoesOn
<1>25. CASE RecvDiscard \/ RecvDiscardTest
  BY <1>0, <1>25 DEF RecvDiscard, CallGoesOn, RecvDiscardTest, CallEnds
<1>26. CASE RecvDiscardStore
  BY <1>0, <1>26 DEF RecvDiscardStore, CallEnds
<1>27. CASE SendCall
  BY <1>0, <1>27 DEF SendCall
<1>28. CASE SendAllocModulo \/ SendCommitModulo
  BY <1>0, <1>28 DEF SendAllocModulo, CallGoesOn, SendCommitModulo
<1>29. CASE SendAlloc
  BY <1>0, <1>29 DEF SendAlloc, EraOf, CallGoesOn
<1>30. CASE SendAllocTest
  BY <1>0, <1>30 DEF SendAllocTest, CallGoesOn
<1>31. CASE SendFill
  BY <1>0, <1>31 DEF SendFill
<1>32. CASE SendCommit
  BY <1>0, <1>32 DEF SendCommit, CallGoesOn
<1>33. CASE SendCommitStore
  BY <1>0, <1>33 DEF SendCommitStore
<1>34. CASE SendNotify
  BY <1>0, <1>34 DEF SendNotify, DaemonDies, Usr2TerminatesDaemon, DaemonUp, CallEnds
<1>35. CASE DivideByZero \/ ClientExit
  BY <1>0, <1>35 DEF DivideByZero, ClientDies, ClientExit
<1> QED
  BY <1>1, <1>2, <1>3, <1>4, <1>5, <1>6, <1>7, <1>8, <1>9, <1>10, <1>11, <1>12, <1>13, <1>14,
     <1>15, <1>16, <1>17, <1>18, <1>19, <1>20, <1>21, <1>22, <1>23, <1>24, <1>25, <1>26, <1>27,
     <1>28, <1>29, <1>30, <1>31, <1>32, <1>33, <1>34, <1>35
  DEF Next, MainStep, IngressStep, EgressStep, ClientStep, RecvStep, SendStep

\* The daemon and the scalars of the file keep their types,
LEMMA DaemonTypeKept ==
    ASSUME SockInv, Next
    PROVE  DaemonType'
<1>0. DaemonType /\ client \in 0..MaxClients
  BY DEF SockInv, TypeOK, DaemonType
<1> USE SockAssumption DEF DaemonType,
           mainVars, threadVars, daemonVars, pidVars, inVars, egVars, shmVars, appVars, callVars,
           clientVars, histVars
<1>1. CASE DaemonBoot
  BY <1>0, <1>1 DEF DaemonBoot, DaemonUp
<1>2. CASE Stop \/ SetRunning
  BY <1>0, <1>2 DEF Stop, SetRunning
<1>3. CASE InitClear
  BY <1>0, <1>3 DEF InitClear
<1>4. CASE InitCtrl
  BY <1>0, <1>4 DEF InitCtrl
<1>5. CASE InitIngressQ
  BY <1>0, <1>5 DEF InitIngressQ
<1>6. CASE InitEgressQ
  BY <1>0, <1>6 DEF InitEgressQ
<1>7. CASE CreateIngress \/ CreateEgress
  BY <1>0, <1>7 DEF CreateIngress, CreateEgress
<1>8. CASE JoinIngress \/ JoinEgress
  BY <1>0, <1>8 DEF JoinIngress, DaemonDies, JoinEgress
<1>9. CASE IngressRx
  BY <1>0, <1>9 DEF IngressRx
<1>10. CASE IngressOther \/ IngressCancel \/ IngressCheck
  BY <1>0, <1>10 DEF IngressOther, IngressCancel, IngressCheck
<1>11. CASE DgramAlloc
  BY <1>0, <1>11 DEF DgramAlloc
<1>12. CASE DgramFill
  BY <1>0, <1>12 DEF DgramFill
<1>13. CASE DgramCommit
  BY <1>0, <1>13 DEF DgramCommit
<1>14. CASE DgramNotify
  BY <1>0, <1>14 DEF DgramNotify, ClientSignalled, ClientDies, DaemonDies, Usr2TerminatesDaemon
<1>15. CASE EgressTimeout \/ EgressLook \/ EgressPeek \/ EgressTest \/ EgressCheck
  BY <1>0, <1>15 DEF EgressTimeout, EgressLook, EgressPeek, EgressTest, EgressCheck
<1>16. CASE EgressSend
  BY <1>0, <1>16 DEF EgressSend
<1>17. CASE EgressDiscard
  BY <1>0, <1>17 DEF EgressDiscard
<1>18. CASE ClientStart \/ ListenBlock
  BY <1>0, <1>18 DEF ClientStart, CallGoesOn, ListenBlock
<1>19. CASE ListenPublish
  BY <1>0, <1>19 DEF ListenPublish
<1>20. CASE RecvCall \/ RecvSignalled \/ RecvTimeout
  BY <1>0, <1>20 DEF RecvCall, CallGoesOn, RecvSignalled, RecvTimeout
<1>21. CASE RecvPeek
  BY <1>0, <1>21 DEF RecvPeek, EraOf, CallGoesOn
<1>22. CASE RecvPeekTest
  BY <1>0, <1>22 DEF RecvPeekTest, CallGoesOn
<1>23. CASE RecvCopy
  BY <1>0, <1>23 DEF RecvCopy
<1>24. CASE RecvKeep \/ RecvDiscardModulo
  BY <1>0, <1>24 DEF RecvKeep, CallEnds, RecvDiscardModulo, CallGoesOn
<1>25. CASE RecvDiscard \/ RecvDiscardTest
  BY <1>0, <1>25 DEF RecvDiscard, CallGoesOn, RecvDiscardTest, CallEnds
<1>26. CASE RecvDiscardStore
  BY <1>0, <1>26 DEF RecvDiscardStore, CallEnds
<1>27. CASE SendCall
  BY <1>0, <1>27 DEF SendCall
<1>28. CASE SendAllocModulo \/ SendCommitModulo
  BY <1>0, <1>28 DEF SendAllocModulo, CallGoesOn, SendCommitModulo
<1>29. CASE SendAlloc
  BY <1>0, <1>29 DEF SendAlloc, EraOf, CallGoesOn
<1>30. CASE SendAllocTest
  BY <1>0, <1>30 DEF SendAllocTest, CallGoesOn
<1>31. CASE SendFill
  BY <1>0, <1>31 DEF SendFill
<1>32. CASE SendCommit
  BY <1>0, <1>32 DEF SendCommit, CallGoesOn
<1>33. CASE SendCommitStore
  BY <1>0, <1>33 DEF SendCommitStore
<1>34. CASE SendNotify
  BY <1>0, <1>34 DEF SendNotify, DaemonDies, Usr2TerminatesDaemon, DaemonUp, CallEnds
<1>35. CASE DivideByZero \/ ClientExit
  BY <1>0, <1>35 DEF DivideByZero, ClientDies, ClientExit
<1> QED
  BY <1>1, <1>2, <1>3, <1>4, <1>5, <1>6, <1>7, <1>8, <1>9, <1>10, <1>11, <1>12, <1>13, <1>14,
     <1>15, <1>16, <1>17, <1>18, <1>19, <1>20, <1>21, <1>22, <1>23, <1>24, <1>25, <1>26, <1>27,
     <1>28, <1>29, <1>30, <1>31, <1>32, <1>33, <1>34, <1>35
  DEF Next, MainStep, IngressStep, EgressStep, ClientStep, RecvStep, SendStep

\* so do the flags,
LEMMA FlagTypeKept ==
    ASSUME SockInv, Next
    PROVE  FlagType'
<1>0. FlagType
  BY DEF SockInv, TypeOK, FlagType
<1> USE DEF FlagType,
           mainVars, threadVars, daemonVars, pidVars, inVars, egVars, shmVars, appVars, callVars,
           clientVars, histVars
<1>1. CASE DaemonBoot
  BY <1>0, <1>1 DEF DaemonBoot, DaemonUp
<1>2. CASE Stop \/ SetRunning
  BY <1>0, <1>2 DEF Stop, SetRunning
<1>3. CASE InitClear
  BY <1>0, <1>3 DEF InitClear
<1>4. CASE InitCtrl
  BY <1>0, <1>4 DEF InitCtrl
<1>5. CASE InitIngressQ
  BY <1>0, <1>5 DEF InitIngressQ
<1>6. CASE InitEgressQ
  BY <1>0, <1>6 DEF InitEgressQ
<1>7. CASE CreateIngress \/ CreateEgress
  BY <1>0, <1>7 DEF CreateIngress, CreateEgress
<1>8. CASE JoinIngress \/ JoinEgress
  BY <1>0, <1>8 DEF JoinIngress, DaemonDies, JoinEgress
<1>9. CASE IngressRx
  BY <1>0, <1>9 DEF IngressRx
<1>10. CASE IngressOther \/ IngressCancel \/ IngressCheck
  BY <1>0, <1>10 DEF IngressOther, IngressCancel, IngressCheck
<1>11. CASE DgramAlloc
  BY <1>0, <1>11 DEF DgramAlloc
<1>12. CASE DgramFill
  BY <1>0, <1>12 DEF DgramFill
<1>13. CASE DgramCommit
  BY <1>0, <1>13 DEF DgramCommit
<1>14. CASE DgramNotify
  BY <1>0, <1>14 DEF DgramNotify, ClientSignalled, ClientDies, DaemonDies, Usr2TerminatesDaemon
<1>15. CASE EgressTimeout \/ EgressLook \/ EgressPeek \/ EgressTest \/ EgressCheck
  BY <1>0, <1>15 DEF EgressTimeout, EgressLook, EgressPeek, EgressTest, EgressCheck
<1>16. CASE EgressSend
  BY <1>0, <1>16 DEF EgressSend
<1>17. CASE EgressDiscard
  BY <1>0, <1>17 DEF EgressDiscard
<1>18. CASE ClientStart \/ ListenBlock
  BY <1>0, <1>18 DEF ClientStart, CallGoesOn, ListenBlock
<1>19. CASE ListenPublish
  BY <1>0, <1>19 DEF ListenPublish
<1>20. CASE RecvCall \/ RecvSignalled \/ RecvTimeout
  BY <1>0, <1>20 DEF RecvCall, CallGoesOn, RecvSignalled, RecvTimeout
<1>21. CASE RecvPeek
  BY <1>0, <1>21 DEF RecvPeek, EraOf, CallGoesOn
<1>22. CASE RecvPeekTest
  BY <1>0, <1>22 DEF RecvPeekTest, CallGoesOn
<1>23. CASE RecvCopy
  BY <1>0, <1>23 DEF RecvCopy
<1>24. CASE RecvKeep \/ RecvDiscardModulo
  BY <1>0, <1>24 DEF RecvKeep, CallEnds, RecvDiscardModulo, CallGoesOn
<1>25. CASE RecvDiscard \/ RecvDiscardTest
  BY <1>0, <1>25 DEF RecvDiscard, CallGoesOn, RecvDiscardTest, CallEnds
<1>26. CASE RecvDiscardStore
  BY <1>0, <1>26 DEF RecvDiscardStore, CallEnds
<1>27. CASE SendCall
  BY <1>0, <1>27 DEF SendCall
<1>28. CASE SendAllocModulo \/ SendCommitModulo
  BY <1>0, <1>28 DEF SendAllocModulo, CallGoesOn, SendCommitModulo
<1>29. CASE SendAlloc
  BY <1>0, <1>29 DEF SendAlloc, EraOf, CallGoesOn
<1>30. CASE SendAllocTest
  BY <1>0, <1>30 DEF SendAllocTest, CallGoesOn
<1>31. CASE SendFill
  BY <1>0, <1>31 DEF SendFill
<1>32. CASE SendCommit
  BY <1>0, <1>32 DEF SendCommit, CallGoesOn
<1>33. CASE SendCommitStore
  BY <1>0, <1>33 DEF SendCommitStore
<1>34. CASE SendNotify
  BY <1>0, <1>34 DEF SendNotify, DaemonDies, Usr2TerminatesDaemon, DaemonUp, CallEnds
<1>35. CASE DivideByZero \/ ClientExit
  BY <1>0, <1>35 DEF DivideByZero, ClientDies, ClientExit
<1> QED
  BY <1>1, <1>2, <1>3, <1>4, <1>5, <1>6, <1>7, <1>8, <1>9, <1>10, <1>11, <1>12, <1>13, <1>14,
     <1>15, <1>16, <1>17, <1>18, <1>19, <1>20, <1>21, <1>22, <1>23, <1>24, <1>25, <1>26, <1>27,
     <1>28, <1>29, <1>30, <1>31, <1>32, <1>33, <1>34, <1>35
  DEF Next, MainStep, IngressStep, EgressStep, ClientStep, RecvStep, SendStep

\* the application,
LEMMA AppTypeKept ==
    ASSUME SockInv, Next
    PROVE  AppType'
<1>0. /\ AppType /\ Era \in 0..(MaxBoots + 1) /\ (eg_len # 0 => Era \in 0..MaxBoots)
      /\ 0 \in Slots /\ in_rd \in Slots /\ eg_wr \in Slots
  <2>1. AppType /\ in_rd \in Slots /\ eg_wr \in Slots
    BY DEF SockInv, TypeOK, AppType
  <2>2. Era \in 0..(MaxBoots + 1) /\ (eg_len # 0 => Era \in 0..MaxBoots)
    BY EraFacts, SockAssumption DEF SockInv, TypeOK, Created, Untouched
  <2> QED
    BY <2>1, <2>2, NextFacts
<1> USE SockAssumption DEF AppType, RecvCalls, SendCalls,
           mainVars, threadVars, daemonVars, pidVars, inVars, egVars, shmVars, appVars, callVars,
           clientVars, histVars
<1>1. CASE DaemonBoot
  BY <1>0, <1>1 DEF DaemonBoot, DaemonUp
<1>2. CASE Stop \/ SetRunning
  BY <1>0, <1>2 DEF Stop, SetRunning
<1>3. CASE InitClear
  BY <1>0, <1>3 DEF InitClear
<1>4. CASE InitCtrl
  BY <1>0, <1>4 DEF InitCtrl
<1>5. CASE InitIngressQ
  BY <1>0, <1>5 DEF InitIngressQ
<1>6. CASE InitEgressQ
  BY <1>0, <1>6 DEF InitEgressQ
<1>7. CASE CreateIngress \/ CreateEgress
  BY <1>0, <1>7 DEF CreateIngress, CreateEgress
<1>8. CASE JoinIngress \/ JoinEgress
  BY <1>0, <1>8 DEF JoinIngress, DaemonDies, JoinEgress
<1>9. CASE IngressRx
  BY <1>0, <1>9 DEF IngressRx
<1>10. CASE IngressOther \/ IngressCancel \/ IngressCheck
  BY <1>0, <1>10 DEF IngressOther, IngressCancel, IngressCheck
<1>11. CASE DgramAlloc
  BY <1>0, <1>11 DEF DgramAlloc
<1>12. CASE DgramFill
  BY <1>0, <1>12 DEF DgramFill
<1>13. CASE DgramCommit
  BY <1>0, <1>13 DEF DgramCommit
<1>14. CASE DgramNotify
  BY <1>0, <1>14 DEF DgramNotify, ClientSignalled, ClientDies, DaemonDies, Usr2TerminatesDaemon
<1>15. CASE EgressTimeout \/ EgressLook \/ EgressPeek \/ EgressTest \/ EgressCheck
  BY <1>0, <1>15 DEF EgressTimeout, EgressLook, EgressPeek, EgressTest, EgressCheck
<1>16. CASE EgressSend
  BY <1>0, <1>16 DEF EgressSend
<1>17. CASE EgressDiscard
  BY <1>0, <1>17 DEF EgressDiscard
<1>18. CASE ClientStart \/ ListenBlock
  BY <1>0, <1>18 DEF ClientStart, CallGoesOn, ListenBlock
<1>19. CASE ListenPublish
  BY <1>0, <1>19 DEF ListenPublish
<1>20. CASE RecvCall \/ RecvSignalled \/ RecvTimeout
  BY <1>0, <1>20 DEF RecvCall, CallGoesOn, RecvSignalled, RecvTimeout
<1>21. CASE RecvPeek
  BY <1>0, <1>21 DEF RecvPeek, EraOf, CallGoesOn
<1>22. CASE RecvPeekTest
  BY <1>0, <1>22 DEF RecvPeekTest, CallGoesOn
<1>23. CASE RecvCopy
  BY <1>0, <1>23 DEF RecvCopy
<1>24. CASE RecvKeep \/ RecvDiscardModulo
  BY <1>0, <1>24 DEF RecvKeep, CallEnds, RecvDiscardModulo, CallGoesOn
<1>25. CASE RecvDiscard \/ RecvDiscardTest
  BY <1>0, <1>25 DEF RecvDiscard, CallGoesOn, RecvDiscardTest, CallEnds
<1>26. CASE RecvDiscardStore
  BY <1>0, <1>26 DEF RecvDiscardStore, CallEnds
<1>27. CASE SendCall
  BY <1>0, <1>27 DEF SendCall
<1>28. CASE SendAllocModulo \/ SendCommitModulo
  BY <1>0, <1>28 DEF SendAllocModulo, CallGoesOn, SendCommitModulo
<1>29. CASE SendAlloc
  BY <1>0, <1>29 DEF SendAlloc, EraOf, CallGoesOn
<1>30. CASE SendAllocTest
  BY <1>0, <1>30 DEF SendAllocTest, CallGoesOn
<1>31. CASE SendFill
  BY <1>0, <1>31 DEF SendFill
<1>32. CASE SendCommit
  BY <1>0, <1>32 DEF SendCommit, CallGoesOn
<1>33. CASE SendCommitStore
  BY <1>0, <1>33 DEF SendCommitStore
<1>34. CASE SendNotify
  BY <1>0, <1>34 DEF SendNotify, DaemonDies, Usr2TerminatesDaemon, DaemonUp, CallEnds
<1>35. CASE DivideByZero \/ ClientExit
  BY <1>0, <1>35 DEF DivideByZero, ClientDies, ClientExit
<1> QED
  BY <1>1, <1>2, <1>3, <1>4, <1>5, <1>6, <1>7, <1>8, <1>9, <1>10, <1>11, <1>12, <1>13, <1>14,
     <1>15, <1>16, <1>17, <1>18, <1>19, <1>20, <1>21, <1>22, <1>23, <1>24, <1>25, <1>26, <1>27,
     <1>28, <1>29, <1>30, <1>31, <1>32, <1>33, <1>34, <1>35
  DEF Next, MainStep, IngressStep, EgressStep, ClientStep, RecvStep, SendStep

\* and the rings and histories.
LEMMA DataTypeKept ==
    ASSUME SockInv, Next
    PROVE  DataType'
<1>0. /\ DataType /\ idx \in Slots /\ 0 \in Slots
      /\ \A i \in Slots : NextElement(i) \in Slots
  BY NextFacts DEF SockInv, TypeOK, DataType
<1> USE SockAssumption DEF DataType,
           mainVars, threadVars, daemonVars, pidVars, inVars, egVars, shmVars, appVars, callVars,
           clientVars, histVars
<1>1. CASE DaemonBoot
  BY <1>0, <1>1 DEF DaemonBoot, DaemonUp
<1>2. CASE Stop \/ SetRunning
  BY <1>0, <1>2 DEF Stop, SetRunning
<1>3. CASE InitClear
  BY <1>0, <1>3 DEF InitClear
<1>4. CASE InitCtrl
  BY <1>0, <1>4 DEF InitCtrl
<1>5. CASE InitIngressQ
  BY <1>0, <1>5 DEF InitIngressQ
<1>6. CASE InitEgressQ
  BY <1>0, <1>6 DEF InitEgressQ
<1>7. CASE CreateIngress \/ CreateEgress
  BY <1>0, <1>7 DEF CreateIngress, CreateEgress
<1>8. CASE JoinIngress \/ JoinEgress
  BY <1>0, <1>8 DEF JoinIngress, DaemonDies, JoinEgress
<1>9. CASE IngressRx
  BY <1>0, <1>9 DEF IngressRx
<1>10. CASE IngressOther \/ IngressCancel \/ IngressCheck
  BY <1>0, <1>10 DEF IngressOther, IngressCancel, IngressCheck
<1>11. CASE DgramAlloc
  BY <1>0, <1>11 DEF DgramAlloc
<1>12. CASE DgramFill
  BY <1>0, <1>12 DEF DgramFill
<1>13. CASE DgramCommit
  BY <1>0, <1>13 DEF DgramCommit
<1>14. CASE DgramNotify
  BY <1>0, <1>14 DEF DgramNotify, ClientSignalled, ClientDies, DaemonDies, Usr2TerminatesDaemon
<1>15. CASE EgressTimeout \/ EgressLook \/ EgressPeek \/ EgressTest \/ EgressCheck
  BY <1>0, <1>15 DEF EgressTimeout, EgressLook, EgressPeek, EgressTest, EgressCheck
<1>16. CASE EgressSend
  BY <1>0, <1>16 DEF EgressSend
<1>17. CASE EgressDiscard
  BY <1>0, <1>17 DEF EgressDiscard
<1>18. CASE ClientStart \/ ListenBlock
  BY <1>0, <1>18 DEF ClientStart, CallGoesOn, ListenBlock
<1>19. CASE ListenPublish
  BY <1>0, <1>19 DEF ListenPublish
<1>20. CASE RecvCall \/ RecvSignalled \/ RecvTimeout
  BY <1>0, <1>20 DEF RecvCall, CallGoesOn, RecvSignalled, RecvTimeout
<1>21. CASE RecvPeek
  BY <1>0, <1>21 DEF RecvPeek, EraOf, CallGoesOn
<1>22. CASE RecvPeekTest
  BY <1>0, <1>22 DEF RecvPeekTest, CallGoesOn
<1>23. CASE RecvCopy
  BY <1>0, <1>23 DEF RecvCopy
<1>24. CASE RecvKeep \/ RecvDiscardModulo
  BY <1>0, <1>24 DEF RecvKeep, CallEnds, RecvDiscardModulo, CallGoesOn
<1>25. CASE RecvDiscard \/ RecvDiscardTest
  BY <1>0, <1>25 DEF RecvDiscard, CallGoesOn, RecvDiscardTest, CallEnds
<1>26. CASE RecvDiscardStore
  BY <1>0, <1>26 DEF RecvDiscardStore, CallEnds
<1>27. CASE SendCall
  BY <1>0, <1>27 DEF SendCall
<1>28. CASE SendAllocModulo \/ SendCommitModulo
  BY <1>0, <1>28 DEF SendAllocModulo, CallGoesOn, SendCommitModulo
<1>29. CASE SendAlloc
  BY <1>0, <1>29 DEF SendAlloc, EraOf, CallGoesOn
<1>30. CASE SendAllocTest
  BY <1>0, <1>30 DEF SendAllocTest, CallGoesOn
<1>31. CASE SendFill
  BY <1>0, <1>31 DEF SendFill
<1>32. CASE SendCommit
  BY <1>0, <1>32 DEF SendCommit, CallGoesOn
<1>33. CASE SendCommitStore
  BY <1>0, <1>33 DEF SendCommitStore
<1>34. CASE SendNotify
  BY <1>0, <1>34 DEF SendNotify, DaemonDies, Usr2TerminatesDaemon, DaemonUp, CallEnds
<1>35. CASE DivideByZero \/ ClientExit
  BY <1>0, <1>35 DEF DivideByZero, ClientDies, ClientExit
<1> QED
  BY <1>1, <1>2, <1>3, <1>4, <1>5, <1>6, <1>7, <1>8, <1>9, <1>10, <1>11, <1>12, <1>13, <1>14,
     <1>15, <1>16, <1>17, <1>18, <1>19, <1>20, <1>21, <1>22, <1>23, <1>24, <1>25, <1>26, <1>27,
     <1>28, <1>29, <1>30, <1>31, <1>32, <1>33, <1>34, <1>35
  DEF Next, MainStep, IngressStep, EgressStep, ClientStep, RecvStep, SendStep

\* No number is from the future.
LEMMA ArrivedKept ==
    ASSUME SockInv, Next
    PROVE  Arrived'
<1>0. DataType /\ idx \in Slots /\ Arrived /\ (dpc \in {"boot", "ctrl"} => ipc = "none")
  BY DEF SockInv, TypeOK, DataType, Ingress, Threads, Starting
<1> USE DEF DataType, Arrived,
           mainVars, threadVars, daemonVars, pidVars, inVars, egVars, shmVars, appVars, callVars,
           clientVars, histVars
<1>1. CASE InitClear
  <2>1. rxn' = rxn /\ delivered' = delivered /\ ipc' = "none"
    BY <1>0, <1>1 DEF InitClear
  <2>2. \A s \in Slots : in_data'[s] = 0
    BY <1>1 DEF InitClear
  <2>3. 0 <= rxn /\ \A m \in delivered : m <= rxn
    BY <1>0
  <2>4. (\A s \in Slots : in_data[s] <= rxn)'
    BY <2>1, <2>2, <2>3
  <2> QED
    BY <2>1, <2>3, <2>4
<1>2. CASE InitIngressQ
  BY <1>0, <1>2 DEF InitIngressQ
<1>3. CASE DgramFill
  BY <1>0, <1>3 DEF DgramFill
<1>4. CASE DgramCommit
  BY <1>0, <1>4 DEF DgramCommit
<1>5. CASE RecvCopy
  BY <1>0, <1>5 DEF RecvCopy
<1>6. CASE RecvDiscardStore
  BY <1>0, <1>6 DEF RecvDiscardStore, CallEnds
<1>7. CASE IngressRx
  BY <1>0, <1>7 DEF IngressRx
<1>8. CASE DgramNotify
  BY <1>0, <1>8 DEF DgramNotify, ClientSignalled, ClientDies, DaemonDies, Usr2TerminatesDaemon
<1>9. CASE DaemonBoot \/ Stop \/ SetRunning \/ InitCtrl \/ CreateIngress \/ CreateEgress \/
           JoinIngress \/ JoinEgress \/ IngressOther \/ IngressCancel \/ IngressCheck \/
           DgramAlloc
  BY <1>0, <1>9 DEF DaemonBoot, DaemonUp, Stop, SetRunning, InitCtrl, CreateIngress,
                    CreateEgress, JoinIngress, DaemonDies, JoinEgress, IngressOther,
                    IngressCancel, IngressCheck, DgramAlloc
<1>10. CASE EgressTimeout \/ EgressLook \/ EgressPeek \/ EgressTest \/ EgressCheck \/
            EgressSend \/ EgressDiscard \/ InitEgressQ
  BY <1>0, <1>10 DEF EgressTimeout, EgressLook, EgressPeek, EgressTest, EgressCheck,
                     EgressSend, EgressDiscard, InitEgressQ
<1>11. CASE ClientStart \/ ListenBlock \/ ListenPublish \/ RecvCall \/ RecvSignalled \/
            RecvTimeout \/ RecvPeek \/ RecvPeekTest \/ RecvKeep \/ RecvDiscardModulo \/
            RecvDiscard \/ RecvDiscardTest
  BY <1>0, <1>11 DEF ClientStart, CallGoesOn, ListenBlock, ListenPublish, RecvCall,
                     RecvSignalled, RecvTimeout, RecvPeek, EraOf, RecvPeekTest, RecvKeep,
                     CallEnds, RecvDiscardModulo, RecvDiscard, RecvDiscardTest
<1>12. CASE SendCall \/ SendAllocModulo \/ SendCommitModulo \/ SendAlloc \/ SendAllocTest \/
            SendFill \/ SendCommit \/ SendCommitStore \/ SendNotify \/ DivideByZero \/
            ClientExit
  BY <1>0, <1>12 DEF SendCall, SendAllocModulo, CallGoesOn, SendCommitModulo, SendAlloc, EraOf,
                     SendAllocTest, SendFill, SendCommit, SendCommitStore, SendNotify,
                     DaemonDies, Usr2TerminatesDaemon, DaemonUp, CallEnds, DivideByZero,
                     ClientDies, ClientExit
<1> QED
  BY <1>1, <1>2, <1>3, <1>4, <1>5, <1>6, <1>7, <1>8, <1>9, <1>10, <1>11, <1>12
  DEF Next, MainStep, IngressStep, EgressStep, ClientStep, RecvStep, SendStep

\* The order is a matter of the ring and of what has been delivered.
LEMMA OrderSame ==
    ASSUME UNCHANGED <<in_rd, in_wr, in_data, delivered>>
    PROVE  InOrderRing' <=> InOrderRing
  BY DEF InOrderRing

\* The ring stays in the order of arrival,
LEMMA InSortedKept ==
    ASSUME SockInv, Next
    PROVE  InSorted'
<1>0. DataType /\ idx \in Slots /\ Ingress
  BY DEF SockInv, TypeOK, DataType
<1>a. 0 \in Slots /\ \A i \in Slots : NextElement(i) \in Slots
  BY NextFacts
<1>b. InSorted
  BY <1>0 DEF Ingress
<1> USE DEF InSorted,
           mainVars, threadVars, daemonVars, pidVars, inVars, egVars, shmVars, appVars, callVars,
           clientVars, histVars
<1>1. CASE InitClear
  <2>1. Window(0, 0) = {}
    BY <1>a, WindowFacts
  <2> QED
    BY <1>1, <2>1 DEF InitClear, InSorted, InOrderRing
<1>2. CASE InitIngressQ
  <2>1. Window(0, 0) = {}
    BY <1>a, WindowFacts
  <2> QED
    BY <1>2, <2>1 DEF InitIngressQ, InSorted, InOrderRing
<1>3. CASE DgramFill
  <2>1. in_wr \notin Window(in_rd, in_wr) /\ Window(in_rd, in_wr) \subseteq Slots
    BY <1>0, WindowFacts DEF DataType
  <2>2. UNCHANGED <<in_rd, in_wr, delivered, in_stale>>
    BY <1>3 DEF DgramFill, inVars, histVars
  <2>3. \A s \in Window(in_rd, in_wr) : in_data'[s] = in_data[s]
    BY <1>0, <1>3, <2>1 DEF DgramFill, DataType
  <2> QED
    BY <1>b, <2>1, <2>2, <2>3 DEF InSorted, InOrderRing
<1>4. CASE DgramCommit
  <2> SUFFICES ASSUME ~in_stale' PROVE InOrderRing'
    BY DEF InSorted
  <2>1. /\ in_wr' = NextElement(in_wr) /\ UNCHANGED <<in_rd, in_data, delivered, in_stale>>
        /\ in_data[in_wr] = rxn /\ NextElement(in_wr) # in_rd
    BY <1>0, <1>4 DEF DgramCommit, inVars, histVars, Ingress, Arrived, InRoom
  <2>2. /\ Window(in_rd, in_wr') = Window(in_rd, in_wr) \cup {in_wr}
        /\ \A s \in Window(in_rd, in_wr) : Dist(in_rd, s) < Dist(in_rd, in_wr)
        /\ Window(in_rd, in_wr) \subseteq Slots
    BY <1>0, <2>1, WindowGrows, WindowFacts DEF DataType
  <2>3. \A s \in Slots : Dist(in_rd, s) \in Int /\ in_data[s] \in Int /\ in_data[s] <= rxn
    BY <1>0, SockAssumption DEF DataType, Dist, Slots, Ingress, Arrived
  <2>4. \A m \in delivered : m <= rxn
    BY <1>0 DEF Ingress, Arrived
  <2>5. InOrderRing
    BY <1>0, <2>1 DEF Ingress, InSorted
  <2>6. ASSUME NEW s \in Window(in_rd, in_wr'), NEW t \in Window(in_rd, in_wr'),
               Dist(in_rd, s) <= Dist(in_rd, t)
        PROVE  in_data[s] <= in_data[t]
    <3>1. in_wr \in Slots
      BY <1>0 DEF DataType
    <3>2. CASE t = in_wr
      BY <2>1, <2>2, <2>3, <3>1, <3>2
    <3>3. CASE t \in Window(in_rd, in_wr) /\ s \in Window(in_rd, in_wr)
      BY <2>5, <2>6, <3>3 DEF InOrderRing
    <3>4. CASE t \in Window(in_rd, in_wr) /\ s = in_wr
      BY <2>2, <2>3, <2>6, <3>1, <3>4
    <3> QED
      BY <2>2, <3>2, <3>3, <3>4
  <2>7. \A m \in delivered, s \in Window(in_rd, in_wr') : m <= in_data[s]
    BY <2>1, <2>2, <2>4, <2>5 DEF InOrderRing
  <2> QED
    BY <2>1, <2>6, <2>7 DEF InOrderRing
<1>5. CASE RecvCopy
  <2> SUFFICES ASSUME ~in_stale' PROVE InOrderRing'
    BY DEF InSorted
  <2>1. UNCHANGED <<in_rd, in_wr, in_data, in_stale>>
    BY <1>5 DEF RecvCopy, shmVars, inVars
  <2>2. InOrderRing
    BY <1>0, <2>1 DEF Ingress, InSorted
  <2>3. CASE Overtaken
    BY <1>5, <2>1, <2>2, <2>3, OrderSame DEF RecvCopy
  <2>4. CASE ~Overtaken
    <3>1. idx = in_rd /\ in_rd # in_wr
      BY <1>0, <1>5, <2>1, <2>4 DEF RecvCopy, Ingress, InCall, Reading
    <3>2. delivered' = delivered \cup {in_data[in_rd]}
      BY <1>5, <2>4, <3>1 DEF RecvCopy
    <3>3. in_rd \in Window(in_rd, in_wr) /\ \A s \in Window(in_rd, in_wr) : Dist(in_rd, in_rd) <= Dist(in_rd, s)
      BY <1>0, <3>1, WindowFacts DEF DataType
    <3>4. \A s \in Window(in_rd, in_wr) : in_data[in_rd] <= in_data[s]
      BY <2>2, <3>3 DEF InOrderRing
    <3> QED
      BY <2>1, <2>2, <3>2, <3>4 DEF InOrderRing
  <2> QED
    BY <2>3, <2>4
<1>6. CASE RecvDiscardStore
  <2> SUFFICES ASSUME ~in_stale' PROVE InOrderRing'
    BY DEF InSorted
  <2>1. ~in_stale /\ ~Overtaken /\ UNCHANGED <<in_wr, in_data, delivered>>
    BY <1>6 DEF RecvDiscardStore, histVars
  <2>2. idx = in_rd /\ in_rd # in_wr /\ InOrderRing
    BY <1>0, <1>6, <2>1 DEF RecvDiscardStore, Ingress, InCall, InSorted, Reading
  <2>3. in_rd' = NextElement(in_rd)
    BY <1>6, <2>2 DEF RecvDiscardStore
  <2>4. /\ Window(in_rd, in_wr) = Window(in_rd', in_wr) \cup {in_rd}
        /\ \A s \in Window(in_rd', in_wr) : Dist(in_rd', s) = Dist(in_rd, s) - 1
    BY <1>0, <2>2, <2>3, WindowShrinks DEF DataType
  <2>5. \A s \in Window(in_rd', in_wr) : Dist(in_rd, s) \in Int
    <3>1. Window(in_rd', in_wr) \subseteq Slots /\ in_rd \in Slots
      BY <1>0, <1>a, <2>3, WindowFacts DEF DataType
    <3> QED
      BY <3>1, SockAssumption DEF Slots, Dist
  <2> QED
    BY <2>1, <2>2, <2>4, <2>5 DEF InOrderRing
<1>7. CASE DaemonBoot \/ Stop \/ SetRunning \/ InitCtrl \/ CreateIngress \/ CreateEgress \/
           JoinIngress \/ JoinEgress \/ IngressRx \/ IngressOther \/ IngressCancel \/
           IngressCheck \/ DgramAlloc
  BY <1>b, OrderSame, <1>7 DEF DaemonBoot, DaemonUp, Stop, SetRunning, InitCtrl, CreateIngress,
                               CreateEgress, JoinIngress, DaemonDies, JoinEgress, IngressRx,
                               IngressOther, IngressCancel, IngressCheck, DgramAlloc
<1>8. CASE DgramNotify \/ EgressTimeout \/ EgressLook \/ EgressPeek \/ EgressTest \/
           EgressCheck \/ EgressSend \/ EgressDiscard \/ InitEgressQ
  BY <1>b, OrderSame, <1>8 DEF DgramNotify, ClientSignalled, ClientDies, DaemonDies,
                               Usr2TerminatesDaemon, EgressTimeout, EgressLook, EgressPeek,
                               EgressTest, EgressCheck, EgressSend, EgressDiscard, InitEgressQ
<1>9. CASE ClientStart \/ ListenBlock \/ ListenPublish \/ RecvCall \/ RecvSignalled \/
           RecvTimeout \/ RecvPeek \/ RecvPeekTest \/ RecvKeep \/ RecvDiscardModulo \/
           RecvDiscard \/ RecvDiscardTest
  BY <1>b, OrderSame, <1>9 DEF ClientStart, CallGoesOn, ListenBlock, ListenPublish, RecvCall,
                               RecvSignalled, RecvTimeout, RecvPeek, EraOf, RecvPeekTest,
                               RecvKeep, CallEnds, RecvDiscardModulo, RecvDiscard,
                               RecvDiscardTest
<1>10. CASE SendCall \/ SendAllocModulo \/ SendCommitModulo \/ SendAlloc \/ SendAllocTest \/
            SendFill \/ SendCommit \/ SendCommitStore \/ SendNotify \/ DivideByZero \/
            ClientExit
  BY <1>b, OrderSame, <1>10 DEF SendCall, SendAllocModulo, CallGoesOn, SendCommitModulo,
                                SendAlloc, EraOf, SendAllocTest, SendFill, SendCommit,
                                SendCommitStore, SendNotify, DaemonDies, Usr2TerminatesDaemon,
                                DaemonUp, CallEnds, DivideByZero, ClientDies, ClientExit
<1> QED
  BY <1>1, <1>2, <1>3, <1>4, <1>5, <1>6, <1>7, <1>8, <1>9, <1>10
  DEF Next, MainStep, IngressStep, EgressStep, ClientStep, RecvStep, SendStep

\* A restart that clears a file that has been used overtakes every call.
LEMMA EraOvertakes ==
    ASSUME SockInv, Next
    PROVE  /\ Era # 0 /\ (~InitClear => Era' = Era)
           /\ InitClear => Overtaken' \/ (boots = 1 /\ Era' = Era)
<1>1. /\ Era \in Nat \ {0} /\ Era' \in Nat \ {0} /\ seen <= Era /\ seen \in Nat
      /\ ~InitClear => Era' = Era
      /\ InitClear => Era' = IF boots = 1 THEN Era ELSE Era + 1
  <2>1. seen <= Era /\ seen \in Nat
    BY SockAssumption DEF SockInv, TypeOK, Attachment
  <2> QED
    BY <2>1, EraFacts
<1>2. InitClear => seen' = seen
  BY DEF InitClear, clientVars, callVars
<1>3. Overtaken' <=> (seen' = 0 \/ seen' # Era')
  BY DEF Overtaken
<1> QED
  BY <1>1, <1>2, <1>3

\* the slot that is being filled stays free,
LEMMA InRoomKept ==
    ASSUME SockInv, Next
    PROVE  InRoom'
<1>0. /\ DataType /\ idx \in Slots /\ Ingress /\ Created
      /\ boots \in Nat /\ (boots = 0 => dpc = "off")
      /\ dpc \in Starting => ipc = "none"
  BY SockAssumption DEF SockInv, TypeOK, DataType, Threads
<1>a. /\ 0 \in Slots
      /\ \A i \in Slots : NextElement(i) \in Slots /\ NextElement(i) # i
      /\ \A i, j \in Slots : NextElement(i) = NextElement(j) => i = j
  BY NextFacts
<1>b. /\ Era # 0 /\ (~InitClear => Era' = Era)
      /\ InitClear => Overtaken' \/ (boots = 1 /\ Era' = Era)
  BY EraOvertakes
<1>c. dpc # "boot" \/ dpc' # "cleared" => Era' = Era
  BY <1>b DEF InitClear
<1>d. Arrived /\ InRoom /\ InCall
  BY <1>0 DEF Ingress
<1> USE DEF DataType, InRoom, Starting,
           mainVars, threadVars, daemonVars, pidVars, inVars, egVars, shmVars, appVars, callVars,
           clientVars, histVars
<1>1. CASE InitClear
  BY <1>0, <1>d, <1>1 DEF InitClear
<1>2. CASE InitIngressQ
  BY <1>0, <1>d, <1>2 DEF InitIngressQ
<1>3. CASE DgramFill
  BY <1>0, <1>d, <1>3 DEF DgramFill
<1>4. CASE DgramCommit
  BY <1>0, <1>d, <1>4 DEF DgramCommit
<1>5. CASE RecvCopy
  BY <1>0, <1>d, <1>5 DEF RecvCopy
<1>6. CASE RecvDiscardStore
  <2>1. CASE in_stale'
    BY <2>1
  <2>2. CASE ~in_stale'
    <3>1. idx = in_rd /\ in_rd # in_wr /\ ~in_stale
      BY <1>6, <1>d, <2>2 DEF RecvDiscardStore, InCall, Reading
    <3>2. NextElement(in_wr) # NextElement(in_rd)
      BY <1>0, <1>a, <3>1
    <3> QED
      BY <1>6, <3>1, <3>2 DEF RecvDiscardStore
  <2> QED
    BY <2>1, <2>2
<1>7. CASE DaemonBoot \/ Stop \/ SetRunning \/ InitCtrl \/ CreateIngress \/ CreateEgress \/
           JoinIngress \/ JoinEgress \/ IngressRx \/ IngressOther \/ IngressCancel \/
           IngressCheck
  BY <1>0, <1>d, <1>7 DEF DaemonBoot, DaemonUp, Stop, SetRunning, InitCtrl, CreateIngress,
                          CreateEgress, JoinIngress, DaemonDies, JoinEgress, IngressRx,
                          IngressOther, IngressCancel, IngressCheck
<1>8. CASE DgramAlloc
  BY <1>0, <1>d, <1>8 DEF DgramAlloc
<1>9. CASE EgressTimeout \/ EgressLook \/ EgressPeek \/ EgressTest \/ EgressCheck \/
           EgressSend \/ EgressDiscard \/ InitEgressQ
  BY <1>0, <1>d, <1>9 DEF EgressTimeout, EgressLook, EgressPeek, EgressTest, EgressCheck,
                          EgressSend, EgressDiscard, InitEgressQ
<1>10. CASE DgramNotify
  BY <1>0, <1>d, <1>10 DEF DgramNotify, ClientSignalled, ClientDies, DaemonDies,
                           Usr2TerminatesDaemon
<1>11. CASE ClientStart \/ ListenBlock \/ ListenPublish \/ RecvCall \/ RecvSignalled \/
            RecvTimeout \/ RecvPeek \/ RecvPeekTest \/ RecvKeep \/ RecvDiscardModulo \/
            RecvDiscard \/ RecvDiscardTest
  BY <1>0, <1>d, <1>11 DEF ClientStart, CallGoesOn, ListenBlock, ListenPublish, RecvCall,
                           RecvSignalled, RecvTimeout, RecvPeek, EraOf, RecvPeekTest, RecvKeep,
                           CallEnds, RecvDiscardModulo, RecvDiscard, RecvDiscardTest
<1>12. CASE SendCall \/ SendAllocModulo \/ SendCommitModulo \/ SendAlloc \/ SendAllocTest \/
            SendFill \/ SendCommit \/ SendCommitStore \/ SendNotify \/ DivideByZero \/
            ClientExit
  BY <1>0, <1>d, <1>12 DEF SendCall, SendAllocModulo, CallGoesOn, SendCommitModulo, SendAlloc,
                           EraOf, SendAllocTest, SendFill, SendCommit, SendCommitStore,
                           SendNotify, DaemonDies, Usr2TerminatesDaemon, DaemonUp, CallEnds,
                           DivideByZero, ClientDies, ClientExit
<1> QED
  BY <1>1, <1>2, <1>3, <1>4, <1>5, <1>6, <1>7, <1>8, <1>9, <1>10, <1>11, <1>12
  DEF Next, MainStep, IngressStep, EgressStep, ClientStep, RecvStep, SendStep

\* and the datagram that a call is at stays the first.
LEMMA InCallKept ==
    ASSUME SockInv, Next
    PROVE  InCall'
<1>0. /\ DataType /\ idx \in Slots /\ Ingress /\ Created
      /\ boots \in Nat /\ (boots = 0 => dpc = "off")
      /\ dpc \in Starting => ipc = "none"
  BY SockAssumption DEF SockInv, TypeOK, DataType, Threads
<1>a. /\ 0 \in Slots
      /\ \A i \in Slots : NextElement(i) \in Slots /\ NextElement(i) # i
      /\ \A i, j \in Slots : NextElement(i) = NextElement(j) => i = j
  BY NextFacts
<1>b. /\ Era # 0 /\ (~InitClear => Era' = Era)
      /\ InitClear => Overtaken' \/ (boots = 1 /\ Era' = Era)
  BY EraOvertakes
<1>c. dpc # "boot" \/ dpc' # "cleared" => Era' = Era
  BY <1>b DEF InitClear
<1>d. Arrived /\ InRoom /\ InCall /\ InFresh
  BY <1>0 DEF Ingress
<1> USE DEF DataType, InRoom, InCall, Reading, Overtaken,
           mainVars, threadVars, daemonVars, pidVars, inVars, egVars, shmVars, appVars, callVars,
           clientVars, histVars
<1>1. CASE InitClear
  <2>1. in_len = 0 \/ boots # 1
    BY <1>0, <1>1 DEF InitClear, Created, Untouched
  <2>2. CASE Overtaken'
    BY <2>2
  <2>3. CASE ~Overtaken'
    BY <1>b, <1>d, <1>1, <2>1, <2>3 DEF InitClear, InFresh
  <2> QED
    BY <2>2, <2>3
<1>2. CASE InitIngressQ
  <2>1. in_len = 0
    BY <1>0, <1>2 DEF InitIngressQ, Created
  <2> QED
    BY <1>c, <1>d, <1>2, <2>1 DEF InitIngressQ, InFresh
<1>3. CASE DgramFill
  <2> SUFFICES ASSUME ~in_stale', ~Overtaken' PROVE Reading'
    OBVIOUS
  <2>1. Reading /\ UNCHANGED <<in_rd, in_wr, cpc, idx, delivered>>
    BY <1>c, <1>d, <1>3 DEF DgramFill
  <2>2. in_rd # in_wr => in_data'[in_rd] = in_data[in_rd]
    BY <1>0, <1>3 DEF DgramFill
  <2> QED
    BY <2>1, <2>2
<1>4. CASE DgramCommit
  <2> SUFFICES ASSUME ~in_stale', ~Overtaken' PROVE Reading'
    OBVIOUS
  <2>1. Reading /\ UNCHANGED <<in_rd, in_data, cpc, idx, delivered>> /\ in_wr' = NextElement(in_wr)
    BY <1>c, <1>d, <1>4 DEF DgramCommit
  <2>2. NextElement(in_wr) # in_rd
    BY <1>d, <1>4 DEF DgramCommit
  <2> QED
    BY <2>1, <2>2
<1>5. CASE RecvCopy
  BY <1>c, <1>d, <1>5 DEF RecvCopy
<1>6. CASE RecvDiscardStore
  BY <1>c, <1>d, <1>6 DEF RecvDiscardStore, CallEnds
<1>7. CASE DaemonBoot \/ Stop \/ SetRunning \/ InitCtrl \/ CreateIngress \/ CreateEgress \/
           JoinIngress \/ JoinEgress \/ IngressRx \/ IngressOther \/ IngressCancel \/
           IngressCheck \/ DgramAlloc
  BY <1>c, <1>d, <1>7 DEF DaemonBoot, DaemonUp, Stop, SetRunning, InitCtrl, CreateIngress,
                          CreateEgress, JoinIngress, DaemonDies, JoinEgress, IngressRx,
                          IngressOther, IngressCancel, IngressCheck, DgramAlloc
<1>8. CASE EgressTimeout \/ EgressLook \/ EgressPeek \/ EgressTest \/ EgressCheck \/
           EgressSend \/ EgressDiscard \/ InitEgressQ
  BY <1>c, <1>d, <1>8 DEF EgressTimeout, EgressLook, EgressPeek, EgressTest, EgressCheck,
                          EgressSend, EgressDiscard, InitEgressQ
<1>9. CASE DgramNotify
  BY <1>c, <1>d, <1>9 DEF DgramNotify, ClientSignalled, ClientDies, DaemonDies,
                          Usr2TerminatesDaemon
<1>10. CASE RecvPeek
  BY <1>c, <1>d, <1>10 DEF RecvPeek, EraOf, CallGoesOn
<1>11. CASE RecvPeekTest
  BY <1>c, <1>d, <1>11 DEF RecvPeekTest, CallGoesOn
<1>12. CASE RecvDiscard
  BY <1>c, <1>d, <1>12 DEF RecvDiscard, CallGoesOn
<1>13. CASE RecvDiscardTest \/ RecvDiscardModulo \/ RecvKeep
  BY <1>c, <1>d, <1>13 DEF RecvDiscardTest, CallEnds, RecvDiscardModulo, CallGoesOn, RecvKeep
<1>14. CASE ClientStart \/ ListenBlock \/ ListenPublish \/ RecvCall \/ RecvSignalled \/
            RecvTimeout
  BY <1>c, <1>d, <1>14 DEF ClientStart, CallGoesOn, ListenBlock, ListenPublish, RecvCall,
                           RecvSignalled, RecvTimeout
<1>15. CASE SendCall \/ SendAllocModulo \/ SendCommitModulo \/ SendAlloc \/ SendAllocTest
  BY <1>c, <1>d, <1>15 DEF SendCall, SendAllocModulo, CallGoesOn, SendCommitModulo, SendAlloc,
                           EraOf, SendAllocTest
<1>16. CASE SendFill \/ SendCommit \/ SendCommitStore \/ SendNotify \/ DivideByZero \/
            ClientExit
  BY <1>c, <1>d, <1>16 DEF SendFill, SendCommit, CallGoesOn, SendCommitStore, SendNotify,
                           DaemonDies, Usr2TerminatesDaemon, DaemonUp, CallEnds, DivideByZero,
                           ClientDies, ClientExit
<1> QED
  BY <1>1, <1>2, <1>3, <1>4, <1>5, <1>6, <1>7, <1>8, <1>9, <1>10, <1>11, <1>12, <1>13, <1>14,
     <1>15, <1>16
  DEF Next, MainStep, IngressStep, EgressStep, ClientStep, RecvStep, SendStep

\* In a cleared file the ring is empty.
LEMMA InFreshKept ==
    ASSUME SockInv, Next
    PROVE  InFresh'
<1>0. /\ DataType /\ idx \in Slots /\ Ingress /\ Created
      /\ boots \in Nat /\ (boots = 0 => dpc = "off")
      /\ dpc \in Starting => ipc = "none"
  BY SockAssumption DEF SockInv, TypeOK, DataType, Threads
<1>a. /\ 0 \in Slots
      /\ \A i \in Slots : NextElement(i) \in Slots /\ NextElement(i) # i
      /\ \A i, j \in Slots : NextElement(i) = NextElement(j) => i = j
  BY NextFacts
<1>b. /\ Era # 0 /\ (~InitClear => Era' = Era)
      /\ InitClear => Overtaken' \/ (boots = 1 /\ Era' = Era)
  BY EraOvertakes
<1>c. dpc # "boot" \/ dpc' # "cleared" => Era' = Era
  BY <1>b DEF InitClear
<1>d. InCall /\ InFresh
  BY <1>0 DEF Ingress
<1> USE DEF DataType, InFresh, Overtaken,
           mainVars, threadVars, daemonVars, pidVars, inVars, egVars, shmVars, appVars, callVars,
           clientVars, histVars
<1>1. CASE InitClear
  <2>1. in_len = 0 \/ boots # 1
    BY <1>0, <1>1 DEF InitClear, Created, Untouched
  <2> QED
    BY <1>b, <1>d, <1>1, <2>1 DEF InitClear
<1>2. CASE InitIngressQ
  BY <1>2, SockAssumption DEF InitIngressQ
<1>3. CASE DgramFill
  BY <1>c, <1>d, <1>3 DEF DgramFill
<1>4. CASE DgramCommit
  <2>1. in_len # 0
    BY <1>0, <1>4 DEF DgramCommit, Created, IngressLoop
  <2> QED
    BY <1>4, <2>1 DEF DgramCommit
<1>5. CASE RecvCopy
  BY <1>c, <1>d, <1>5 DEF RecvCopy
<1>6. CASE RecvDiscardStore
  BY <1>c, <1>d, <1>6 DEF RecvDiscardStore, CallEnds
<1>7. CASE DaemonBoot \/ Stop \/ SetRunning \/ InitCtrl \/ CreateIngress \/ CreateEgress \/
           JoinIngress \/ JoinEgress \/ IngressRx \/ IngressOther \/ IngressCancel \/
           IngressCheck \/ DgramAlloc
  BY <1>c, <1>d, <1>7 DEF DaemonBoot, DaemonUp, Stop, SetRunning, InitCtrl, CreateIngress,
                          CreateEgress, JoinIngress, DaemonDies, JoinEgress, IngressRx,
                          IngressOther, IngressCancel, IngressCheck, DgramAlloc
<1>8. CASE EgressTimeout \/ EgressLook \/ EgressPeek \/ EgressTest \/ EgressCheck \/
           EgressSend \/ EgressDiscard \/ InitEgressQ
  BY <1>c, <1>d, <1>8 DEF EgressTimeout, EgressLook, EgressPeek, EgressTest, EgressCheck,
                          EgressSend, EgressDiscard, InitEgressQ
<1>9. CASE DgramNotify
  BY <1>c, <1>d, <1>9 DEF DgramNotify, ClientSignalled, ClientDies, DaemonDies,
                          Usr2TerminatesDaemon
<1>10. CASE RecvPeek
  BY <1>b, <1>c, <1>d, <1>10 DEF RecvPeek, CallGoesOn, EraOf
<1>11. CASE RecvPeekTest
  BY <1>c, <1>d, <1>11 DEF RecvPeekTest, CallGoesOn
<1>12. CASE RecvDiscard
  BY <1>c, <1>d, <1>12 DEF RecvDiscard, CallGoesOn
<1>13. CASE RecvDiscardTest \/ RecvDiscardModulo \/ RecvKeep
  BY <1>c, <1>d, <1>13 DEF RecvDiscardTest, CallEnds, RecvDiscardModulo, CallGoesOn, RecvKeep
<1>14. CASE ClientStart \/ ListenBlock \/ ListenPublish \/ RecvCall \/ RecvSignalled \/
            RecvTimeout
  BY <1>c, <1>d, <1>14 DEF ClientStart, CallGoesOn, ListenBlock, ListenPublish, RecvCall,
                           RecvSignalled, RecvTimeout
<1>15. CASE SendCall \/ SendAllocModulo \/ SendCommitModulo \/ SendAlloc \/ SendAllocTest
  BY <1>c, <1>d, <1>15 DEF SendCall, SendAllocModulo, CallGoesOn, SendCommitModulo, SendAlloc,
                           EraOf, SendAllocTest
<1>16. CASE SendFill \/ SendCommit \/ SendCommitStore \/ SendNotify \/ DivideByZero \/
            ClientExit
  BY <1>c, <1>d, <1>16 DEF SendFill, SendCommit, CallGoesOn, SendCommitStore, SendNotify,
                           DaemonDies, Usr2TerminatesDaemon, DaemonUp, CallEnds, DivideByZero,
                           ClientDies, ClientExit
<1> QED
  BY <1>1, <1>2, <1>3, <1>4, <1>5, <1>6, <1>7, <1>8, <1>9, <1>10, <1>11, <1>12, <1>13, <1>14,
     <1>15, <1>16
  DEF Next, MainStep, IngressStep, EgressStep, ClientStep, RecvStep, SendStep

\* The egress ring: the egress thread works on a ring that is not empty,
LEMMA EgWorkKept ==
    ASSUME SockInv, Next
    PROVE  EgWork'
<1>0. /\ DataType /\ idx \in Slots /\ Egress /\ Created
      /\ dpc \in Starting => epc = "none"
  BY DEF SockInv, TypeOK, DataType, Threads
<1>a. /\ 0 \in Slots
      /\ \A i \in Slots : NextElement(i) \in Slots /\ NextElement(i) # i
      /\ \A i, j \in Slots : NextElement(i) = NextElement(j) => i = j
  BY NextFacts
<1>b. /\ Era # 0 /\ (~InitClear => Era' = Era)
      /\ InitClear => Overtaken' \/ (boots = 1 /\ Era' = Era)
  BY EraOvertakes
<1>c. dpc # "boot" \/ dpc' # "cleared" => Era' = Era
  BY <1>b DEF InitClear
<1>d. /\ EgWork /\ EgHanded /\ EgCall /\ EgOver /\ EgFresh /\ EgZero
  BY <1>0 DEF Egress
<1> USE DEF EgWork, Working, Sending, Overtaken,
           mainVars, threadVars, daemonVars, pidVars, inVars, egVars, shmVars, appVars, callVars,
           clientVars, histVars
<1>1. CASE InitClear
  <2>1. epc = "none"
    BY <1>0, <1>1 DEF InitClear, Starting
  <2> QED
    BY <1>1, <2>1 DEF InitClear
<1>2. CASE InitEgressQ
  <2>1. epc = "none"
    BY <1>0, <1>2 DEF InitEgressQ, Starting
  <2> QED
    BY <1>2, <2>1 DEF InitEgressQ
<1>3. CASE DaemonBoot \/ Stop \/ SetRunning \/ InitCtrl \/ InitIngressQ
  BY <1>c, <1>d, <1>3 DEF DaemonBoot, DaemonUp, Stop, SetRunning, InitCtrl, InitIngressQ
<1>4. CASE CreateIngress \/ CreateEgress
  BY <1>c, <1>d, <1>4 DEF CreateIngress, CreateEgress
<1>5. CASE JoinIngress \/ JoinEgress \/ IngressRx \/ IngressOther \/ IngressCancel \/
           IngressCheck \/ DgramAlloc \/ DgramFill \/ DgramCommit
  BY <1>c, <1>d, <1>5 DEF JoinIngress, DaemonDies, JoinEgress, IngressRx, IngressOther,
                          IngressCancel, IngressCheck, DgramAlloc, DgramFill, DgramCommit
<1>6. CASE DgramNotify
  BY <1>c, <1>d, <1>6 DEF DgramNotify, ClientSignalled, ClientDies, DaemonDies,
                          Usr2TerminatesDaemon
<1>7. CASE EgressTimeout \/ EgressPeek \/ EgressTest \/ EgressCheck
  BY <1>c, <1>d, <1>7 DEF EgressTimeout, EgressPeek, EgressTest, EgressCheck
<1>8. CASE EgressLook
  BY <1>c, <1>d, <1>8 DEF EgressLook
<1>9. CASE EgressSend
  BY <1>c, <1>d, <1>9 DEF EgressSend
<1>10. CASE EgressDiscard
  BY <1>c, <1>d, <1>10 DEF EgressDiscard
<1>11. CASE ClientStart \/ ListenBlock \/ ListenPublish \/ RecvCall \/ RecvSignalled \/
            RecvTimeout \/ RecvPeek
  BY <1>c, <1>d, <1>11 DEF ClientStart, CallGoesOn, ListenBlock, ListenPublish, RecvCall,
                           RecvSignalled, RecvTimeout, RecvPeek, EraOf
<1>12. CASE RecvPeekTest \/ RecvCopy \/ RecvKeep \/ RecvDiscardModulo \/ RecvDiscard \/
            RecvDiscardTest \/ RecvDiscardStore
  BY <1>c, <1>d, <1>12 DEF RecvPeekTest, CallGoesOn, RecvCopy, RecvKeep, CallEnds,
                           RecvDiscardModulo, RecvDiscard, RecvDiscardTest, RecvDiscardStore
<1>13. CASE SendCall \/ SendAllocModulo \/ SendCommitModulo
  BY <1>c, <1>d, <1>13 DEF SendCall, SendAllocModulo, CallGoesOn, SendCommitModulo
<1>14. CASE SendAlloc
  BY <1>c, <1>d, <1>14 DEF SendAlloc, EraOf, CallGoesOn
<1>15. CASE SendAllocTest
  BY <1>c, <1>d, <1>15 DEF SendAllocTest, CallGoesOn
<1>16. CASE SendFill
  BY <1>c, <1>d, <1>16 DEF SendFill
<1>17. CASE SendCommit
  BY <1>c, <1>d, <1>17 DEF SendCommit, CallGoesOn
<1>18. CASE SendCommitStore
  <2>1. CASE Overtaken
    BY <1>d, <1>18, <2>1 DEF SendCommitStore, EgOver
  <2>2. CASE ~Overtaken
    BY <1>d, <1>18, <2>2 DEF SendCommitStore, EgCall, Writing
  <2> QED
    BY <2>1, <2>2
<1>19. CASE SendNotify
  BY <1>c, <1>d, <1>19 DEF SendNotify, DaemonDies, Usr2TerminatesDaemon, DaemonUp, CallEnds
<1>20. CASE DivideByZero \/ ClientExit
  BY <1>c, <1>d, <1>20 DEF DivideByZero, ClientDies, ClientExit
<1> QED
  BY <1>1, <1>2, <1>3, <1>4, <1>5, <1>6, <1>7, <1>8, <1>9, <1>10, <1>11, <1>12, <1>13, <1>14,
     <1>15, <1>16, <1>17, <1>18, <1>19, <1>20
  DEF Next, MainStep, IngressStep, EgressStep, ClientStep, RecvStep, SendStep

\* on a datagram that it has handed over before it discards it;
LEMMA EgHandedKept ==
    ASSUME SockInv, Next
    PROVE  EgHanded'
<1>0. /\ DataType /\ idx \in Slots /\ Egress /\ Created
      /\ dpc \in Starting => epc = "none"
  BY DEF SockInv, TypeOK, DataType, Threads
<1>a. /\ 0 \in Slots
      /\ \A i \in Slots : NextElement(i) \in Slots /\ NextElement(i) # i
      /\ \A i, j \in Slots : NextElement(i) = NextElement(j) => i = j
  BY NextFacts
<1>b. /\ Era # 0 /\ (~InitClear => Era' = Era)
      /\ InitClear => Overtaken' \/ (boots = 1 /\ Era' = Era)
  BY EraOvertakes
<1>c. dpc # "boot" \/ dpc' # "cleared" => Era' = Era
  BY <1>b DEF InitClear
<1>d. /\ EgWork /\ EgHanded /\ EgCall /\ EgOver /\ EgFresh /\ EgZero
  BY <1>0 DEF Egress
<1> USE DEF EgHanded, Working, Sending, Overtaken,
           mainVars, threadVars, daemonVars, pidVars, inVars, egVars, shmVars, appVars, callVars,
           clientVars, histVars
<1>1. CASE InitClear
  <2>1. epc = "none"
    BY <1>0, <1>1 DEF InitClear, Starting
  <2> QED
    BY <1>1, <2>1 DEF InitClear
<1>2. CASE InitEgressQ
  <2>1. epc = "none"
    BY <1>0, <1>2 DEF InitEgressQ, Starting
  <2> QED
    BY <1>2, <2>1 DEF InitEgressQ
<1>3. CASE DaemonBoot \/ Stop \/ SetRunning \/ InitCtrl \/ InitIngressQ
  BY <1>c, <1>d, <1>3 DEF DaemonBoot, DaemonUp, Stop, SetRunning, InitCtrl, InitIngressQ
<1>4. CASE CreateIngress \/ CreateEgress
  BY <1>c, <1>d, <1>4 DEF CreateIngress, CreateEgress
<1>5. CASE JoinIngress \/ JoinEgress \/ IngressRx \/ IngressOther \/ IngressCancel \/
           IngressCheck \/ DgramAlloc \/ DgramFill \/ DgramCommit
  BY <1>c, <1>d, <1>5 DEF JoinIngress, DaemonDies, JoinEgress, IngressRx, IngressOther,
                          IngressCancel, IngressCheck, DgramAlloc, DgramFill, DgramCommit
<1>6. CASE DgramNotify
  BY <1>c, <1>d, <1>6 DEF DgramNotify, ClientSignalled, ClientDies, DaemonDies,
                          Usr2TerminatesDaemon
<1>7. CASE EgressTimeout \/ EgressPeek \/ EgressTest \/ EgressCheck
  BY <1>c, <1>d, <1>7 DEF EgressTimeout, EgressPeek, EgressTest, EgressCheck
<1>8. CASE EgressLook
  BY <1>c, <1>d, <1>8 DEF EgressLook
<1>9. CASE EgressSend
  BY <1>c, <1>d, <1>9 DEF EgressSend
<1>10. CASE EgressDiscard
  BY <1>c, <1>d, <1>10 DEF EgressDiscard
<1>11. CASE ClientStart \/ ListenBlock \/ ListenPublish \/ RecvCall \/ RecvSignalled \/
            RecvTimeout \/ RecvPeek
  BY <1>c, <1>d, <1>11 DEF ClientStart, CallGoesOn, ListenBlock, ListenPublish, RecvCall,
                           RecvSignalled, RecvTimeout, RecvPeek, EraOf
<1>12. CASE RecvPeekTest \/ RecvCopy \/ RecvKeep \/ RecvDiscardModulo \/ RecvDiscard \/
            RecvDiscardTest \/ RecvDiscardStore
  BY <1>c, <1>d, <1>12 DEF RecvPeekTest, CallGoesOn, RecvCopy, RecvKeep, CallEnds,
                           RecvDiscardModulo, RecvDiscard, RecvDiscardTest, RecvDiscardStore
<1>13. CASE SendCall \/ SendAllocModulo \/ SendCommitModulo
  BY <1>c, <1>d, <1>13 DEF SendCall, SendAllocModulo, CallGoesOn, SendCommitModulo
<1>14. CASE SendAlloc
  BY <1>c, <1>d, <1>14 DEF SendAlloc, EraOf, CallGoesOn
<1>15. CASE SendAllocTest
  BY <1>c, <1>d, <1>15 DEF SendAllocTest, CallGoesOn
<1>16. CASE SendFill
  <2>1. CASE Overtaken
    BY <1>d, <1>16, <2>1 DEF SendFill, EgOver
  <2>2. CASE ~Overtaken
    <3>1. idx = eg_wr
      BY <1>d, <1>16, <2>2 DEF SendFill, EgCall, Writing
    <3>2. epc \in Working => eg_data'[eg_rd] = eg_data[eg_rd]
      BY <1>0, <1>d, <1>16, <3>1 DEF SendFill, EgWork, DataType
    <3> QED
      BY <1>d, <1>16, <3>2 DEF SendFill
  <2> QED
    BY <2>1, <2>2
<1>17. CASE SendCommit
  BY <1>c, <1>d, <1>17 DEF SendCommit, CallGoesOn
<1>18. CASE SendCommitStore
  BY <1>c, <1>d, <1>18 DEF SendCommitStore
<1>19. CASE SendNotify
  BY <1>c, <1>d, <1>19 DEF SendNotify, DaemonDies, Usr2TerminatesDaemon, DaemonUp, CallEnds
<1>20. CASE DivideByZero \/ ClientExit
  BY <1>c, <1>d, <1>20 DEF DivideByZero, ClientDies, ClientExit
<1> QED
  BY <1>1, <1>2, <1>3, <1>4, <1>5, <1>6, <1>7, <1>8, <1>9, <1>10, <1>11, <1>12, <1>13, <1>14,
     <1>15, <1>16, <1>17, <1>18, <1>19, <1>20
  DEF Next, MainStep, IngressStep, EgressStep, ClientStep, RecvStep, SendStep

\* the slot that xstack_sendto fills stays free,
LEMMA EgCallKept ==
    ASSUME SockInv, Next
    PROVE  EgCall'
<1>0. /\ DataType /\ idx \in Slots /\ Egress /\ Created
      /\ dpc \in Starting => epc = "none"
  BY DEF SockInv, TypeOK, DataType, Threads
<1>a. /\ 0 \in Slots
      /\ \A i \in Slots : NextElement(i) \in Slots /\ NextElement(i) # i
      /\ \A i, j \in Slots : NextElement(i) = NextElement(j) => i = j
  BY NextFacts
<1>b. /\ Era # 0 /\ (~InitClear => Era' = Era)
      /\ InitClear => Overtaken' \/ (boots = 1 /\ Era' = Era)
  BY EraOvertakes
<1>c. dpc # "boot" \/ dpc' # "cleared" => Era' = Era
  BY <1>b DEF InitClear
<1>d. /\ EgWork /\ EgHanded /\ EgCall /\ EgOver /\ EgFresh /\ EgZero
  BY <1>0 DEF Egress
<1> USE DEF EgCall, Writing, Working, Sending, Overtaken,
           mainVars, threadVars, daemonVars, pidVars, inVars, egVars, shmVars, appVars, callVars,
           clientVars, histVars
<1>1. CASE InitClear
  <2>1. eg_len = 0 \/ boots # 1
    BY <1>0, <1>1 DEF InitClear, Created, Untouched
  <2> QED
    BY <1>a, <1>b, <1>d, <1>1, <2>1 DEF InitClear, EgZero
<1>2. CASE InitEgressQ
  <2>1. eg_len = 0
    BY <1>0, <1>2 DEF InitEgressQ, Created
  <2> QED
    BY <1>a, <1>c, <1>d, <1>2, <2>1 DEF InitEgressQ, EgZero
<1>3. CASE DaemonBoot \/ Stop \/ SetRunning \/ InitCtrl \/ InitIngressQ
  BY <1>c, <1>d, <1>3 DEF DaemonBoot, DaemonUp, Stop, SetRunning, InitCtrl, InitIngressQ
<1>4. CASE CreateIngress \/ CreateEgress
  BY <1>c, <1>d, <1>4 DEF CreateIngress, CreateEgress
<1>5. CASE JoinIngress \/ JoinEgress \/ IngressRx \/ IngressOther \/ IngressCancel \/
           IngressCheck \/ DgramAlloc \/ DgramFill \/ DgramCommit
  BY <1>c, <1>d, <1>5 DEF JoinIngress, DaemonDies, JoinEgress, IngressRx, IngressOther,
                          IngressCancel, IngressCheck, DgramAlloc, DgramFill, DgramCommit
<1>6. CASE DgramNotify
  BY <1>c, <1>d, <1>6 DEF DgramNotify, ClientSignalled, ClientDies, DaemonDies,
                          Usr2TerminatesDaemon
<1>7. CASE EgressTimeout \/ EgressPeek \/ EgressTest \/ EgressCheck
  BY <1>c, <1>d, <1>7 DEF EgressTimeout, EgressPeek, EgressTest, EgressCheck
<1>8. CASE EgressLook
  BY <1>c, <1>d, <1>8 DEF EgressLook
<1>9. CASE EgressSend
  BY <1>c, <1>d, <1>9 DEF EgressSend
<1>10. CASE EgressDiscard
  <2>1. eg_rd # eg_wr /\ eg_rd \in Slots /\ eg_wr \in Slots
    BY <1>0, <1>d, <1>10 DEF EgressDiscard, EgWork, DataType
  <2>2. NextElement(eg_wr) # NextElement(eg_rd)
    BY <1>a, <2>1
  <2> QED
    BY <1>c, <1>d, <1>10, <2>2 DEF EgressDiscard
<1>11. CASE ClientStart \/ ListenBlock \/ ListenPublish \/ RecvCall \/ RecvSignalled \/
            RecvTimeout \/ RecvPeek
  BY <1>c, <1>d, <1>11 DEF ClientStart, CallGoesOn, ListenBlock, ListenPublish, RecvCall,
                           RecvSignalled, RecvTimeout, RecvPeek, EraOf
<1>12. CASE RecvPeekTest \/ RecvCopy \/ RecvKeep \/ RecvDiscardModulo \/ RecvDiscard \/
            RecvDiscardTest \/ RecvDiscardStore
  BY <1>c, <1>d, <1>12 DEF RecvPeekTest, CallGoesOn, RecvCopy, RecvKeep, CallEnds,
                           RecvDiscardModulo, RecvDiscard, RecvDiscardTest, RecvDiscardStore
<1>13. CASE SendCall \/ SendAllocModulo \/ SendCommitModulo
  BY <1>c, <1>d, <1>13 DEF SendCall, SendAllocModulo, CallGoesOn, SendCommitModulo
<1>14. CASE SendAlloc
  BY <1>c, <1>d, <1>14 DEF SendAlloc, EraOf, CallGoesOn
<1>15. CASE SendAllocTest
  BY <1>c, <1>d, <1>15 DEF SendAllocTest, CallGoesOn
<1>16. CASE SendFill
  BY <1>c, <1>d, <1>16 DEF SendFill
<1>17. CASE SendCommit
  BY <1>c, <1>d, <1>17 DEF SendCommit, CallGoesOn
<1>18. CASE SendCommitStore
  BY <1>c, <1>d, <1>18 DEF SendCommitStore
<1>19. CASE SendNotify
  BY <1>c, <1>d, <1>19 DEF SendNotify, DaemonDies, Usr2TerminatesDaemon, DaemonUp, CallEnds
<1>20. CASE DivideByZero \/ ClientExit
  BY <1>c, <1>d, <1>20 DEF DivideByZero, ClientDies, ClientExit
<1> QED
  BY <1>1, <1>2, <1>3, <1>4, <1>5, <1>6, <1>7, <1>8, <1>9, <1>10, <1>11, <1>12, <1>13, <1>14,
     <1>15, <1>16, <1>17, <1>18, <1>19, <1>20
  DEF Next, MainStep, IngressStep, EgressStep, ClientStep, RecvStep, SendStep

\* an overtaken call finds the ring empty,
LEMMA EgOverKept ==
    ASSUME SockInv, Next
    PROVE  EgOver'
<1>0. /\ DataType /\ idx \in Slots /\ Egress /\ Created
      /\ dpc \in Starting => epc = "none"
  BY DEF SockInv, TypeOK, DataType, Threads
<1>a. /\ 0 \in Slots
      /\ \A i \in Slots : NextElement(i) \in Slots /\ NextElement(i) # i
      /\ \A i, j \in Slots : NextElement(i) = NextElement(j) => i = j
  BY NextFacts
<1>b. /\ Era # 0 /\ (~InitClear => Era' = Era)
      /\ InitClear => Overtaken' \/ (boots = 1 /\ Era' = Era)
  BY EraOvertakes
<1>c. dpc # "boot" \/ dpc' # "cleared" => Era' = Era
  BY <1>b DEF InitClear
<1>d. /\ EgWork /\ EgHanded /\ EgCall /\ EgOver /\ EgFresh /\ EgZero
  BY <1>0 DEF Egress
<1> USE DEF EgOver, Working, Sending, Overtaken,
           mainVars, threadVars, daemonVars, pidVars, inVars, egVars, shmVars, appVars, callVars,
           clientVars, histVars
<1>1. CASE InitClear
  <2>1. epc = "none"
    BY <1>0, <1>1 DEF InitClear, Starting
  <2> QED
    BY <1>1, <2>1 DEF InitClear
<1>2. CASE InitEgressQ
  <2>1. epc = "none"
    BY <1>0, <1>2 DEF InitEgressQ, Starting
  <2> QED
    BY <1>2, <2>1 DEF InitEgressQ
<1>3. CASE DaemonBoot \/ Stop \/ SetRunning \/ InitCtrl \/ InitIngressQ
  BY <1>c, <1>d, <1>3 DEF DaemonBoot, DaemonUp, Stop, SetRunning, InitCtrl, InitIngressQ
<1>4. CASE CreateIngress \/ CreateEgress
  BY <1>c, <1>d, <1>4 DEF CreateIngress, CreateEgress
<1>5. CASE JoinIngress \/ JoinEgress \/ IngressRx \/ IngressOther \/ IngressCancel \/
           IngressCheck \/ DgramAlloc \/ DgramFill \/ DgramCommit
  BY <1>c, <1>d, <1>5 DEF JoinIngress, DaemonDies, JoinEgress, IngressRx, IngressOther,
                          IngressCancel, IngressCheck, DgramAlloc, DgramFill, DgramCommit
<1>6. CASE DgramNotify
  BY <1>c, <1>d, <1>6 DEF DgramNotify, ClientSignalled, ClientDies, DaemonDies,
                          Usr2TerminatesDaemon
<1>7. CASE EgressTimeout \/ EgressPeek \/ EgressTest \/ EgressCheck
  BY <1>c, <1>d, <1>7 DEF EgressTimeout, EgressPeek, EgressTest, EgressCheck
<1>8. CASE EgressLook
  <2>1. eg_len # 0
    BY <1>0, <1>8 DEF EgressLook, Created, EgressLoop
  <2> QED
    BY <1>c, <1>d, <1>8, <2>1 DEF EgressLook
<1>9. CASE EgressSend
  BY <1>c, <1>d, <1>9 DEF EgressSend
<1>10. CASE EgressDiscard
  BY <1>c, <1>d, <1>10 DEF EgressDiscard
<1>11. CASE ClientStart \/ ListenBlock \/ ListenPublish \/ RecvCall \/ RecvSignalled \/
            RecvTimeout \/ RecvPeek
  BY <1>c, <1>d, <1>11 DEF ClientStart, CallGoesOn, ListenBlock, ListenPublish, RecvCall,
                           RecvSignalled, RecvTimeout, RecvPeek, EraOf
<1>12. CASE RecvPeekTest \/ RecvCopy \/ RecvKeep \/ RecvDiscardModulo \/ RecvDiscard \/
            RecvDiscardTest \/ RecvDiscardStore
  BY <1>c, <1>d, <1>12 DEF RecvPeekTest, CallGoesOn, RecvCopy, RecvKeep, CallEnds,
                           RecvDiscardModulo, RecvDiscard, RecvDiscardTest, RecvDiscardStore
<1>13. CASE SendCall \/ SendAllocModulo \/ SendCommitModulo
  BY <1>c, <1>d, <1>13 DEF SendCall, SendAllocModulo, CallGoesOn, SendCommitModulo
<1>14. CASE SendAlloc
  <2>1. eg_len = 0 => epc \notin Working
    BY <1>0 DEF Created, EgressLoop
  <2>2. UNCHANGED <<eg_len, epc>> /\ seen' = EraOf(eg_len, eg_wr) /\ Era' = Era
    BY <1>c, <1>14 DEF SendAlloc, CallGoesOn
  <2>3. eg_len # 0 => seen' = Era
    BY <2>2 DEF EraOf
  <2> QED
    BY <1>b, <2>1, <2>2, <2>3
<1>15. CASE SendAllocTest
  BY <1>c, <1>d, <1>15 DEF SendAllocTest, CallGoesOn
<1>16. CASE SendFill
  BY <1>c, <1>d, <1>16 DEF SendFill
<1>17. CASE SendCommit
  BY <1>c, <1>d, <1>17 DEF SendCommit, CallGoesOn
<1>18. CASE SendCommitStore
  BY <1>c, <1>d, <1>18 DEF SendCommitStore
<1>19. CASE SendNotify
  BY <1>c, <1>d, <1>19 DEF SendNotify, DaemonDies, Usr2TerminatesDaemon, DaemonUp, CallEnds
<1>20. CASE DivideByZero \/ ClientExit
  BY <1>c, <1>d, <1>20 DEF DivideByZero, ClientDies, ClientExit
<1> QED
  BY <1>1, <1>2, <1>3, <1>4, <1>5, <1>6, <1>7, <1>8, <1>9, <1>10, <1>11, <1>12, <1>13, <1>14,
     <1>15, <1>16, <1>17, <1>18, <1>19, <1>20
  DEF Next, MainStep, IngressStep, EgressStep, ClientStep, RecvStep, SendStep

\* and in a cleared file the ring is empty
LEMMA EgFreshKept ==
    ASSUME SockInv, Next
    PROVE  EgFresh'
<1>0. /\ DataType /\ idx \in Slots /\ Egress /\ Created
      /\ dpc \in Starting => epc = "none"
  BY DEF SockInv, TypeOK, DataType, Threads
<1>a. /\ 0 \in Slots
      /\ \A i \in Slots : NextElement(i) \in Slots /\ NextElement(i) # i
      /\ \A i, j \in Slots : NextElement(i) = NextElement(j) => i = j
  BY NextFacts
<1>b. /\ Era # 0 /\ (~InitClear => Era' = Era)
      /\ InitClear => Overtaken' \/ (boots = 1 /\ Era' = Era)
  BY EraOvertakes
<1>c. dpc # "boot" \/ dpc' # "cleared" => Era' = Era
  BY <1>b DEF InitClear
<1>d. /\ EgWork /\ EgHanded /\ EgCall /\ EgOver /\ EgFresh /\ EgZero
  BY <1>0 DEF Egress
<1> USE DEF EgFresh, Working, Sending, Overtaken,
           mainVars, threadVars, daemonVars, pidVars, inVars, egVars, shmVars, appVars, callVars,
           clientVars, histVars
<1>1. CASE InitClear
  <2>1. Window(0, 0) = {}
    BY <1>a, WindowFacts
  <2> QED
    BY <1>1, <2>1 DEF InitClear
<1>2. CASE InitEgressQ
  BY <1>2, SockAssumption DEF InitEgressQ
<1>3. CASE DaemonBoot \/ Stop \/ SetRunning \/ InitCtrl \/ InitIngressQ
  BY <1>c, <1>d, <1>3 DEF DaemonBoot, DaemonUp, Stop, SetRunning, InitCtrl, InitIngressQ
<1>4. CASE CreateIngress \/ CreateEgress
  BY <1>c, <1>d, <1>4 DEF CreateIngress, CreateEgress
<1>5. CASE JoinIngress \/ JoinEgress \/ IngressRx \/ IngressOther \/ IngressCancel \/
           IngressCheck \/ DgramAlloc \/ DgramFill \/ DgramCommit
  BY <1>c, <1>d, <1>5 DEF JoinIngress, DaemonDies, JoinEgress, IngressRx, IngressOther,
                          IngressCancel, IngressCheck, DgramAlloc, DgramFill, DgramCommit
<1>6. CASE DgramNotify
  BY <1>c, <1>d, <1>6 DEF DgramNotify, ClientSignalled, ClientDies, DaemonDies,
                          Usr2TerminatesDaemon
<1>7. CASE EgressTimeout \/ EgressPeek \/ EgressTest \/ EgressCheck
  BY <1>c, <1>d, <1>7 DEF EgressTimeout, EgressPeek, EgressTest, EgressCheck
<1>8. CASE EgressLook
  BY <1>c, <1>d, <1>8 DEF EgressLook
<1>9. CASE EgressSend
  BY <1>c, <1>d, <1>9 DEF EgressSend
<1>10. CASE EgressDiscard
  <2>1. eg_len # 0
    BY <1>0, <1>10 DEF EgressDiscard, Created, EgressLoop
  <2> QED
    BY <1>10, <2>1 DEF EgressDiscard
<1>11. CASE ClientStart \/ ListenBlock \/ ListenPublish \/ RecvCall \/ RecvSignalled \/
            RecvTimeout \/ RecvPeek
  BY <1>c, <1>d, <1>11 DEF ClientStart, CallGoesOn, ListenBlock, ListenPublish, RecvCall,
                           RecvSignalled, RecvTimeout, RecvPeek, EraOf
<1>12. CASE RecvPeekTest \/ RecvCopy \/ RecvKeep \/ RecvDiscardModulo \/ RecvDiscard \/
            RecvDiscardTest \/ RecvDiscardStore
  BY <1>c, <1>d, <1>12 DEF RecvPeekTest, CallGoesOn, RecvCopy, RecvKeep, CallEnds,
                           RecvDiscardModulo, RecvDiscard, RecvDiscardTest, RecvDiscardStore
<1>13. CASE SendCall \/ SendAllocModulo \/ SendCommitModulo
  BY <1>c, <1>d, <1>13 DEF SendCall, SendAllocModulo, CallGoesOn, SendCommitModulo
<1>14. CASE SendAlloc
  BY <1>c, <1>d, <1>14 DEF SendAlloc, EraOf, CallGoesOn
<1>15. CASE SendAllocTest
  BY <1>c, <1>d, <1>15 DEF SendAllocTest, CallGoesOn
<1>16. CASE SendFill
  <2>1. eg_len = 0 => Window(eg_rd, eg_wr) = {}
    BY <1>0, <1>d, <1>16, WindowFacts DEF SendFill, EgZero, DataType
  <2> QED
    BY <1>d, <1>16, <2>1 DEF SendFill
<1>17. CASE SendCommit
  BY <1>c, <1>d, <1>17 DEF SendCommit, CallGoesOn
<1>18. CASE SendCommitStore
  <2> SUFFICES ASSUME eg_len' = 0 PROVE EgFresh'
    OBVIOUS
  <2>1. eg_rd = 0 /\ \A s \in Slots : eg_data[s] = 0
    BY <1>d, <1>18 DEF SendCommitStore, EgZero
  <2>2. UNCHANGED <<eg_rd, eg_data>> /\ eg_rd' \in Slots /\ eg_wr' \in Slots
    BY <1>0, <1>a, <1>18 DEF SendCommitStore, DataType
  <2>3. Window(eg_rd', eg_wr') \subseteq Slots
    BY <2>2, WindowFacts
  <2> QED
    BY <2>1, <2>2, <2>3
<1>19. CASE SendNotify
  BY <1>c, <1>d, <1>19 DEF SendNotify, DaemonDies, Usr2TerminatesDaemon, DaemonUp, CallEnds
<1>20. CASE DivideByZero \/ ClientExit
  BY <1>c, <1>d, <1>20 DEF DivideByZero, ClientDies, ClientExit
<1> QED
  BY <1>1, <1>2, <1>3, <1>4, <1>5, <1>6, <1>7, <1>8, <1>9, <1>10, <1>11, <1>12, <1>13, <1>14,
     <1>15, <1>16, <1>17, <1>18, <1>19, <1>20
  DEF Next, MainStep, IngressStep, EgressStep, ClientStep, RecvStep, SendStep

\* or holds nothing but zeros.
LEMMA EgZeroKept ==
    ASSUME SockInv, Next
    PROVE  EgZero'
<1>0. /\ DataType /\ idx \in Slots /\ Egress /\ Created
      /\ dpc \in Starting => epc = "none"
  BY DEF SockInv, TypeOK, DataType, Threads
<1>a. /\ 0 \in Slots
      /\ \A i \in Slots : NextElement(i) \in Slots /\ NextElement(i) # i
      /\ \A i, j \in Slots : NextElement(i) = NextElement(j) => i = j
  BY NextFacts
<1>b. /\ Era # 0 /\ (~InitClear => Era' = Era)
      /\ InitClear => Overtaken' \/ (boots = 1 /\ Era' = Era)
  BY EraOvertakes
<1>c. dpc # "boot" \/ dpc' # "cleared" => Era' = Era
  BY <1>b DEF InitClear
<1>d. /\ EgWork /\ EgHanded /\ EgCall /\ EgOver /\ EgFresh /\ EgZero
  BY <1>0 DEF Egress
<1> USE DEF EgZero, Working, Sending, Overtaken,
           mainVars, threadVars, daemonVars, pidVars, inVars, egVars, shmVars, appVars, callVars,
           clientVars, histVars
<1>1. CASE InitClear
  BY <1>c, <1>d, <1>1 DEF InitClear
<1>2. CASE InitEgressQ
  BY <1>2, SockAssumption DEF InitEgressQ
<1>3. CASE DaemonBoot \/ Stop \/ SetRunning \/ InitCtrl \/ InitIngressQ
  BY <1>c, <1>d, <1>3 DEF DaemonBoot, DaemonUp, Stop, SetRunning, InitCtrl, InitIngressQ
<1>4. CASE CreateIngress \/ CreateEgress
  BY <1>c, <1>d, <1>4 DEF CreateIngress, CreateEgress
<1>5. CASE JoinIngress \/ JoinEgress \/ IngressRx \/ IngressOther \/ IngressCancel \/
           IngressCheck \/ DgramAlloc \/ DgramFill \/ DgramCommit
  BY <1>c, <1>d, <1>5 DEF JoinIngress, DaemonDies, JoinEgress, IngressRx, IngressOther,
                          IngressCancel, IngressCheck, DgramAlloc, DgramFill, DgramCommit
<1>6. CASE DgramNotify
  BY <1>c, <1>d, <1>6 DEF DgramNotify, ClientSignalled, ClientDies, DaemonDies,
                          Usr2TerminatesDaemon
<1>7. CASE EgressTimeout \/ EgressPeek \/ EgressTest \/ EgressCheck
  BY <1>c, <1>d, <1>7 DEF EgressTimeout, EgressPeek, EgressTest, EgressCheck
<1>8. CASE EgressLook
  BY <1>c, <1>d, <1>8 DEF EgressLook
<1>9. CASE EgressSend
  BY <1>c, <1>d, <1>9 DEF EgressSend
<1>10. CASE EgressDiscard
  BY <1>c, <1>d, <1>10 DEF EgressDiscard
<1>11. CASE ClientStart \/ ListenBlock \/ ListenPublish \/ RecvCall \/ RecvSignalled \/
            RecvTimeout \/ RecvPeek
  BY <1>c, <1>d, <1>11 DEF ClientStart, CallGoesOn, ListenBlock, ListenPublish, RecvCall,
                           RecvSignalled, RecvTimeout, RecvPeek, EraOf
<1>12. CASE RecvPeekTest \/ RecvCopy \/ RecvKeep \/ RecvDiscardModulo \/ RecvDiscard \/
            RecvDiscardTest \/ RecvDiscardStore
  BY <1>c, <1>d, <1>12 DEF RecvPeekTest, CallGoesOn, RecvCopy, RecvKeep, CallEnds,
                           RecvDiscardModulo, RecvDiscard, RecvDiscardTest, RecvDiscardStore
<1>13. CASE SendCall \/ SendAllocModulo \/ SendCommitModulo
  BY <1>c, <1>d, <1>13 DEF SendCall, SendAllocModulo, CallGoesOn, SendCommitModulo
<1>14. CASE SendAlloc
  <2>1. eg_len = 0 /\ eg_wr # 0 => seen' = 0
    BY <1>14 DEF SendAlloc, EraOf
  <2> QED
    BY <1>14, <2>1 DEF SendAlloc, CallGoesOn
<1>15. CASE SendAllocTest
  BY <1>c, <1>d, <1>15 DEF SendAllocTest, CallGoesOn
<1>16. CASE SendFill
  BY <1>c, <1>d, <1>16 DEF SendFill
<1>17. CASE SendCommit
  BY <1>c, <1>d, <1>17 DEF SendCommit, CallGoesOn
<1>18. CASE SendCommitStore
  BY <1>c, <1>d, <1>18 DEF SendCommitStore
<1>19. CASE SendNotify
  BY <1>c, <1>d, <1>19 DEF SendNotify, DaemonDies, Usr2TerminatesDaemon, DaemonUp, CallEnds
<1>20. CASE DivideByZero \/ ClientExit
  BY <1>c, <1>d, <1>20 DEF DivideByZero, ClientDies, ClientExit
<1> QED
  BY <1>1, <1>2, <1>3, <1>4, <1>5, <1>6, <1>7, <1>8, <1>9, <1>10, <1>11, <1>12, <1>13, <1>14,
     <1>15, <1>16, <1>17, <1>18, <1>19, <1>20
  DEF Next, MainStep, IngressStep, EgressStep, ClientStep, RecvStep, SendStep

-----------------------------------------------------------------------------
(* The theorems.                                                           *)

\* The inductive invariant: what the places of main, of the threads and of the
\* application say about the rings, the pids and the eras.
THEOREM SockInvariant == Spec => []SockInv
<1>1. Init => SockInv
  <2> SUFFICES ASSUME Init PROVE SockInv
    OBVIOUS
  <2> USE SockAssumption, NextFacts DEF Init
  <2>1. DaemonType /\ AppType
    BY DEF DaemonType, AppType
  <2>2. FlagType
    BY DEF FlagType
  <2>3. DataType
    BY DEF DataType
  <2>4. Threads /\ Created /\ Attachment
    BY DEF Threads, Created, Untouched, Attachment, Era, Starting, IngressLoop, EgressLoop
  <2>5. Window(0, 0) = {}
    BY WindowFacts
  <2>6. Ingress
    BY <2>5 DEF Ingress, Arrived, InSorted, InOrderRing, InRoom, InCall, Overtaken, InFresh
  <2>7. Egress
    BY <2>5 DEF Egress, EgWork, EgHanded, EgCall, EgOver, EgFresh, EgZero, Overtaken, Working, Sending
  <2> QED
    BY <2>1, <2>2, <2>3, <2>4, <2>6, <2>7, TypeParts DEF SockInv
<1>2. SockInv /\ [Next]_vars => SockInv'
  <2>1. ASSUME SockInv, Next PROVE SockInv'
    <3>1. DaemonType' /\ FlagType' /\ AppType' /\ DataType'
      BY <2>1, DaemonTypeKept, FlagTypeKept, AppTypeKept, DataTypeKept
    <3>2. TypeOK'
      BY <3>1 DEF TypeOK, DaemonType, FlagType, AppType, DataType
    <3>3. Ingress'
      BY <2>1, ArrivedKept, InSortedKept, InRoomKept, InCallKept, InFreshKept DEF Ingress
    <3>4. Egress'
      BY <2>1, EgWorkKept, EgHandedKept, EgCallKept, EgOverKept, EgFreshKept, EgZeroKept DEF Egress
    <3> QED
      BY <2>1, <3>2, <3>3, <3>4, ThreadsKept, CreatedKept, AttachmentKept DEF SockInv
  <2>2. ASSUME SockInv, UNCHANGED vars PROVE SockInv'
    <3> USE <2>2 DEF SockInv, vars, mainVars, threadVars, daemonVars, pidVars, inVars, egVars,
                     shmVars, appVars, callVars, clientVars, histVars
    <3>1. TypeOK'
      BY DEF TypeOK
    <3>2. Threads' /\ Created' /\ Attachment'
      BY DEF Threads, Created, Untouched, Attachment, Era
    <3>3. Overtaken' = Overtaken
      BY DEF Overtaken, Era
    <3>4. Ingress'
      BY <3>3 DEF Ingress, Arrived, InSorted, InOrderRing, InRoom, InCall, Reading, InFresh
    <3>5. Egress'
      BY <3>3 DEF Egress, EgWork, EgHanded, EgCall, Writing, EgOver, EgFresh, EgZero
    <3> QED
      BY <3>1, <3>2, <3>4, <3>5
  <2> QED
    BY <2>1, <2>2
<1> QED
  BY <1>1, <1>2, PTL DEF Spec

\* The variables of the daemon, the file and the application have their types:
\* also an overtaken call never stores an index outside of a ring.
THEOREM SockTypeCorrect == Spec => []TypeOK
<1>1. SockInv => TypeOK
  BY DEF SockInv
<1> QED
  BY <1>1, SockInvariant, PTL

\* xstack_sock_dgram_input signals the application that attached last.
THEOREM AttachedAreNotified == Spec => []AttachedIsNotified
<1>1. SockInv => AttachedIsNotified
  BY DEF SockInv, Attachment, AttachedIsNotified
<1> QED
  BY <1>1, SockInvariant, PTL

\* xstack_state tells whether the threads are in their loops, outside of
\* xstack_start and but for a cancelled ingress thread.
THEOREM StatesTellThreads == Spec => []StateTellsThreads
<1>1. SockInv => StateTellsThreads
  BY DEF SockInv, TypeOK, Threads, StateTellsThreads, InLoop, DaemonUp, Starting, IngressLoop,
         EgressLoop
<1> QED
  BY <1>1, SockInvariant, PTL

\* No notification ends an application: only its own exit does, and a division
\* in xstack_sendto or in the discard of xstack_recvfrom by the a_len of a
\* socket to which it did not attach after xstack_init.
THEOREM ClientsSurvive == Spec => ClientSurvives
<1> DEFINE Ok == cpc # "off" /\ cpc' = "off" =>
                     cdeath' = "exit" \/ (cdeath' = "fpe" /\ (joined = 0 \/ joined # Era))
<1>1. SockInv /\ [Next]_vars => [Ok]_vars
  <2> SUFFICES ASSUME SockInv, Next, cpc # "off", cpc' = "off"
               PROVE  cdeath' = "exit" \/ (cdeath' = "fpe" /\ (joined = 0 \/ joined # Era))
    BY DEF Ok
  <2>1. CASE DgramNotify
    BY <2>1, SockAssumption DEF DgramNotify, ClientSignalled, SockInv, TypeOK, Attachment,
                clientVars, callVars
  <2>2. CASE DivideByZero
    BY <2>2 DEF DivideByZero, ClientDies, SockInv, Attachment, Created
  <2>3. CASE ClientExit
    BY <2>3 DEF ClientExit, ClientDies
  <2>4. CASE DaemonBoot \/ Stop \/ MainStep \/ EgressStep
    BY <2>4 DEF DaemonBoot, Stop, MainStep, InitClear, InitCtrl, InitIngressQ, InitEgressQ,
                CreateIngress, CreateEgress, SetRunning, JoinIngress, JoinEgress, EgressStep,
                EgressTimeout, EgressLook, EgressPeek, EgressSend, EgressTest, EgressDiscard,
                EgressCheck, clientVars, callVars
  <2>5. CASE IngressStep /\ ~DgramNotify
    BY <2>5 DEF IngressStep, IngressRx, IngressOther, IngressCancel, DgramAlloc, DgramFill,
                DgramCommit, IngressCheck, clientVars, callVars
  <2>6. CASE ClientStart \/ (ClientStep /\ ~DivideByZero)
    BY <2>6 DEF ClientStart, ClientStep, ListenBlock, ListenPublish, RecvStep, SendStep, RecvCall,
                RecvSignalled, RecvTimeout, RecvPeek, RecvPeekTest, RecvCopy, RecvKeep, RecvDiscard,
                RecvDiscardTest, RecvDiscardModulo, RecvDiscardStore, SendCall, SendAlloc,
                SendAllocModulo, SendAllocTest, SendFill, SendCommit, SendCommitModulo,
                SendCommitStore, SendNotify, CallGoesOn, CallEnds
  <2> QED
    BY <2>1, <2>2, <2>3, <2>4, <2>5, <2>6 DEF Next
<1> QED
  BY <1>1, SockInvariant, PTL DEF Spec, ClientSurvives

\* Who writes the rings and the history of what was delivered.
LEMMA Writers ==
    ASSUME [Next]_vars
    PROVE  /\ \/ UNCHANGED <<in_rd, in_wr, in_data>>
              \/ InitClear \/ InitIngressQ \/ DgramFill \/ DgramCommit \/ RecvDiscardStore
           /\ \/ UNCHANGED <<eg_rd, eg_wr, eg_data>>
              \/ InitClear \/ InitEgressQ \/ EgressDiscard \/ SendFill \/ SendCommitStore
           /\ delivered' = delivered \/ RecvCopy
<1> USE DEF vars, shmVars, inVars, egVars, histVars
<1>1. CASE DaemonBoot \/ Stop \/ MainStep \/ UNCHANGED vars
  BY <1>1 DEF DaemonBoot, Stop, MainStep, InitClear, InitCtrl, InitIngressQ, InitEgressQ,
              CreateIngress, CreateEgress, SetRunning, JoinIngress, JoinEgress
<1>2. CASE EgressStep
  BY <1>2 DEF EgressStep, EgressTimeout, EgressLook, EgressPeek, EgressSend, EgressTest,
              EgressDiscard, EgressCheck
<1>3. CASE IngressStep
  BY <1>3 DEF IngressStep, IngressRx, IngressOther, IngressCancel, DgramAlloc, DgramFill,
              DgramCommit, DgramNotify, IngressCheck
<1>4. CASE ClientStart \/ ClientExit \/ ListenBlock \/ ListenPublish \/ DivideByZero
  BY <1>4 DEF ClientStart, ClientExit, ListenBlock, ListenPublish, DivideByZero, CallGoesOn
<1>5. CASE RecvStep
  BY <1>5 DEF RecvStep, RecvCall, RecvSignalled, RecvTimeout, RecvPeek, RecvPeekTest, RecvCopy,
              RecvKeep, RecvDiscard, RecvDiscardTest, RecvDiscardModulo, RecvDiscardStore,
              CallGoesOn
<1>6. CASE SendStep
  BY <1>6 DEF SendStep, SendCall, SendAlloc, SendAllocModulo, SendAllocTest, SendFill, SendCommit,
              SendCommitModulo, SendCommitStore, SendNotify, CallGoesOn
<1> QED
  BY <1>1, <1>2, <1>3, <1>4, <1>5, <1>6 DEF Next, ClientStep

\* xstack_recvfrom discards only what it has returned, unless a restart has
\* overtaken the call.
THEOREM NoIngressLoss == Spec => IngressNoLoss
<1> DEFINE Ok == InQueue \ InQueue' \subseteq delivered \/ dpc = "boot" \/ in_stale \/ in_stale'
<1>1. SockInv /\ [Next]_vars => Ok
  <2> SUFFICES ASSUME SockInv, [Next]_vars, ~in_stale, ~in_stale', dpc # "boot"
               PROVE  \A s \in Window(in_rd, in_wr) : in_data[s] \in InQueue' \cup delivered
    BY DEF InQueue, Queued
  <2>1. in_rd \in Slots /\ in_wr \in Slots /\ in_data \in [Slots -> 0..MaxRx]
    BY DEF SockInv, TypeOK
  <2>2. Window(in_rd, in_wr) \subseteq Slots /\ in_wr \notin Window(in_rd, in_wr)
    BY <2>1, WindowFacts
  <2>3. CASE UNCHANGED <<in_rd, in_wr, in_data>>
    BY <2>3 DEF InQueue, Queued
  <2>4. CASE InitIngressQ
    <3>1. in_rd = in_wr
      BY <2>4 DEF InitIngressQ, SockInv, Created, Ingress, InFresh
    <3> QED
      BY <2>1, <3>1, WindowFacts
  <2>5. CASE DgramFill
    BY <2>1, <2>2, <2>5 DEF DgramFill, InQueue, Queued
  <2>6. CASE DgramCommit
    <3>1. in_wr' = NextElement(in_wr) /\ NextElement(in_wr) # in_rd /\ UNCHANGED <<in_rd, in_data>>
      BY <2>6 DEF DgramCommit, SockInv, Ingress, InRoom
    <3>2. Window(in_rd', in_wr') = Window(in_rd, in_wr) \cup {in_wr}
      BY <2>1, <3>1, WindowGrows
    <3> QED
      BY <3>1, <3>2 DEF InQueue, Queued
  <2>7. CASE RecvDiscardStore
    <3>1. ~Overtaken /\ in_wr' = in_wr /\ in_data' = in_data
      BY <2>7 DEF RecvDiscardStore
    <3>2. idx = in_rd /\ in_rd # in_wr /\ in_data[in_rd] \in delivered
      BY <2>7, <3>1 DEF RecvDiscardStore, SockInv, Ingress, InCall, Reading
    <3>3. in_rd' = NextElement(in_rd)
      BY <2>7, <3>2 DEF RecvDiscardStore
    <3>4. Window(in_rd, in_wr) = Window(in_rd', in_wr') \cup {in_rd}
      BY <2>1, <3>1, <3>2, <3>3, WindowShrinks
    <3> QED
      BY <3>1, <3>2, <3>4 DEF InQueue, Queued
  <2> QED
    BY <2>3, <2>4, <2>5, <2>6, <2>7, Writers DEF InitClear
<1> QED
  BY <1>1, SockInvariant, PTL DEF Spec, IngressNoLoss

\* Datagrams are delivered in the order in which xstack_sock_dgram_input queued
\* them.
THEOREM InOrder == Spec => IngressInOrder
<1> DEFINE Ok == ~in_stale => \A n \in delivered' \ delivered :
                     /\ \A m \in delivered : m < n
                     /\ \A m \in InQueue : n <= m
<1>1. SockInv /\ [Next]_vars => Ok
  <2> SUFFICES ASSUME SockInv, [Next]_vars, ~in_stale, NEW n \in delivered' \ delivered
               PROVE  (\A m \in delivered : m < n) /\ (\A m \in InQueue : n <= m)
    OBVIOUS
  <2>1. RecvCopy
    BY Writers
  <2>2. ~Overtaken /\ cpc = "rcopy" /\ n = in_data[idx]
    BY <2>1 DEF RecvCopy
  <2>3. idx = in_rd /\ in_rd # in_wr /\ InOrderRing
    BY <2>2 DEF SockInv, Ingress, InCall, Reading, InSorted
  <2>4. /\ in_rd \in Window(in_rd, in_wr)
        /\ \A s \in Window(in_rd, in_wr) : Dist(in_rd, in_rd) <= Dist(in_rd, s)
    BY <2>3, WindowFacts DEF SockInv, TypeOK
  <2>5. ASSUME NEW m \in delivered PROVE m < n
    <3>1. m <= n /\ m # n
      BY <2>2, <2>3, <2>4 DEF InOrderRing
    <3>2. m \in Int /\ n \in Int
      BY <2>2, <2>3, SockAssumption DEF SockInv, TypeOK
    <3> QED
      BY <3>1, <3>2
  <2>6. ASSUME NEW m \in InQueue PROVE n <= m
    BY <2>2, <2>3, <2>4 DEF InOrderRing, InQueue, Queued
  <2> QED
    BY <2>5, <2>6
<1> QED
  BY <1>1, SockInvariant, PTL DEF Spec, IngressInOrder

\* The egress thread discards only what it has passed to proto_send, and a call
\* of xstack_sendto that a restart overtakes destroys nothing.
THEOREM NoEgressLoss == Spec => EgressNoLoss
<1> DEFINE Ok == (EgQueue \ EgQueue') \ {0} \subseteq handed \/ dpc = "boot"
<1>1. SockInv /\ [Next]_vars => Ok
  <2> SUFFICES ASSUME SockInv, [Next]_vars, dpc # "boot"
               PROVE  \A s \in Window(eg_rd, eg_wr) : eg_data[s] \in EgQueue' \cup handed \cup {0}
    BY DEF EgQueue, Queued
  <2>1. eg_rd \in Slots /\ eg_wr \in Slots /\ idx \in Slots /\ eg_data \in [Slots -> 0..MaxTx]
    BY DEF SockInv, TypeOK
  <2>2. /\ Window(eg_rd, eg_wr) \subseteq Slots /\ eg_wr \notin Window(eg_rd, eg_wr)
        /\ eg_rd = eg_wr => Window(eg_rd, eg_wr) = {}
    BY <2>1, WindowFacts
  <2>3. eg_len = 0 => \A s \in Window(eg_rd, eg_wr) : eg_data[s] = 0
    BY DEF SockInv, Egress, EgFresh
  <2>4. cpc \in Sending /\ Overtaken /\ eg_len # 0 => eg_rd = eg_wr
    BY DEF SockInv, Egress, EgOver
  <2>5. CASE UNCHANGED <<eg_rd, eg_wr, eg_data>>
    BY <2>5 DEF EgQueue, Queued
  <2>6. CASE InitEgressQ
    BY <2>3, <2>6 DEF InitEgressQ, SockInv, Created
  <2>7. CASE EgressDiscard
    <3>1. /\ eg_rd' = NextElement(eg_rd) /\ UNCHANGED <<eg_wr, eg_data>>
          /\ eg_rd # eg_wr /\ eg_data[eg_rd] \in handed
      BY <2>7 DEF EgressDiscard, SockInv, Egress, EgWork, EgHanded, Working
    <3>2. Window(eg_rd, eg_wr) = Window(eg_rd', eg_wr') \cup {eg_rd}
      BY <2>1, <3>1, WindowShrinks
    <3> QED
      BY <3>1, <3>2 DEF EgQueue, Queued
  <2>8. CASE SendFill
    <3>1. UNCHANGED <<eg_rd, eg_wr>> /\ eg_data' = [eg_data EXCEPT ![idx] = txn] /\ cpc = "sfill"
      BY <2>8 DEF SendFill
    <3>2. CASE Overtaken
      BY <2>2, <2>3, <2>4, <3>1, <3>2 DEF Sending
    <3>3. CASE ~Overtaken
      <4>1. idx = eg_wr
        BY <3>1, <3>3 DEF SockInv, Egress, EgCall, Writing, Sending
      <4> QED
        BY <2>1, <2>2, <3>1, <4>1 DEF EgQueue, Queued
    <3> QED
      BY <3>2, <3>3
  <2>9. CASE SendCommitStore
    <3>1. UNCHANGED <<eg_rd, eg_data>> /\ eg_wr' = NextElement(idx) /\ cpc = "cstore"
      BY <2>9 DEF SendCommitStore
    <3>2. CASE Overtaken
      BY <2>2, <2>3, <2>4, <3>1, <3>2 DEF Sending
    <3>3. CASE ~Overtaken
      <4>1. idx = eg_wr /\ NextElement(eg_wr) # eg_rd
        BY <3>1, <3>3 DEF SockInv, Egress, EgCall, Writing, Sending
      <4>2. Window(eg_rd', eg_wr') = Window(eg_rd, eg_wr) \cup {eg_wr}
        BY <2>1, <3>1, <4>1, WindowGrows
      <4> QED
        BY <3>1, <4>2 DEF EgQueue, Queued
    <3> QED
      BY <3>2, <3>3
  <2> QED
    BY <2>5, <2>6, <2>7, <2>8, <2>9, Writers DEF InitClear
<1> QED
  BY <1>1, SockInvariant, PTL DEF Spec, EgressNoLoss
=============================================================================
