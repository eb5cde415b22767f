# Verification of xstack.io

TLA+ models of xstack.io, a user-space IP stack: an `inetd` daemon with one
ingress and one egress thread, and applications that reach it through a
memory-mapped file. TLC checks the models on small instances; TLAPS proves their
safety properties, all but one, for instances of every size.

Paths below are those of the repository; line numbers refer to the commit that
`PROJECT.json` maps.

## 1. The system

| Part | State | Operations | Interaction |
|---|---|---|---|
| `util/queue_r.c` ring | `m_write`, `m_read`, slots | alloc, commit, peek, discard, clear from either end | one pushing and one popping thread, different processes, no lock |
| `src/xstack.c` daemon | `xstack_state`, two threads, sockets | init, start, stop, ingress loop, egress loop, periodic tasks | writes and reads the file; SIGUSR1 stops it; sends and gets SIGUSR2 |
| `lib/xstack.c` application side | its mapping, signal mask | listen, recvfrom, sendto | shares file and signals with the daemon |
| `src/ip_fragment.c` | four buffers, an RB tree | input, timer (never called) | called by `ip_input`, calls it back with a whole packet |
| `src/ip.c` | packet id | input, send, send in fragments | routing, ARP, deferral, protocols |
| `src/ip_defer.c` | ring of packets, `defer_inhibit` | push, handler | pushed by the egress thread, emptied by a periodic task of the ingress thread |
| `src/arp.c` | cache slots, RB tree | insert, lookup, age, input, request | called from both threads |
| `src/ip_route.c` | entries, free list, two RB trees | add, update, remove, find | configuration and lookup |
| `src/tcp.c` | connections in an RB tree | segment input, `tcp_fsm` | called by `ip_input` |
| `src/udp.c`, `src/icmp.c`, `src/ether.c` | tree of sockets; none; none | input, send | the input pipeline |
| `src/linux/linux_ether.c` | raw sockets | receive, send | I/O, with a receive timeout; promiscuous |
| `src/tree.h` | links and colours inside the elements | RB_INSERT, RB_REMOVE, RB_FIND, RB_FOREACH | ARP cache, routing table, sockets, connections, fragment buffers |
| `src/queue.h`, logging | – | – | vendored or without protocol state |

What is hard here: two processes share memory without locks and with signals
that coalesce, get lost or kill; the daemon starts, stops and restarts under
applications that come and go; fragments arrive in any order, twice or never;
buffers, slots and entries are reused with what their last user left; both
threads of the daemon use the ARP cache and the queue of deferred packets
without a lock; promiscuous hosts see, learn from and answer each other's
packets; a TCP peer crashes and comes back with the same ports. The complete
list is `hazards` in `PROJECT.json`, each at its line.

What makes the parts correct: the ring is a bounded FIFO of whole datagrams; the
socket layer loses and reorders nothing while daemon and application live, no
notification kills anybody, every queued datagram moves on, stop returns; a
packet is reassembled from its own fragments only, and always when all of them
arrived, and buffers come back; a packet that `ip_send` reports as sent left
whole, and a deferred one leaves in its turn; an address resolves to what was
learned for it last; the trees hold what the tables hold; the two ends of a TCP
connection agree on its state; answers go to the one who asked and come to an
end.

## 2. Modules

| Module | Models | Notes |
|---|---|---|
| `BoundedFifo` | what a queue promises | abstract specification |
| `QueueR` | `util/queue_r.c` and its use by both ends | refines `BoundedFifo` |
| `XstackSock` | `src/xstack.c`, `lib/xstack.c` | two rings with their indices, one access of a call per step |
| `IpFragment` | `src/ip_fragment.c`, hand-over to `ip_input` | lossy, duplicating, reordering network |
| `IpSend` | `ip_send`, `ip_send_fragments`, `src/ip_defer.c` | both threads on the unsynchronised queue |
| `Tcp` | `src/tcp.c` | clients over a lossy, duplicating, reordering network |
| `RBTree` | the RB macros of `src/tree.h` | operators, pointer by pointer |
| `ArpCache` | the cache of `src/arp.c` | over `RBTree`; aging, lookups and insertions field by field |
| `IpRoute` | `src/ip_route.c` | over `RBTree`; two trees and the free list |
| `IpInput` | `src/ether.c`, `ip_input`, `src/icmp.c`, `src/udp.c`, ARP messages, the driver | several hosts on one network |
| `MC...` | – | one instance for TLC per specification |
| `...Proofs` | – | TLAPS proofs about `QueueR`, `XstackSock`, `IpFragment`, `IpSend`, `Tcp`, `ArpCache`, `IpRoute`, `IpInput` |

Each module ends with its properties. The definitions under "Plausible defects"
are not part of a specification: each is a wrong version of one definition, and
`PROJECT.json` pairs every property with one that breaks it.

### QueueR

`m_write`, `m_read` and `data` are the ring; `ppc`/`pidx` and `cpc`/`cidx` are
the program counter and local index of the pushing and of the popping thread.
A step makes at most one access to memory that the other thread may write, so
the test of `queue_alloc`, the fill and the store of `queue_commit` are separate
steps, as are the test, the copy and the store on the other side and the load
and the store of a clear. A slot being filled holds `Torn`; a copy takes two
steps and is `Torn` if the slot changed between them. Stores become visible in
program order: the code has no barriers, is compiled without optimisation and
runs on x86, whose stores are ordered. `queue_isempty` and `queue_isfull` only
read and have no action. `queue_alloc` on a full ring and `queue_peek` on an
empty one change nothing; their callers repeat the call.

`queue_clear_from_push_end` has a specification of its own, `SpecPushClear`,
because it is unsafe (section 3). The program does not call it.

### XstackSock

One socket. `dpc`, `ipc` and `epc` are where the daemon's main, ingress and
egress threads are; `cpc` is where the application is. `pid_inetd`, `pid_end`,
`in_len`, `in_rd`, `in_wr`, `in_data` and the same with `eg_` are the file:
`a_len`, `m_read`, `m_write` and the slots of the two rings. `a_len` is 0 from
`memset` to `queue_create`. The actions follow the code's order: `xstack_init`
clears the file, stores the control block, creates the ingress ring, then the
egress ring; `xstack_listen` blocks the signal, then publishes the pid; a
notification is a step after the commit it announces.

A step of a call makes one access to the file: the load of an index, the test
against the other one, the copy of a datagram, the load of `a_len` with the
division, and the store are steps of their own, because a restarted daemon may
clear the file between any two of them. So are the ingress thread's alloc, fill
and commit. The `memset` is one step and so is the copy of a datagram: `QueueR`
has the two-step copy. A call that a restart overtakes goes on with the
index it has loaded from the old ring, and stores its successor into the new
one. If it comes to divide by an `a_len` of 0, in the alloc or the commit of
`xstack_sendto` or in the discard of `xstack_recvfrom`, it dies by SIGFPE. `Era`
numbers the clearings, `seen` is the era to which the loaded index belongs, and
`Overtaken` says that it is not the present one. `in_stale` remembers that an
overtaken call has stored the ingress `m_read`: from then until the next
clearing nothing is claimed about the ingress ring.

Signals follow the kernel: SIGUSR2 for the daemon is handled by a thread that
does not block it. Main and the ingress thread do not, so the signal is never
left pending for the egress thread: it terminates the daemon (`usr2 =
"default"`) or is discarded, if the daemon inherited SIG_IGN (`"ignore"`). A
signal for an application is left pending if it is blocked, and pending signals
do not count. Pid 0 is the sender's own process group; daemon and application
are assumed to be in different groups. Pids are not reused.

`pthread_create` may fail (`CreateMayFail`): main ignores the result and later
joins a thread that never was. An application may end at any step. At most one
application is attached at a time, as the ring requires.

Left out: what `ether_input` does with other frames, the periodic tasks, errors
of `open` and `mmap`, which end the process before it shares anything, the
early return of `xstack_sendto` for long messages, addresses and lengths.

### IpFragment

`reserved`, `linked`, `key`, `ip_len`, `fragmap` and `payload` are the buffers.
A fragment is `[pkt, off, len, mf]`, `off` in 8-byte blocks, `len` what `ip_len`
exceeds the header by, which is negative if the header claims to be the longer
one. The payload of a buffer says of every block which packet it came from.
`FragmentInput` is all of `ip_fragment_input` for a fragment that `Fits`; one
that does not is `FragmentOverrun`, which writes behind the buffer and after
which nothing is said. `Refused` is its -EMSGSIZE and -ENOBUFS returns; the
first cannot happen, because an offset has 13 bits (`TooFar`). `FragmapInit`
keeps the upper three quarters of the map: the code clears `FRAG_MAP_SIZE`
bytes, and the map has that many 32-bit words. The tree is a set here, because a
buffer is inserted only when no equal key is found and removed once. `given` in
`PassedOn` is the length that the protocol handler gets. What
`ip_fragment_input` sends after `ip_input` has returned is an ordinary `ip_send`
and is not joined with `IpSend`. Keys of different packets differ.

### IpSend

`eg` is where the egress thread is in `ip_send` and `ip_defer_push`, `ing` where
the ingress thread is in `ip_defer_handler`. A step reads or writes the shared
`q_rd`, `q_wr`, `defer_inhibit` once; the slot is filled in a step before the
commit. Frames carry numbered payload bytes, and `FragmentStep` moves the
payload within its buffer as the code does, so that a wrong source of a
fragment shows. `SendFrames` sends any prefix of the frames that fit: `sendto`
may fail for any of them. The handler runs after each ARP packet, which may
resolve an address, and as a periodic task, after `arp_cache_update` has
forgotten some. Routes change between two events of the ingress thread; nothing
in the repository removes a route at run time, so this allows more than the
program does. `buf_size` of a slot is never set, and a deferred packet therefore
leaves with an empty payload: `popped` records which packet left, not its bytes.

### Tcp

`tcb` is the sequence of control blocks, as they were made. `Cmp` is
`tcp_conn_cmp`, which adds two results of `memcmp`: it takes connections with
the sum 0 for equal, and need not be transitive. `FindConnection` is RB_FIND as
far as the comparison determines it: among connections that it `Orders` it finds
the equal block. Among others, for example three in a circle, a rotation can
bring the tree into a shape in which the search goes another way than the
insertion did: `FindConnection` may then miss a block, whatever the tree, and a
SYN makes a second one.

`Listen`, `SynRcvd`, `Established` and `LastAck` are the cases of `tcp_fsm`:
they rewrite the segment into the reply. A segment carries the run of its sender
as a history: the code does not see it. The peers follow RFC 793 as clients:
they open, answer a SYN|ACK of an earlier run with a reset, send data, close,
and may crash at any time and open the same connection again. Segments are never
removed from the network, so that each may come twice, late or, by never being
taken, not at all. Replies without ACK, which `SYN_RCVD` produces, are discarded
by every client state of RFC 793 and are not kept.

### RBTree

A tree is a record of `root` and of the `link`, `parent` and `color` of its
nodes; the mirrored halves of the macros are one definition with the side as a
parameter. A dereferenced NULL or a loop that does not end sets `fault`. `Cmp`
is the sign of a difference of `Width` bits. `RedBlack` and `SearchTree` state
what insertion and removal promise, the second one in terms of searches; TLC
checks the operations against these two in `IpRoute`, and `IpRouteProofs` proves
them for every tree.

### ArpCache

The slots, zeroed at the start, with the entry that `ip_config` makes. `SlotFor`
is the loop of `arp_cache_insert`. `InsertBegin` is that loop with RB_REMOVE,
`Store` one of the stores into the slot, `InsertEnd` RB_INSERT. The stores may
take effect in any order, and the hardware address is stored and copied in two
parts, four bytes and two. The lookup of the egress thread is five steps: the
call, the result of RB_FIND, the test of the age, and the two parts of the
`memcpy`. RB_FIND is not followed link by link through a tree that changes: a
search that an insertion overlaps finds any slot that has the address by then, a
slot an insertion was at, or none. A search through a tree that is being rotated
could also fail to end or follow a wild link; this is left out. `met` is the
history of the slots that an insertion was at since the lookup may have found
them, `learned` and `rekeyed` are history too. Peers claim any addresses: the
wrapping difference need not order them. A faulty tree ends the behaviour.

### IpRoute

`RouteUpdate` is `ip_route_update` with `ip_route_add`; `RouteRemove` is
`ip_route_remove` with its `memset` of the links. `table` is the history against
which the trees, the free list and the lookups are compared. Callers are assumed
to keep to `Admissible` tables: addresses that the wrapping difference orders,
and one route per interface address.

### IpInput

Each handler is an operator from the packet to its reply and its delivery;
`Receive` is a turn of the ingress thread, with the learning of addresses and
the reply. A station, its hardware address and its IP address have one name, and
sizes are those of the code: padding, checksum trailer, truncation at the buffer
and the double counting in `icmp_generate_dest_unreachable`. A frame reaches any
subset of the other hosts. `Station` is honest about its addresses and pads its
frames as a kernel does, but its headers may claim any length. `After` is the
subtraction of a header from a `size_t`, modulo 2^`SizeBits`: with a header
longer than the packet the length wraps, and what then copies that many bytes
runs `Beyond` every buffer and ends the daemon (`fatal`).

## 3. Runs

| Run | Shows |
|---|---|
| `queue_r` | `RingInv`, `SlotExclusion`, `FifoSpec` on a ring of four slots, the size the daemon uses; discards of up to two, clears from the pop end |
| `queue_r_push_clear` | **violated** `DeliveredWhole`: after `queue_clear_from_push_end` the pusher fills the slot that the popper is copying, which `include/queue_r.h:102` calls safe |
| `sock` | `AttachedIsNotified`, `StateTellsThreads`, `ClientSurvives`, `EgressNoLoss`, `IngressNoLoss`, `IngressInOrder`: an application that sends, or receives, over two runs of the daemon and two of its own, rings of two usable slots |
| `sock_live` | under fairness, every queued datagram reaches `xstack_recvfrom` and `proto_send`, and `xstack_stop` returns unless the attached application is stuck in `xstack_sendto` for ever |
| `fragment` | `OneBufferPerPacket`, `SmallWhole` and `CompleteOrReset` with two buffers, two small and two large packets and one that does not fit |
| `fragment_stale_bits` | **violated** `AllWhole`: bits of the last packet stand for missing fragments |
| `ip_send` | `SentExactlyIfWhole` for every size class and every failing frame; `DeferredInOrder` and, under fairness, `DeferredLeaves` for every interleaving of the two threads |
| `ip_defer_lost` | **violated** `DeferredIsQueued`: `defer_inhibit` stays set after the first `ip_defer_handler`, and `ip_send` returns 0 for packets that are nowhere |
| `tcp` | `HandshakeAgreed`, `AcksOnlySent`, `CloseAgreed`: no stray, repeated or late segment, none of another run or of a confused connection, makes the two ends disagree |
| `arp` | `OneSlotPerAddress`, `ResolvesToLatest`, `LearnedIsFound` with never-linked, expired and taken-over slots, and addresses in a circle; `LookupIsLatest`: a lookup, field by field, between the stores of insertions returns the latest address, and a torn one only if an insertion was at the slot it has found |
| `ip_route` | `TreesHoldUsedEntries`, `NoEntryLeaks`, `LookupsAgree` after every sequence of updates and removals |
| `ip_input` | `CacheTruthful`, `RepliesGoBack`, `DeliveredAsSent`, `OnlyLongHeadersKill` and, under fairness, `Quiet` |

Each violated property quotes, in `findings`, the line of the repository that
promises it.

Properties that end in "unless" name a behaviour of the code that a reader
should know. These, and others that the models contain, are recorded here and
as hazards, without a run of their own:

* The first `xstack_sendto` terminates the daemon unless it inherited SIG_IGN
  for SIGUSR2 (`src/xstack.c:345`), and the datagram is refused in any case,
  because `buf_size` is never stored (`lib/xstack.c:102`).
* An application whose call is overtaken by a restart, or that attached to a
  file not yet initialised, may die by SIGFPE in `xstack_sendto` and in
  `xstack_recvfrom`: both take an index modulo `a_len`, which is 0 between
  `memset` and `queue_create`. If it survives, it stores an index of the old ring
  into the new one. In the ingress ring this repeats or skips datagrams
  (`in_stale`); in the egress ring slots appear that were never committed, but
  no datagram is lost (`EgressNoLoss`).
* With no application attached, or with one stuck in `xstack_sendto`, a full
  ingress ring keeps `xstack_stop` waiting for ever. A datagram that arrives
  before an application attaches makes the daemon signal its own process group.
* A first fragment that comes after the last one resets the length, and the
  packet never completes (`src/ip_fragment.c:165`). A reassembled packet is
  handed over 20 bytes short (`:184`), although the log calls it fully
  reassembled; `Whole` says so. A buffer with a missing fragment is never
  given back, because `ip_fragment_timer` is not a periodic task.
* A fragment is tested for its offset, not for its end (`src/ip_fragment.c:147`),
  and an offset of 13 bits never fails the test: a fragment with a large offset,
  or with a header beyond its end, is copied past the payload, and marked past
  the map, of its buffer. This is a bug (`FragmentOverrun`).
* `src/xstack.c:27` says of XSTACK_STOPPED that the threads are not running.
  Between the first `pthread_create` and `set_state` one or both are, and after a
  failed second `pthread_create` the ingress thread is, cancelled but on its way
  to a cancellation point. `StateTellsThreads` names these two cases.
* `tcp_conn_cmp` is no order (`src/tcp.c:95`): connections may share a control
  block, and one connection may get several.
* `ip_defer_push` takes at most `ETHER_ALEN` (6) bytes: no UDP packet ever fits,
  and `buf_size` is not set in the slot.
* A payload of 1481 to 1500 bytes is neither fragmented nor accepted by
  `ether_send` (`src/ip.c:330`).
* `arp_cache_insert` evicts the youngest dynamic entry, although `config.h:33`
  says the oldest; a peer that claims the host's own address makes the static
  entry dynamic. An expired slot stays linked and is given another address
  there, after which searches may miss entries. A lookup that has found this
  slot returns another host's address, or parts of two. RB_REMOVE of a slot that
  was never linked empties the tree, and all other entries are lost to lookups
  until they are learned again; only the entry stored last is sure to be found
  (`LearnedIsFound`).
* What a host sends is longer than `ip_len` by padding and checksum, and
  `ip_input` compares the two: hosts with this stack drop each other's IP packets,
  except those of full size, whose trailer the receiver cuts off. This is also
  what makes `Quiet` true: with a test for `<=` two hosts would answer each
  other's errors for ever, as the mutant shows.
* `ip_input` does not refuse a header that is longer than `ip_len`
  (`src/ip.c:138`): the length that the handlers get wraps, and the daemon ends
  in a `memcpy` of that length (`OnlyLongHeadersKill`).
* An unreachable-host answer bears the unreachable address as its source and the
  fragment flags of what it answers, and is longer than its `ip_len`.
* A closed control block stays in the map: the same peer can not connect again.

### Bounds

* `queue_r`: four slots is the real size; every relative position of the two
  indices and every wrap-around occurs. Two values suffice to tell a torn or
  misplaced datagram. The proofs remove the bound.
* `sock`: `ALen = 3` gives rings of two, so that a ring is empty, partly filled
  and full, with a third datagram waiting. Two daemons give one restart under an
  attached application; two applications give a stale pid, and a datagram left by
  an application that ended between copy and discard. Three datagrams are sent and
  none received, or four received and none sent, or one of each
  (`OneDirection`, a constraint): the two directions share pids, threads and
  restarts, but no ring. Three datagrams make an index wrap. Nearly three million
  states.
* `sock_live`: one daemon and one application, rings of one datagram so that
  both ends spin. A restart ends the obligation.
* `fragment`: five packets for two buffers, so that buffers run out and are
  reused. One of them has a last fragment that ends beyond the payload and one
  with a header beyond its end. `FragMax = 16` scales the map: the cleared
  quarter is four blocks, small packets lie inside it, large ones have whole
  fragments outside.
* `ip_send`: a link of 24 bytes and a header of 8: payloads of 4 (fits a slot),
  20 (neither fragmented nor accepted) and 27 bytes (four fragments, the last one
  shorter); three slots, so that the queue is full with two packets; three calls.
* `tcp`: three runs of two peers that the comparison takes for equal, three data
  segments, sequence numbers of three bits that wrap within a run. Connections
  that the map tells apart share nothing.
* `arp`: three slots and three addresses in a circle, one of them the host's own:
  free, expired, static and unused slots in every order, and slots taken over
  while their entry is alive, because unused slots look like dynamic ones.
  Lookups are followed while the third slot is unused (`LookupBound`, a
  constraint): the second is then taken over by every other address.
* `ip_route`: addresses of four bits on both sides of 0, six entries and seven
  networks, one of them with a choice of two routes. With six entries every case
  of the two colour loops occurs on either side, the red sibling of
  `RB_REMOVE_COLOR` included, which five do not reach; the seventh network finds
  the free list empty. The entries are interchangeable (`Naming`): `IpRoute`
  compares them with = only.
* `ip_input`: two frames that are not answers. Answers are not bounded; an
  exchange of answers is what `Quiet` is about.

Deadlock checking is off where the bounds on starts, datagrams, packets, runs
or frames let the system come to rest (the runs of `XstackSock`, `IpSend`, `Tcp`
and `IpInput`) and where a faulty tree, an overrun or a crash ends the program
(`fragment`, `arp`, `ip_route`).

### Fairness

`FairSpec` of `XstackSock` assumes weak fairness of main's, the ingress, the
egress and the application's steps: the kernel schedules every thread, the raw
socket has SO_RCVTIMEO, and both `sigtimedwait` calls have a ten-second timeout.
Fairness of the application's step is `examples/unetcat.c`, which receives in an
endless loop. Strong fairness of `RecvDiscard` says that it does not pass
`XSTACK_MSG_PEEK` for ever. Nothing is assumed about starting, stopping or
ending a process, or about frames arriving.

`FairSpec` of `IpSend` assumes weak fairness of the handler's steps and of the
periodic event: the ingress thread is scheduled and its receive call has a
timeout. This presumes that the thread is not held in
`xstack_sock_dgram_input` by a full ingress ring that no application empties,
where nothing periodic runs. The egress thread needs no fairness, because a
queued packet is the handler's.
`FairSpec` of `IpInput` assumes weak fairness of each host's `Receive`.

## 4. Proofs

Every theorem has the form `Spec => []P`, `Spec => [][A]_vars` or, for the
refinement, `Spec => FifoSpec`, and holds for every value of the constants that
meets the assumptions named below. TLC evaluates these assumptions in every run,
and has checked each inductive invariant on the instance of the run before it
was proved; that of `IpRoute` speaks of functions that exist, which TLC cannot
enumerate, and there it has checked what follows from the invariant.

| Module | Theorems |
|---|---|
| `QueueRProofs` | `RingInvariant`, `TypeCorrect`, `SlotsExclusive`, `ReadsWhole`, `RingImplementsFifo` |
| `XstackSockProofs` | `SockInvariant`, `SockTypeCorrect`, `AttachedAreNotified`, `StatesTellThreads`, and the action properties `ClientsSurvive`, `NoIngressLoss`, `InOrder`, `NoEgressLoss` |
| `IpFragmentProofs` | `FragmentTypeCorrect`, `OneBufferEach`, `SmallPacketsWhole`, `CompletesOrWasReset` |
| `IpSendProofs` | `SendTypeCorrect`, `SentAreWhole`, `DeferredLeaveInOrder` |
| `TcpProofs` | `TcpInvariant`, `OrderedInvariant`, `TcpTypeCorrect`, `HandshakesAgree`, `AcknowledgesOnlySent`, `ClosesAgree` |
| `ArpCacheProofs` | `CacheTypeCorrect`, `OneSlotEach`, `LookupsAreLatest`, `LookupsNotOvertaken` |
| `IpRouteProofs` | `RouteTypes`, `RouteTrees`, `RouteEntries`, `RouteLookups` |
| `IpInputProofs` | `InputTypeCorrect`, `CachesTellTheTruth`, `AnswersGoBack`, `SocketsGetWhatWasSent`, `DaemonsSurvive` |

Each module proves one inductive invariant (`...Invariant`), `TcpProofs` two; the
other theorems follow from it.

### Induction

The library's induction theorems take a predicate as a parameter, which the
installed provers cannot instantiate. Two of its theorems do not, and they give
that the naturals under < are well-founded. `LeastNat` restates this for sets:
every non-empty set of naturals has a least element. From it follow `UpTo`
(a *set* that holds 0 and is closed under +1 up to n holds all of 0..n) and
`RunExists` (a loop body, as a function from a set S to S, has a run of any
length). A loop of a model is a recursive function of its turns, that is, a
CHOOSE; `RunExists` shows that the CHOOSE has something to choose, `UpTo` that
the loop's invariant holds in the last turn. The proofs about
`ip_send_fragments` and about the loops of `src/tree.h` are done this way. Each
module states those of these lemmas that it needs, so that it can be read and
checked alone.

### QueueR

Assumption: sizes are positive, and the two marker values differ from each other
and from every datagram (`QueueAssumption`).

`SlotExclusion` and `DeliveredWhole` are not inductive. The invariant adds what
each end relies on between its test of the other end's index and the store of
its own: `PushInv`, the slot being filled is the one at `m_write` and the ring
is not full, whatever the popping thread did since the test (it can only make
room); `PopInv`, the slot being copied is the one at `m_read`, the ring is not
empty, and the part a clear is going to remove only grows behind it;
`WindowInv`, every slot from `m_read` up to `m_write` holds a whole datagram.
Filling touches only the slot at `m_write`, which `DistBasic` shows to lie
outside the window. The modular arithmetic is confined to `NextElementIs` and
four lemmas on distances.

The refinement maps `q` to `Contents` (the window as a sequence), `got` to `got`
and `doomed` to what a clear has loaded. `CommitAppends`, `DiscardDrops` and
`ClearRemoves` show that the three stores append, drop the head and remove the
prefix; a copy is `Look`; every other step stutters.

### XstackSock

Assumption: rings with at least two slots (`SockAssumption`); any number of
daemons, applications and datagrams.

The invariant has five parts beside the types. `Threads` ties main's program
counter to `xstack_state` and to where the two threads may be: this is
`StateTellsThreads` with the steps in between. `Created` says which fields of the
file main has stored, `Attachment` that pids in the file never come from the
future and that an application that attached in the present era has its pid in
the file and two usable rings.

`Ingress` consists of `Arrived` (nothing in a slot is newer than what was
received), `InSorted` (the window is in order, and nothing in it is older than
what was delivered), `InRoom` (the slot the ingress thread fills is outside of
the window), `InCall` (as long as a call is not overtaken, the index it has
loaded is `m_read`, and behind its test the window is not empty) and `InFresh`
(a ring that is not yet in use is empty). They hold until `in_stale`.

`Egress` has no such exception, although overtaken calls store their index there
as well. `EgWork` and `EgHanded` say what the egress thread relies on between its
test and its discard: the window is not empty and its head was handed over.
`EgCall` is `InCall` for the pushing side. What makes it inductive is `EgOver`: a
call that is overtaken finds an egress ring into which nobody else has written
since, because there is one application at a time. Its store of a stale index
then makes slots appear that were never committed, but removes none (`EgFresh`,
`EgZero`).

### IpFragment

Assumptions (`FragmentAssumption`): different packets have different keys; the
last fragments of a packet agree on where it ends; offsets have the bits that the
header gives them, and `ip_input` takes what has offset 0 and no more fragments
to follow for a whole packet. The first is what `ip_id` is for, the second holds
for every sender that splits a packet, also more than once. Lengths are
arbitrary; after an overrun nothing is claimed.

`SmallWhole` speaks of packets that are passed on. The invariant adds
`BufferOf`: a buffer in use has the key of one packet, its length or none, and
every marked block *of the cleared quarter* was written by that packet; it is
not complete. `FragmapInit` establishes it for a reused buffer exactly because
the statement is confined to that quarter. `AllWhole` is the same without it,
and is refuted by a run.

### IpSend

Assumptions (`SendAssumption`): a queue with two slots or more, a frame with
room for a header and nine bytes, a header whose length is a multiple of four,
at least one destination.

`SentExactlyIfWhole` for every size rests on the loop of `ip_send_fragments`.
Its invariant, `LoopStates`: what was sent and what is left add up to the size;
the offset is a multiple of 8 while something is left; the bytes *behind the
offset* are still where they were, although the loop moves the payload within
its own buffer; the frames so far are a `Chain`, each beginning where the one
before ended, and have the right flags. Each turn sends a byte or more, so that
the loop ends within the size.

`DeferredInOrder` needs `Window`: there is a number r of packets that have gone,
the indices are r and the number of pushed packets modulo the size of the queue,
and the slots between hold the packets pushed since. It also says which tries
the handler can have counted, without which the type of `tries` is not kept.

### Tcp

Assumptions (`TcpAssumption`): a sequence number has two bits or more; no two
runs of one peer use the same initial sequence number. Clients choose it by a
clock, for the very reason of telling runs apart. `tcp_conn_cmp` changes its
sign with the order of its arguments (`CmpAssumption`); nothing else is assumed
of it, transitivity in particular. `TcpInvariant`, `TcpTypeCorrect` and
`AcknowledgesOnlySent` hold so, with several control blocks for a connection.
`OrderedInvariant`, `HandshakesAgree` and `ClosesAgree` have `Orders(Conns)` as
a hypothesis: they rest on there being one control block for connections that
the comparison takes for equal. Any two connections are
ordered, and any number of them with one local endpoint.

Nothing is known about a segment but what it says, and none is ever removed. The
invariant therefore says of each kind of segment what it proves about its sender
for ever (`FromPeer`, `FromServer`): a segment with ACK, that its run is the one
that opened the control block and has received the SYN|ACK; a FIN|ACK of the
server, that it has left ESTABLISHED. `PeerKnows` and `TcbKnows` carry this over
to the two ends.

### ArpCache

Assumptions: slots are numbered from 1, and there is one; hosts have addresses
other than 0; the times between periodic events are positive and bounded
(`TreeAssumption`, `ArpAssumption`). Nothing is assumed about the order of the
addresses.

A tree in which an expired slot was given another address is no search tree any
more, so nothing is assumed about its shape. The first part of the module shows,
for *every* value of the links, that rotations, RB_INSERT, RB_REMOVE and their
loops keep links inside the array, and that RB_FIND returns an element with the
key or none. The invariant of the cache is `Fresh`: a slot with an age holds
what was learned last for its address and is at least as old as that; it needs
`OneSlotPerAddress`, because a second slot for the address would be left behind.
`SlotForIs` shows that the loop of `arp_cache_insert` finds the slot that has
the address, also if a free one comes first. While an insertion is under way,
`Fresh` leaves out its slot, and says of each field of it that it has been stored
or is still to be. For a lookup that has found a slot no insertion was at since,
the slot and the part already copied are those of `learned`.

### IpRoute

Assumptions: the array is finite, NULL is none of its elements, an address has a
bit or more (`TreeAssumption`); 2^Width is twice 2^(Width - 1), an arithmetic
fact that the provers do not have (`PowerAssumption`); routes consist of
addresses and a prefix length (`RouteAssumption`). Callers keep to `Admissible`
tables, which is a guard of `RouteUpdate`.

`RedBlack` and `SearchTree` speak of what a search finds and of what is reached
from the root, and are not inductive. The invariant says instead that there are
three functions that describe a tree t of the elements S:

* `rank[n]`, the place of n in the order of the keys (`Ranks`). Two addresses
  are compared by a difference that wraps; `Admissible` makes this an order,
  and everything below compares ranks;
* `w[n]`, the elements at and below n. `Shape` says that w[n] is n with w of its
  two children, that w of the root is S, that children and parents point at each
  other, and that what is on the left of n ranks before it, and on the right after;
* `B[n]`, the number of black elements on every way down from n. `Coloured` says
  that the two children of an element agree on it and that no red element has a
  red child.

`IsTree` is the existence of w and B, `HasTree` also that of rank. `RouteInv`
says that both trees have one with S the entries that are not on the free list,
that the free list has no entry twice, and that the entries in use hold the
routes of `table`.

`Shape` is also what bounds the loops. A turn downwards goes to an element with
fewer elements in w, one upwards to an element with more, so that no loop takes
more turns than the tree has elements. The steps are:

1. *Rotations* (`RotateIs`, `RotateShape`): the assignments of RB_ROTATE give
   one tree, described without their order, in which w changes for two elements.
2. *Searches*: the invariant of the descent is that the element with the key, if
   there is one, is below the cursor; that of RB_NEXT, that everything between
   the element and the next one is below the cursor; that of RB_FOREACH, that no
   element of the set it looks for has been passed.
3. *RB_INSERT*: the new leaf goes where the descent ended, which is its place in
   the order (`LeafShape`). The colour loop keeps `Pending`: all counts are right,
   and one red element may have a red parent; the pair moves up, or two rotations
   end it.
4. *RB_REMOVE*: after the assignments that take the element out, the tree `Lacks`
   one black element on one side of one element. The colour loop keeps this and
   moves it up or ends; the four cases of the sibling are four lemmas. If the
   element had two children, its successor takes its place, which renames an
   element of the tree (`SettleIs`, `RenamedShape`).
5. *What the properties say*: the turns of `Linked` and `Above` reach exactly S
   and the elements that have n below them (`LinkedTurn`, `AboveIs`), which gives
   `RedBlack` and `SearchTree`.
6. *The table*: the free list is taken from and given to at its head; the keys of
   an entry that is in no tree may change; `ip_route_update` changes keys only
   between the removal and the insertion.

### IpInput

Assumptions (`InputAssumption`, `StationAssumption`): the station that is not
modelled sends frames with its own addresses, with headers of any length; the
hosts' datagrams need no fragments; a `size_t` counts more than two frames.

The invariant says of every frame on its way that it is `Sound`: an ARP message
names its sender, and an IP packet that would be *accepted* bears its sender's
address. An unreachable-host answer does not, and it is the test of the length
that keeps it from being accepted.

### Only model-checked

* Liveness (`IngressDelivered`, `EgressHanded`, `StopUnlessSendto`,
  `DeferredLeaves`, `Quiet`): out of the prover's reach, as is ENABLED.
* `LearnedIsFound`. The lemmas of `IpRouteProofs` do not apply to the tree of the
  ARP cache: `arp_cache_insert` also removes slots that were never linked, which
  sets the root to NULL and leaves the links of the other slots as they were. What
  is below the root may then have parents, and slots outside it children, that are
  not answered, `Shape` is no invariant, and what replaces it is not known.

## 5. Not modelled, and the plan

Not modelled: `arp_cache_remove`, which nothing calls (it would remove NULL for
an unknown address); `ip_fragment_timer`, which nothing calls; `xstack_udp_bind`,
which runs before the threads start and appears as `OpenPorts`; `ip_config` other
than as initial states; opening the raw socket and its ioctls; checksums, byte
order and the frame check sequence; the id of a packet; logging and dynamic
debug; the lists of `queue.h` other than the free list; address formatting,
tools and examples. `IpFragment`, `IpSend` and `XstackSock` are not composed
with `IpInput`: each is checked against everything its neighbours may do to it.

Left to do: an invariant of the ARP cache's tree that allows for slots outside it
with stale links, from which `LearnedIsFound` would follow; a timer for
`IpFragment`, should the program come to call `ip_fragment_timer`; RB_FIND of the
ARP cache link by link against rotations; the map of control blocks pointer by
pointer, with connections that `tcp_conn_cmp` puts in a circle; the
composition of `IpFragment` with `XstackSock`, for the length of a reassembled
datagram.
