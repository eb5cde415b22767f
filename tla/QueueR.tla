------------------------------- MODULE QueueR -------------------------------
(***************************************************************************)
(* The shared-memory ring of util/queue_r.c, used by one pushing and one   *)
(* popping thread that run concurrently, in different processes and        *)
(* without a lock (src/xstack.c and lib/xstack.c).                         *)
(*                                                                         *)
(* A step is at most one access to memory that the other end may write:    *)
(* queue_alloc loads m_read, queue_peek and queue_discard load m_write,    *)
(* the stores of m_write and m_read are steps of their own, and filling or *)
(* copying the slot between alloc and commit, or peek and discard, takes   *)
(* two steps, so that the other end can run in the middle of either.       *)
(* Byte offsets (index * b_size) are slot numbers here.                    *)
(***************************************************************************)
EXTENDS Integers, Sequences

CONSTANTS ALen,       \* a_len: array_size / block_size
          Values,     \* datagrams
          Torn,       \* content of a slot that is not one whole datagram
          NoValue,    \* the reader has copied nothing yet
          MaxDiscard  \* bound on the n of queue_discard(cb, n)

ASSUME QueueAssumption ==
    /\ ALen \in Nat \ {0}
    /\ MaxDiscard \in Nat \ {0}
    /\ Torn \notin Values
    /\ NoValue \notin Values \cup {Torn}

Slots == 0 .. ALen - 1

VARIABLES
    m_write, m_read,  \* struct queue_cb
    data,             \* the slots of the data area
    ppc, pidx,        \* pushing thread: where it is, its local index
    cpc, cidx,        \* popping thread: where it is, its local index
    left,             \* iterations left in queue_discard
    got               \* what the popping thread copied out last

pushVars == <<ppc, pidx>>
popVars  == <<cpc, cidx, left, got>>
vars     == <<m_write, m_read, data, pushVars, popVars>>

\* (index + 1) % cb->a_len
NextElement(i) == (i + 1) % ALen

\* queue_create; the data area is zeroed, which is no datagram.
Init ==
    /\ m_write = 0 /\ m_read = 0
    /\ data = [s \in Slots |-> Torn]
    /\ ppc = "idle" /\ pidx = 0
    /\ cpc = "idle" /\ cidx = 0
    /\ left = 0
    /\ got = NoValue

-----------------------------------------------------------------------------
(* Plausible defects of the operations below, for mutation of the model.   *)

QueueAllocNoFullCheck ==
    /\ ppc = "idle"
    /\ pidx' = m_write
    /\ ppc' = "allocated"
    /\ UNCHANGED <<m_write, m_read, data, popVars>>

QueueCommitBeforeFill ==
    /\ ppc = "allocated"
    /\ m_write' = NextElement(m_write)
    /\ ppc' = "idle"
    /\ UNCHANGED <<m_read, data, pidx, popVars>>

ClearFromPopEndTwice ==
    /\ cpc = "clearing"
    /\ m_read' = m_write
    /\ cpc' = "idle"
    /\ UNCHANGED <<m_write, data, pushVars, cidx, left, got>>

-----------------------------------------------------------------------------
(* The pushing thread.                                                     *)

\* queue_alloc succeeds.  While the ring is full it returns -1 and its
\* callers call it again: the thread spins, which changes nothing.
QueueAlloc ==
    /\ ppc = "idle"
    /\ NextElement(m_write) # m_read
    /\ pidx' = m_write
    /\ ppc' = "allocated"
    /\ UNCHANGED <<m_write, m_read, data, popVars>>

\* The caller starts to write the allocated slot ...
FillBegin ==
    /\ ppc = "allocated"
    /\ data' = [data EXCEPT ![pidx] = Torn]
    /\ ppc' = "filling"
    /\ UNCHANGED <<m_write, m_read, pidx, popVars>>

\* ... and has written all of it.
FillEnd(v) ==
    /\ ppc = "filling"
    /\ data' = [data EXCEPT ![pidx] = v]
    /\ ppc' = "filled"
    /\ UNCHANGED <<m_write, m_read, pidx, popVars>>

QueueCommit ==
    /\ ppc = "filled"
    /\ m_write' = NextElement(m_write)
    /\ ppc' = "idle"
    /\ UNCHANGED <<m_read, data, pidx, popVars>>

-----------------------------------------------------------------------------
(* The popping thread.                                                     *)

\* queue_peek succeeds; on an empty ring it returns 0 and changes nothing.
QueuePeek ==
    /\ cpc = "idle"
    /\ m_read # m_write
    /\ cidx' = m_read
    /\ cpc' = "peeked"
    /\ UNCHANGED <<m_write, m_read, data, pushVars, left, got>>

\* The caller starts to copy the slot out ...
CopyBegin ==
    /\ cpc = "peeked"
    /\ got' = data[cidx]
    /\ cpc' = "copying"
    /\ UNCHANGED <<m_write, m_read, data, pushVars, cidx, left>>

\* ... and is done; if the slot changed meanwhile it holds parts of both.
CopyEnd ==
    /\ cpc = "copying"
    /\ got' = IF data[cidx] = got THEN got ELSE Torn
    /\ cpc' = "copied"
    /\ UNCHANGED <<m_write, m_read, data, pushVars, cidx, left>>

\* A reader with XSTACK_MSG_PEEK does not discard.
KeepElement ==
    /\ cpc = "copied"
    /\ cpc' = "idle"
    /\ UNCHANGED <<m_write, m_read, data, pushVars, cidx, left, got>>

\* queue_discard(cb, n) is called ...
QueueDiscard(n) ==
    /\ cpc \in {"idle", "copied"}
    /\ left' = n
    /\ cpc' = "discard"
    /\ UNCHANGED <<m_write, m_read, data, pushVars, cidx, got>>

\* ... and its loop ends after n elements or when the ring is empty ...
DiscardReturn ==
    /\ cpc = "discard"
    /\ left = 0 \/ m_read = m_write
    /\ left' = 0
    /\ cpc' = "idle"
    /\ UNCHANGED <<m_write, m_read, data, pushVars, cidx, got>>

\* ... otherwise the test passes ...
DiscardTest ==
    /\ cpc = "discard"
    /\ left > 0 /\ m_read # m_write
    /\ cpc' = "advance"
    /\ UNCHANGED <<m_write, m_read, data, pushVars, cidx, left, got>>

\* ... and the read index is stored.
DiscardAdvance ==
    /\ cpc = "advance"
    /\ m_read' = NextElement(m_read)
    /\ left' = left - 1
    /\ cpc' = "discard"
    /\ UNCHANGED <<m_write, data, pushVars, cidx, got>>

\* queue_clear_from_pop_end: m_write is loaded ...
ClearFromPopEndLoad ==
    /\ cpc = "idle"
    /\ cidx' = m_write
    /\ cpc' = "clearing"
    /\ UNCHANGED <<m_write, m_read, data, pushVars, left, got>>

\* ... and stored to m_read.
ClearFromPopEndStore ==
    /\ cpc = "clearing"
    /\ m_read' = cidx
    /\ cpc' = "idle"
    /\ UNCHANGED <<m_write, data, pushVars, cidx, left, got>>

-----------------------------------------------------------------------------
Push ==
    \/ QueueAlloc
    \/ FillBegin
    \/ \E v \in Values : FillEnd(v)
    \/ QueueCommit

Pop ==
    \/ QueuePeek
    \/ CopyBegin
    \/ CopyEnd
    \/ KeepElement
    \/ \E n \in 1..MaxDiscard : QueueDiscard(n)
    \/ DiscardReturn
    \/ DiscardTest
    \/ DiscardAdvance
    \/ ClearFromPopEndLoad
    \/ ClearFromPopEndStore

Next == Push \/ Pop

Spec == Init /\ [][Next]_vars

-----------------------------------------------------------------------------
(* queue_clear_from_push_end is the one operation that lets the pushing    *)
(* thread move m_write backwards.  It has a specification of its own.      *)

ClearFromPushEndLoad ==
    /\ ppc = "idle"
    /\ pidx' = m_read
    /\ ppc' = "clearing"
    /\ UNCHANGED <<m_write, m_read, data, popVars>>

ClearFromPushEndStore ==
    /\ ppc = "clearing"
    /\ m_write' = pidx
    /\ ppc' = "idle"
    /\ UNCHANGED <<m_read, data, pidx, popVars>>

NextPushClear == Next \/ ClearFromPushEndLoad \/ ClearFromPushEndStore

SpecPushClear == Init /\ [][NextPushClear]_vars

-----------------------------------------------------------------------------
(* The ring as a queue.                                                    *)

\* Steps from slot r forward to slot w.
Dist(r, w) == IF w >= r THEN w - r ELSE w - r + ALen

\* The slot i steps after slot r.
SlotAfter(r, i) == IF r + i < ALen THEN r + i ELSE r + i - ALen

\* The queued datagrams, the oldest first.
Contents == [i \in 1..Dist(m_read, m_write) |-> data[SlotAfter(m_read, i - 1)]]

\* The pushing thread owns the slot it has allocated and not yet committed.
Filling == ppc \in {"allocated", "filling", "filled"}

\* The popping thread uses the slot it has peeked and not yet copied.
Copying == cpc \in {"peeked", "copying"}

TypeOK ==
    /\ m_write \in Slots /\ m_read \in Slots
    /\ data \in [Slots -> Values \cup {Torn}]
    /\ ppc \in {"idle", "allocated", "filling", "filled", "clearing"}
    /\ pidx \in Slots
    /\ cpc \in {"idle", "peeked", "copying", "copied", "discard", "advance", "clearing"}
    /\ cidx \in Slots
    /\ left \in 0..MaxDiscard
    /\ got \in Values \cup {Torn, NoValue}

\* The pushing thread never writes the slot the popping thread is reading:
\* queue_alloc's full test and queue_peek's empty test, each made once and
\* acted on later, keep the two ends apart without a lock.
SlotExclusion == Filling /\ Copying => pidx # cidx

\* Whatever xstack_recvfrom or the egress thread copies out of a slot is one
\* whole datagram that was committed: never zeroed memory, never a slot that
\* is half written or changes during the copy.
DeliveredWhole == got # Torn

\* Elements that a clear between its load and its store is going to remove.
Doomed == IF cpc = "clearing" THEN Dist(m_read, cidx) ELSE -1

Fifo == INSTANCE BoundedFifo WITH
            Elements  <- Values,
            NoElement <- NoValue,
            Capacity  <- ALen - 1,
            q         <- Contents,
            got       <- got,
            doomed    <- Doomed

\* The ring implements the bounded FIFO: commits append, discards remove the
\* oldest, peeked data is the oldest, and a clear from the pop end removes
\* exactly what was queued when it loaded m_write.
FifoSpec == Fifo!Spec

(***************************************************************************)
(* The inductive invariant behind all three.                               *)
(***************************************************************************)
PushInv ==
    /\ Filling => pidx = m_write /\ NextElement(m_write) # m_read
    /\ ppc = "filled" => data[m_write] \in Values
    /\ ppc # "clearing"

PopInv ==
    /\ cpc \in {"peeked", "copying", "copied"} => cidx = m_read
    /\ cpc \in {"peeked", "copying", "copied", "advance"} => m_read # m_write
    /\ cpc \in {"copying", "copied"} => got = data[cidx]
    /\ cpc = "advance" => left > 0
    /\ cpc = "clearing" => Dist(m_read, cidx) <= Dist(m_read, m_write)

\* Every slot from m_read up to m_write holds a whole datagram.
WindowInv ==
    \A i \in 0 .. ALen - 1 :
        i < Dist(m_read, m_write) => data[SlotAfter(m_read, i)] \in Values

\* TypeOK, the three parts above and DeliveredWhole form one inductive
\* invariant of the ring: the facts each end relies on between its test of
\* the other end's index and the store of its own.
RingInv == TypeOK /\ PushInv /\ PopInv /\ WindowInv /\ DeliveredWhole
=============================================================================
