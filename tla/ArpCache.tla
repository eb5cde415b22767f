------------------------------ MODULE ArpCache ------------------------------
(***************************************************************************)
(* The ARP cache (src/arp.c) at the level of its pointers: an array of     *)
(* slots, all zero when the program starts, and a red-black tree of them.  *)
(* The ingress thread learns addresses and ages the slots; the egress      *)
(* thread looks addresses up without a lock.  A step makes one access to   *)
(* a field of a slot: an address of six bytes is copied in two parts, and  *)
(* the stores of arp_cache_insert between its operations on the tree may   *)
(* take effect in any order.  A search that an insertion overlaps finds    *)
(* any slot that has the address by then, or none.                         *)
(***************************************************************************)
EXTENDS RBTree

CONSTANTS Own, OwnMac,  \* the address given to ip_config, and its interface's
          Hosts,        \* the addresses that peers claim
          Macs,         \* the hardware addresses they claim them for
          NoMac,        \* a hardware address of zeros
          Wanted,       \* the addresses the egress thread looks up
          AgeMax,       \* ARP_CACHE_AGE_MAX
          Deltas        \* the times that pass between two periodic events

ASSUME ArpAssumption ==
    /\ Nodes = 1..Size /\ 1 \in Nodes /\ Null = 0
    /\ Hosts \subseteq Addresses \ {0} /\ Own \in Hosts /\ Wanted \subseteq Hosts
    /\ OwnMac \in Macs /\ NoMac \notin Macs
    /\ AgeMax \in Nat /\ Deltas \subseteq Nat \ {0}
    /\ \E d \in Deltas : \A c \in Deltas : c <= d

FREE   == -2    \* ARP_CACHE_FREE
STATIC == -1    \* ARP_CACHE_STATIC
DYN    == 0     \* ARP_CACHE_DYN

VARIABLES
    ip_addr,                \* the fields of the slots: the address,
    first, last,            \* the first four bytes and the last two of haddr,
    age,
    tree,                   \* arp_cache_head and the links of the slots
    ing,                    \* arp_cache_insert of the ingress thread: the entry,
                            \* its arguments and the fields still to be stored
    lookup,                 \* arp_cache_get_haddr of the egress thread: its argument,
                            \* the entry, the part that is copied, and which of
                            \* the slots it may find an insertion was at since
    learned,                \* history: the last hardware address learned for an
                            \* address, and the time since
    rekeyed                 \* history: a slot in the tree was given another address

slots == <<ip_addr, first, last, age>>
vars  == <<slots, tree, ing, lookup, learned, rekeyed>>

SlotFields == {"ip_addr", "first", "last", "age"}
NoInsert  == [slot |-> Null, addr |-> 0, mac |-> NoMac, todo |-> {}]
NoLookup  == [pc |-> "idle", addr |-> 0, slot |-> Null, part |-> NoMac, met |-> {}]
MaxDelta  == CHOOSE d \in Deltas : \A c \in Deltas : c <= d
Longest   == AgeMax + MaxDelta      \* the largest age of a slot
Forgotten == Longest + 1            \* longer ago than that

-----------------------------------------------------------------------------
(* Plausible defects of the operations below, for mutation of the model.   *)

SlotForNoMatch(a) ==
    LET free == {s \in Nodes : age[s] = FREE}
        from == {s \in Nodes : \E r \in 1..s : age[r] >= 0}
    IN  IF free # {} THEN CHOOSE s \in free : \A r \in free : r <= s
        ELSE CHOOSE s \in from : \A r \in from : age[s] < age[r] \/ (age[s] = age[r] /\ s <= r)

StoresAgeOfKnown(s, a) == IF ip_addr[s] = a THEN {"age"} ELSE SlotFields

InsertEndNoLink ==
    /\ ing # NoInsert /\ ing.todo = {}
    /\ ing' = NoInsert
    /\ UNCHANGED <<slots, tree, lookup, learned, rekeyed>>

CacheUpdateNoExpiry(delta) ==
    /\ ~tree.fault /\ ing = NoInsert
    /\ age' = [s \in Nodes |-> IF age[s] >= 0 THEN age[s] + delta ELSE age[s]]
    /\ learned' = [a \in Hosts |-> [learned[a] EXCEPT !.ago =
                       IF @ + delta > Longest THEN Forgotten ELSE @ + delta]]
    /\ UNCHANGED <<ip_addr, first, last, tree, ing, lookup, rekeyed>>

-----------------------------------------------------------------------------
(* The ingress thread.                                                     *)

\* The slot arp_cache_insert uses for address a: the one that has the address;
\* otherwise the last free one; otherwise, from the first dynamic slot on, the
\* first with the smallest age; none if all are static.
SlotFor(a) ==
    LET same == {s \in Nodes : ip_addr[s] = a}
        free == {s \in Nodes : age[s] = FREE}
        from == {s \in Nodes : \E r \in 1..s : age[r] >= 0}
    IN  IF same # {} THEN CHOOSE s \in same : \A r \in same : s <= r
        ELSE IF free # {} THEN CHOOSE s \in free : \A r \in free : r <= s
        ELSE IF from = {} THEN Null
        ELSE CHOOSE s \in from : \A r \in from : age[s] < age[r] \/ (age[s] = age[r] /\ s <= r)

\* The zeroed array, and the static entry of ip_config.
Init ==
    /\ ip_addr = [s \in Nodes |-> IF s = 1 THEN Own ELSE 0]
    /\ first = [s \in Nodes |-> IF s = 1 THEN OwnMac ELSE NoMac]
    /\ last = [s \in Nodes |-> IF s = 1 THEN OwnMac ELSE NoMac]
    /\ age = [s \in Nodes |-> IF s = 1 THEN STATIC ELSE DYN]
    /\ tree = Insert(Remove(EmptyTree, 1), [s \in Nodes |-> IF s = 1 THEN Own ELSE 0], 1)
    /\ ing = NoInsert /\ lookup = NoLookup
    /\ learned = [a \in Hosts |-> [mac |-> IF a = Own THEN OwnMac ELSE NoMac, ago |-> Forgotten]]
    /\ rekeyed = FALSE

\* The fields that arp_cache_insert stores into slot s.
Stores(s, a) == SlotFields

\* A lookup has found slot s, or may do so.
Watched(s) == lookup.pc = "search" \/ (lookup # NoLookup /\ lookup.slot = s)

\* arp_input or ip_input has heard from a host: arp_cache_insert up to its
\* stores.  A slot with an age is taken out of the tree, linked or not; a free
\* or a static one is left where it is.
InsertBegin(a, mac) ==
    LET s == SlotFor(a)
        t == IF age[s] >= 0 THEN Remove(tree, s) ELSE tree
    IN  /\ ~tree.fault /\ ing = NoInsert
        /\ learned' = [learned EXCEPT ![a] = [mac |-> mac, ago |-> 0]]
        /\ IF s = Null THEN UNCHANGED <<tree, ing, lookup, rekeyed>>
           ELSE /\ tree' = t
                /\ ing' = [slot |-> s, addr |-> a, mac |-> mac, todo |-> Stores(s, a)]
                /\ lookup' = IF Watched(s) THEN [lookup EXCEPT !.met = @ \cup {s}] ELSE lookup
                /\ rekeyed' = (rekeyed \/ (s \in Linked(t) /\ ip_addr[s] # a))
        /\ UNCHANGED slots

\* One of the stores.
Store(f) ==
    /\ ~tree.fault /\ f \in ing.todo
    /\ ing' = [ing EXCEPT !.todo = @ \ {f}]
    /\ ip_addr' = IF f = "ip_addr" THEN [ip_addr EXCEPT ![ing.slot] = ing.addr] ELSE ip_addr
    /\ first' = IF f = "first" THEN [first EXCEPT ![ing.slot] = ing.mac] ELSE first
    /\ last' = IF f = "last" THEN [last EXCEPT ![ing.slot] = ing.mac] ELSE last
    /\ age' = IF f = "age" THEN [age EXCEPT ![ing.slot] = DYN] ELSE age
    /\ UNCHANGED <<tree, lookup, learned, rekeyed>>

\* RB_INSERT, and the return.
InsertEnd ==
    /\ ~tree.fault /\ ing # NoInsert /\ ing.todo = {}
    /\ tree' = Insert(tree, ip_addr, ing.slot)
    /\ ing' = NoInsert
    /\ UNCHANGED <<slots, lookup, learned, rekeyed>>

\* arp_cache_update: an expired slot is free, and stays in the tree.
CacheUpdate(delta) ==
    /\ ~tree.fault /\ ing = NoInsert
    /\ age' = [s \in Nodes |-> IF age[s] > AgeMax THEN FREE
                               ELSE IF age[s] >= 0 THEN age[s] + delta ELSE age[s]]
    /\ learned' = [a \in Hosts |-> [learned[a] EXCEPT !.ago =
                       IF @ + delta > Longest THEN Forgotten ELSE @ + delta]]
    /\ UNCHANGED <<ip_addr, first, last, tree, ing, lookup, rekeyed>>

-----------------------------------------------------------------------------
(* arp_cache_get_haddr in the egress thread.                               *)

\* arp_cache_get_entry, if nothing changes the tree.
GetEntry(a) == Find(tree, ip_addr, a)

\* The condition of arp_cache_get_haddr on the slot it has found.
Resolves(s) == s # Null /\ age[s] >= 0

LookupBegin(a) ==
    /\ ~tree.fault /\ lookup = NoLookup
    /\ lookup' = [NoLookup EXCEPT !.pc = "search", !.addr = a, !.met = {ing.slot} \ {Null}]
    /\ UNCHANGED <<slots, tree, ing, learned, rekeyed>>

\* RB_FIND returns a slot whose address it has compared.
Findable(a, met) ==
    IF met = {} THEN {GetEntry(a)} ELSE {s \in Nodes : ip_addr[s] = a} \cup met \cup {Null}
LookupFound ==
    /\ ~tree.fault /\ lookup.pc = "search"
    /\ \E s \in Findable(lookup.addr, lookup.met) :
           lookup' = [lookup EXCEPT !.slot = s, !.pc = "found", !.met = @ \cap {s}]
    /\ UNCHANGED <<slots, tree, ing, learned, rekeyed>>

\* The test of the age; if it fails, an ARP request is sent.
LookupTest ==
    /\ ~tree.fault /\ lookup.pc = "found"
    /\ lookup' = IF Resolves(lookup.slot) THEN [lookup EXCEPT !.pc = "copy"] ELSE NoLookup
    /\ UNCHANGED <<slots, tree, ing, learned, rekeyed>>

\* The first part of the memcpy,
LookupCopy ==
    /\ ~tree.fault /\ lookup.pc = "copy"
    /\ lookup' = [lookup EXCEPT !.part = first[lookup.slot], !.pc = "return"]
    /\ UNCHANGED <<slots, tree, ing, learned, rekeyed>>

\* and the other, with the return.
LookupEnd ==
    /\ ~tree.fault /\ lookup.pc = "return"
    /\ lookup' = NoLookup
    /\ UNCHANGED <<slots, tree, ing, learned, rekeyed>>

Next ==
    \/ \E a \in Hosts, mac \in Macs : InsertBegin(a, mac)
    \/ \E f \in SlotFields : Store(f)
    \/ InsertEnd
    \/ \E delta \in Deltas : CacheUpdate(delta)
    \/ \E a \in Wanted : LookupBegin(a)
    \/ LookupFound \/ LookupTest \/ LookupCopy \/ LookupEnd

Spec == Init /\ [][Next]_vars

-----------------------------------------------------------------------------
(* Properties.                                                             *)

TypeOK ==
    /\ ip_addr \in [Nodes -> Hosts \cup {0}]
    /\ first \in [Nodes -> Macs \cup {NoMac}] /\ last \in [Nodes -> Macs \cup {NoMac}]
    /\ age \in [Nodes -> FREE .. Longest]
    /\ tree.root \in Nodes \cup {Null}
    /\ ing.slot \in Nodes \cup {Null} /\ lookup.slot \in Nodes \cup {Null}

\* arp_cache_insert never gives an address a second slot, also when it has
\* passed a free one before it comes to the address, and in whatever order its
\* stores take effect.
OneSlotPerAddress == \A r, s \in Nodes : ip_addr[r] = ip_addr[s] /\ ip_addr[r] # 0 => r = s

\* Between insertions a lookup resolves an address to the hardware address
\* that was learned for it last, and not longer ago than an age can say: also
\* when the tree still holds slots that have expired, or has been damaged.
ResolvesToLatest ==
    ~tree.fault /\ ing = NoInsert => \A a \in Hosts :
        LET s == GetEntry(a)
        IN  Resolves(s) => /\ first[s] = learned[a].mac /\ last[s] = learned[a].mac
                           /\ learned[a].ago <= Longest

\* What a lookup of the egress thread returns is the latest hardware address,
\* and no mixture of two, unless an insertion was at the very slot it has found
\* at some time since the lookup began: insertions at other slots move the slot
\* in the tree, and the slot may expire before it is read, but neither changes
\* what it holds.
LookupIsLatest ==
    lookup.pc = "return" /\ lookup.slot \notin lookup.met
        => /\ lookup.part = learned[lookup.addr].mac
           /\ last[lookup.slot] = learned[lookup.addr].mac

\* An address that arp_cache_insert has just stored is found in the tree, as
\* ip_defer_handler counts on, until a slot in the tree is first given to
\* another address (a slot expires without leaving the tree).
LearnedIsFound ==
    [][ing # NoInsert /\ ing' = NoInsert /\ ~rekeyed' /\ ~tree'.fault
         => Find(tree', ip_addr', ing.addr) # Null]_vars
=============================================================================
