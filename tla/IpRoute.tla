------------------------------- MODULE IpRoute -------------------------------
(***************************************************************************)
(* The routing table (src/ip_route.c): an array of entries, a free list,   *)
(* a tree ordered by network and a tree ordered by the address of the      *)
(* interface.  A netmask is the length of its prefix.                      *)
(*                                                                         *)
(* An operation on a tree that meets NULL, or the free list when it is     *)
(* empty, ends the program.  The callers are assumed to keep to tables     *)
(* that the two comparisons can order (see Admissible); ip_config, the     *)
(* one caller in the repository, adds a single route.                      *)
(***************************************************************************)
EXTENDS RBTree, Sequences

CONSTANTS Routes    \* the routes of the calls: [network, netmask, iface]

ASSUME RouteAssumption ==
    Routes \subseteq [network : Addresses, netmask : 0..Width, iface : Addresses]

NoRoute == [network |-> 0, netmask |-> 0, iface |-> 0]

VARIABLES
    rib,        \* the routes of the entries
    rtree,      \* rib_routetree
    stree,      \* rib_sourcetree
    freelist,   \* rib_freelist
    crashed,    \* the program has dereferenced NULL
    table       \* history: the routes that were added and not removed since

vars == <<rib, rtree, stree, freelist, crashed, table>>

NetworkKey(r) == [e \in Nodes |-> r[e].network]
IfaceKey(r)   == [e \in Nodes |-> r[e].iface]

\* addr & netmask
Masked(a, netmask) == a - (a % 2^(Width - netmask))

\* ip_route_init: the entries are named in any order.
Init ==
    /\ rib = [e \in Nodes |-> NoRoute]
    /\ rtree = EmptyTree /\ stree = EmptyTree
    /\ freelist \in {f \in [1..Size -> Nodes] : \A i, j \in 1..Size : f[i] = f[j] => i = j}
    /\ crashed = FALSE
    /\ table = {}

-----------------------------------------------------------------------------
(* Plausible defects of the operations below, for mutation of the model.   *)

RouteEntryFreeForgets(e) == UNCHANGED freelist

RouteEntryFreeTwice(e) == freelist' = <<e, e>> \o freelist

FindByNetworkMaskFirst(a) ==
    LET masked == FirstOf(rtree, {e \in Nodes : rib[e].network = Masked(a, rib[e].netmask)})
        exact  == Find(rtree, NetworkKey(rib), a)
    IN  IF masked # Null THEN masked ELSE IF exact # Null THEN exact
        ELSE Find(rtree, NetworkKey(rib), 0)

-----------------------------------------------------------------------------
(* The operations.                                                         *)

\* ip_route_tree_remove, ip_route_tree_insert
TreeRemove(e) == [r |-> Remove(rtree, e), s |-> Remove(stree, e)]
TreeInsert(trees, r, e) ==
    [r |-> Insert(trees.r, NetworkKey(r), e), s |-> Insert(trees.s, IfaceKey(r), e)]

SetTrees(trees) ==
    /\ rtree' = trees.r /\ stree' = trees.s
    /\ crashed' = (trees.r.fault \/ trees.s.fault)

\* SLIST_INSERT_HEAD in ip_route_entry_free
RouteEntryFree(e) == freelist' = <<e>> \o freelist

\* ip_route_add: ip_route_entry_alloc takes the head of the free list and
\* does not look whether there is one.
RouteAdd(route) ==
    IF freelist = <<>>
    THEN crashed' = TRUE /\ UNCHANGED <<rib, rtree, stree, freelist>>
    ELSE LET e == Head(freelist)
             r == [rib EXCEPT ![e] = route]
         IN  /\ rib' = r /\ freelist' = Tail(freelist)
             /\ SetTrees(TreeInsert([r |-> rtree, s |-> stree], r, e))

\* Tables that callers keep to: the difference of two addresses orders the
\* networks and the interface addresses, and no two routes share an interface
\* address (the second one would not be linked into rib_sourcetree).
Admissible(routes) ==
    /\ Ordered({r.network : r \in routes}) /\ Ordered({r.iface : r \in routes})
    /\ \A r, s \in routes : r.iface = s.iface => r = s

\* ip_route_update
RouteUpdate(route) ==
    LET e   == Find(rtree, NetworkKey(rib), route.network)
        r   == [rib EXCEPT ![e] = route]
        new == {s \in table : s.network # route.network} \cup {route}
    IN
    /\ ~crashed /\ Admissible(new) /\ table' = new
    /\ IF e = Null THEN RouteAdd(route)
       ELSE /\ rib' = r /\ SetTrees(TreeInsert(TreeRemove(e), r, e))
            /\ UNCHANGED freelist

\* ip_route_remove, with the memset of the whole entry.
RouteRemove(network) ==
    LET e     == Find(rtree, NetworkKey(rib), network)
        trees == TreeRemove(e)
    IN
    /\ ~crashed
    /\ e # Null
    /\ rib' = [rib EXCEPT ![e] = NoRoute]
    /\ SetTrees([r |-> Zeroed(trees.r, e), s |-> Zeroed(trees.s, e)])
    /\ RouteEntryFree(e)
    /\ table' = {s \in table : s.network # network}

\* ip_route_remove returns -1 (ENOENT).
RouteRemoveNoEntry(network) ==
    /\ ~crashed
    /\ Find(rtree, NetworkKey(rib), network) = Null
    /\ UNCHANGED <<rib, rtree, stree, freelist, crashed>>
    /\ table' = {s \in table : s.network # network}

\* ip_route_find_by_network: the entry, or Null for ENOENT.
FindByNetwork(a) ==
    LET exact  == Find(rtree, NetworkKey(rib), a)
        masked == FirstOf(rtree, {e \in Nodes : rib[e].network = Masked(a, rib[e].netmask)})
    IN  IF exact # Null THEN exact ELSE IF masked # Null THEN masked
        ELSE Find(rtree, NetworkKey(rib), 0)

\* ip_route_find_by_iface
FindByIface(a) == Find(stree, IfaceKey(rib), a)

Next ==
    \/ \E route \in Routes : RouteUpdate(route)
    \/ \E route \in Routes : RouteRemove(route.network)
    \/ \E route \in Routes : RouteRemoveNoEntry(route.network)

Spec == Init /\ [][Next]_vars

-----------------------------------------------------------------------------
(* Properties.                                                             *)

Used == Nodes \ {freelist[i] : i \in DOMAIN freelist}

TypeOK ==
    /\ rib \in [Nodes -> Routes \cup {NoRoute}]
    /\ freelist \in Seq(Nodes) /\ Len(freelist) <= Size
    /\ rtree.root \in Nodes \cup {Null} /\ stree.root \in Nodes \cup {Null}
    /\ table \subseteq Routes

\* ip_route_tree_insert and ip_route_tree_remove keep both trees red-black
\* search trees of exactly the entries that are not on the free list.
TreesHoldUsedEntries ==
    /\ RedBlack(rtree) /\ SearchTree(rtree, NetworkKey(rib), Used)
    /\ RedBlack(stree) /\ SearchTree(stree, IfaceKey(rib), Used)

\* No entry of the array is lost: each one in use holds a route of its own,
\* and the program ends for want of an entry (ip_route_entry_alloc does not
\* look) only when there are more routes than entries.
NoEntryLeaks ==
    /\ ~crashed => Cardinality(Used) = Cardinality(table)
    /\ crashed => Cardinality(table) > Size

\* ip_route_find_by_network and ip_route_find_by_iface answer from the table:
\* the route of the very network that is asked for if there is one, otherwise
\* a route that covers the address (a default route included), and none only
\* if no route does; an address is an interface's exactly if a route says so.
LookupsAgree ==
    ~crashed =>
        \A a \in Addresses :
            LET covers(r) == r.network \in {a, Masked(a, r.netmask), 0}
                e == FindByNetwork(a)
                i == FindByIface(a)
            IN  /\ e = Null => \A r \in table : ~covers(r)
                /\ e # Null => rib[e] \in {r \in table : covers(r)}
                /\ \A r \in table : r.network = a => e # Null /\ rib[e] = r
                /\ (i # Null) = (\E r \in table : r.iface = a)
                /\ i # Null => rib[i] \in table /\ rib[i].iface = a
=============================================================================
