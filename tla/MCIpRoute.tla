------------------------------ MODULE MCIpRoute ------------------------------
(***************************************************************************)
(* Addresses of four bits: a default route, networks of different lengths  *)
(* on both sides of address 0, so that the keys of a tree wrap, a network  *)
(* with a choice of two routes, and one network more than entries.  The    *)
(* entries are alike until they are used, so that their names do not       *)
(* matter.                                                                 *)
(***************************************************************************)
EXTENDS IpRoute, TLC

Route(net, len, iface) == [network |-> net, netmask |-> len, iface |-> iface]

MCRoutes ==
    {Route(0, 0, 1), Route(1, 4, 2), Route(2, 3, 3), Route(3, 4, 4), Route(4, 2, 14),
     Route(14, 3, 15), Route(15, 4, 0), Route(2, 4, 5)}

Naming == Permutations(Nodes)
=============================================================================
