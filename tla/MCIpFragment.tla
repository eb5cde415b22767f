---------------------------- MODULE MCIpFragment ----------------------------
(***************************************************************************)
(* Packets of two fragments that fit into the cleared quarter of the map,  *)
(* packets of three fragments that do not, and packets whose last fragment *)
(* ends beyond the payload or which have one with a header beyond its end. *)
(***************************************************************************)
EXTENDS IpFragment

CONSTANTS Small, Big, Long

MCPackets == Small \cup Big \cup Long

\* Keys of different packets in flight differ.
MCKey == [p \in MCPackets |-> p]

Frag(p, off, len, mf) == [pkt |-> p, off |-> off, len |-> len, mf |-> mf]

MCFragments ==
    UNION {{Frag(p, 0, 16, TRUE), Frag(p, 2, 12, FALSE)} : p \in Small}
    \cup
    UNION {{Frag(p, 0, 32, TRUE), Frag(p, 4, 24, TRUE), Frag(p, 7, 8, FALSE)} : p \in Big}
    \cup
    UNION {{Frag(p, 15, 16, FALSE), Frag(p, 2, -4, TRUE)} : p \in Long}
=============================================================================
