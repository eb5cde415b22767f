----------------------------- MODULE MCArpCache -----------------------------
(***************************************************************************)
(* A cache of three slots.  Lookups of the egress thread are followed only *)
(* while the last slot is unused: its other slots are taken over as often, *)
(* and with three in use there are tens of millions of states.             *)
(***************************************************************************)
EXTENDS ArpCache

LookupBound == lookup # NoLookup => ip_addr[Size] = 0
=============================================================================
