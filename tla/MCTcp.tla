-------------------------------- MODULE MCTcp --------------------------------
(***************************************************************************)
(* Two connections that tcp_conn_cmp does not tell apart; connections that *)
(* it does have nothing in common.  Sequence numbers wrap.                 *)
(***************************************************************************)
EXTENDS Tcp

CONSTANTS c1, c2

MCConns == {c1, c2}
MCCmp   == [c \in MCConns |-> [d \in MCConns |-> 0]]
MCIsn   == [c \in MCConns |-> [r \in Runs |->
               IF c = c1 THEN (2^SeqBits - 4 + 2 * r) % 2^SeqBits ELSE r]]
=============================================================================
