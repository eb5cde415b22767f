------------------------------ MODULE MCIpInput ------------------------------
(***************************************************************************)
(* Two hosts and a station that pings, sends datagrams and asks for        *)
(* addresses: correct frames, a padded one, one of the largest size, a     *)
(* fragment, headers longer than their packet, and frames that ip_input,   *)
(* arp_input or ether_input refuse.                                        *)
(***************************************************************************)
EXTENDS IpInput

CONSTANTS A, B

MCHosts == {A, B}

\* A frame as Station's kernel sends it, without a checksum.
Sent(body, bytes, size) ==
    [src |-> Station, dst |-> None, body |-> body, bytes |-> bytes, size |-> size]
Plain(body, size) == Sent(body, size, size)
Ping(to, n)       == Packet(Station, to, "icmp", "echo", n)
Udp(to, port, n)  == Packet(Station, to, "udp", port, n)
Whole(p)          == Plain(p, p.len)

MCInjected ==
    {Whole(Ping(A, 64)), Whole(Ping(A, 1480)), Whole(Ping(A, 4)), Whole(Ping(Nobody, 64)),
     Whole([Ping(B, 64) EXCEPT !.version = 3]),
     Whole([Ping(B, 64) EXCEPT !.hlen = 16]),
     Whole([Ping(A, 64) EXCEPT !.hlen = 24]),
     Whole([Ping(Nobody, 16) EXCEPT !.frag = TRUE]), Whole([Ping(B, 16) EXCEPT !.frag = TRUE]),
     Whole(Packet(Station, B, "icmp", "echo_reply", 64)),
     Whole(Packet(Station, B, "other", "none", 64)),
     Whole(Udp(A, "open", 20)), Whole(Udp(B, "closed", 20)), Whole(Udp(A, "open", 4)),
     Sent(Udp(A, "open", 20), 40, 46),
     Whole([Udp(A, "open", 26) EXCEPT !.hlen = 60]),
     Whole([Udp(B, "closed", 26) EXCEPT !.hlen = 60]),
     Whole([Ping(B, 26) EXCEPT !.hlen = 48]),
     Plain(Arp("request", Station, Station, A), 46),
     Plain(Arp("request", Station, Station, Nobody), 46),
     Plain([Arp("request", Station, Station, A) EXCEPT !.ether = FALSE], 46),
     Plain([Arp("request", Station, Station, A) EXCEPT !.ipv4 = FALSE], 46),
     Plain([type |-> "other"], 46)}

MCDatagrams ==
    {[to |-> a, port |-> "open", n |-> n] : a \in {B, Station, Nobody}, n \in {10, 1472}}
=============================================================================
