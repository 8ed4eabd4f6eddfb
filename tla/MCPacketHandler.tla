--------------------------- MODULE MCPacketHandler ---------------------------
(* PacketHandler for TLC. *)
EXTENDS PacketHandler, TLC

CONSTANTS server, stale, client, udp, tcp, dns

\* A UDP flow from a server whose address stays valid, a TCP flow to a server
\* whose address times out, and DNS responses.
Tuples   == {udp, tcp, dns}
SrcOf    == udp :> server @@ tcp :> client @@ dns :> server
DstOf    == udp :> client @@ tcp :> stale @@ dns :> client
AllIPv4  == [tuple \in Tuples |-> "L3_IPV4"]
L4Of     == udp :> "L4_UDP" @@ tcp :> "L4_TCP" @@ dns :> "L4_UDP"

\* 53 in network byte order, read by a little endian machine, is 13568.
Swapped  == udp :> 443 @@ tcp :> 443 @@ dns :> 13568
Standard == udp :> 443 @@ tcp :> 443 @@ dns :> 53

FlagsOf  == udp :> {{}} @@ tcp :> {{"SYN"}, {"FIN"}} @@ dns :> {{}}
Answer   == << [type |-> "ns_t_cname", relevant |-> TRUE],
               [type |-> "ns_t_a", relevant |-> TRUE, address |-> server, ttl |-> 0] >>
Carried  == udp :> {<< >>} @@ tcp :> {<< >>} @@ dns :> {Answer}

Known4   == [type |-> "L3_IPV4", address |-> server] :> MaxTime
            @@ [type |-> "L3_IPV4", address |-> stale] :> 0
            @@ [key \in Keys |-> Absent]
Nothing  == [key \in Keys |-> Absent]
==============================================================================
