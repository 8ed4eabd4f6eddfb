---------------------------- MODULE MCController ----------------------------
(* Controller for TLC. *)
EXTENDS Controller, TLC

CONSTANTS f1, f2, f3

\* Every five tuple always arrives on the same port; ports 0 and 128 belong to
\* different pipes and forward to each other (port_config.h).
SwapPorts == (0 :> 128) @@ (128 :> 0)
OnePort   == f1 :> {0} @@ f2 :> {0} @@ f3 :> {128}

\* A single pipe: port 0 forwards to itself.
SelfPort  == 0 :> 0
PipeZero  == [tuple \in FiveTuples |-> {0}]
OneClient == [tuple \in FiveTuples |-> "client"]

\* The l3 protocols of the five tuples: one table, or two flows of the same pipe
\* that the switch has in different tables.
AllIPv4        == [tuple \in FiveTuples |-> "L3_IPV4"]
MixedProtocols == f1 :> "L3_IPV4" @@ f2 :> "L3_IPV6" @@ f3 :> "L3_IPV4"

\* The IPv4 table, or both tables, have room for all flow ids of a pipe.
FullIPv4   == "L3_IPV4" :> HeapSize @@ "L3_IPV6" :> 0
FullTables == [proto \in Protocols |-> HeapSize]
=============================================================================
