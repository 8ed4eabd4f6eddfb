----------------------------- MODULE MCLifecycle -----------------------------
(* Lifecycle for TLC. *)
EXTENDS Lifecycle, TLC

CONSTANTS f1, f2

\* Both flows arrive on port 0 of pipe 0 and leave on port 128 of pipe 1, so that
\* a session's egress index is not its id.
ToOther   == (0 :> 128) @@ (128 :> -1)
PortZero  == [tuple \in FiveTuples |-> {0}]
OneClient == [tuple \in FiveTuples |-> "client"]
AllIPv4   == [tuple \in FiveTuples |-> "L3_IPV4"]
FullIPv4  == "L3_IPV4" :> HeapSize @@ "L3_IPV6" :> 0
=============================================================================
