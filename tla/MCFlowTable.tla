----------------------------- MODULE MCFlowTable -----------------------------
(* FlowTable for TLC.  The values are symmetric: they are only compared. *)
EXTENDS FlowTable, TLC

CONSTANTS k1, k2, k3

\* packet_thread reads occupied, hash and key only.
SeenByLookups == {{"key"}, {"hash"}, {"value", "map"}}

SymmetricValues == Permutations(Values)

\* Hash functions whose probe sequences meet at the end of three slots.
Colliding == {k1 :> 1 @@ k2 :> 2 @@ k3 :> 2, k1 :> 2 @@ k2 :> 2 @@ k3 :> 0}
=============================================================================
