---------------------------- MODULE MCSessionTable ----------------------------
(* SessionTable for TLC. *)
EXTENDS SessionTable, TLC

CONSTANTS k1, k2, k3

\* feature_export_thread copies key, value and map only.
SeenByExport == {{"key"}, {"value"}, {"map", "hash"}}

\* Two probe sequences that start at the last of three slots, and one at the first.
Colliding == {k1 :> 2 @@ k2 :> 2 @@ k3 :> 0}
=============================================================================
