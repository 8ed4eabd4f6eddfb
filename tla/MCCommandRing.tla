---------------------------- MODULE MCCommandRing ----------------------------
(* CommandRing for TLC: the constants are given in the configurations. *)
EXTENDS CommandRing
=============================================================================
