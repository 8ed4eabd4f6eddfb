----------------------------- MODULE MCFeatures -----------------------------
(* Features for TLC: words of three numbers and values of two words. *)
EXTENDS Features
=============================================================================
