---------------------------- MODULE MCBloomFilter ----------------------------
(* BloomFilter for TLC: a five tuple that may be marked several times, with  *)
(* index 1 in one filter and index 0, which commands hold by default, in the *)
(* other.                                                                    *)
EXTENDS BloomFilter, TLC

CONSTANTS t1

OneTuple == t1 :> <<1, 0>>
=============================================================================
