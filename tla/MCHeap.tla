------------------------------- MODULE MCHeap -------------------------------
(* Heap for TLC: every order in which the array may be filled. *)
EXTENDS Heap

Permuted == {fill \in [Indices -> AllIds] : \A i, j \in Indices : fill[i] = fill[j] => i = j}
=============================================================================
