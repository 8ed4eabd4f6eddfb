------------------------------- MODULE IdPool -------------------------------
(***************************************************************************)
(* What a heap of free ids promises to flowdb_thread: "to assign the       *)
(* lowest id possible" (flow_db.c:151).  Module FlowDB uses this set in    *)
(* place of the heap.                                                      *)
(***************************************************************************)
EXTENDS Integers

CONSTANTS AllIds

VARIABLES free,     \* the free ids
          popped    \* what heap_pop returned last, 0 for an empty heap

Init == free = AllIds /\ popped = 0

Push(id) ==
    /\ id \notin free
    /\ free' = free \cup {id}
    /\ UNCHANGED popped

PopLowest ==
    /\ popped' \in free
    /\ \A id \in free : popped' <= id
    /\ free' = free \ {popped'}

PopEmpty == free = {} /\ popped' = 0 /\ UNCHANGED free

Next == PopLowest \/ PopEmpty \/ \E id \in AllIds : Push(id)

Spec == Init /\ [][Next]_<<free, popped>>
=============================================================================
