-------------------------------- MODULE Heap --------------------------------
(***************************************************************************)
(* The binary heap of free ids (datastructures/heap.c).  Only one thread   *)
(* uses it; a call is a step for each iteration of its loop.               *)
(***************************************************************************)
EXTENDS Integers, FiniteSets

CONSTANTS AllIds,   \* the ids the heap is filled with
          Fills     \* the orders in which it is filled before heap_build

ASSUME IdsAssumption == AllIds \subseteq Nat \ {0} /\ IsFiniteSet(AllIds)

HEAPSIZE == Cardinality(AllIds)
Indices  == 0 .. HEAPSIZE - 1

\* Every id is filled in once (flow_db.c:160).
ASSUME FillsAssumption ==
    Fills \subseteq {fill \in [Indices -> AllIds] : \A i, j \in Indices : fill[i] = fill[j] => i = j}

VARIABLES data,     \* the array; what lies behind curSize is left over
          curSize,
          popped,   \* the result of the last heap_pop
          call      \* where the call in progress is

vars == <<data, curSize, popped, call>>

HEAP_LEFT(i)   == 2 * i + 1
HEAP_RIGHT(i)  == 2 * i + 2
HEAP_PARENT(i) == (i - 1) \div 2

\* Without the temporary item.
HEAP_SWAP_LOST(x, y) == [data EXCEPT ![x] = data[y], ![y] = data[y]]

HEAP_SWAP(x, y) == [data EXCEPT ![x] = data[y], ![y] = data[x]]

Returned == [step |-> "none"]

\* heapify at i, for the index a of heap_build's loop, or for heap_pop's 0.
Heapify(i, a) == [step |-> "heapify", i |-> i, a |-> a]

\* The loop of heap_decrease at i.
Decrease(i) == [step |-> "decrease", i |-> i]

\* The heap as flowdb_thread fills it, in heap_build.
Init ==
    /\ data \in Fills
    /\ curSize = HEAPSIZE
    /\ popped = 0
    /\ call = IF HEAPSIZE < 2 THEN Returned ELSE Heapify(HEAPSIZE \div 2 - 1, HEAPSIZE \div 2 - 1)

------------------------------------------------------------------------------
\* The smallest of an item and its children.
SmallestLeft(i) == IF HEAP_LEFT(i) < curSize /\ data[HEAP_LEFT(i)] < data[i] THEN HEAP_LEFT(i) ELSE i
Smallest(i) ==
    IF HEAP_RIGHT(i) < curSize /\ data[HEAP_RIGHT(i)] < data[SmallestLeft(i)] THEN HEAP_RIGHT(i)
                                                                              ELSE SmallestLeft(i)

\* heapify: the item sinks, or is the smallest; heap_build goes on to the index
\* before, and behind 0 the index wraps around and the loop ends.
heapify ==
    /\ call.step = "heapify"
    /\ LET min == Smallest(call.i)
       IN  IF min # call.i
             THEN data' = HEAP_SWAP(call.i, min) /\ call' = Heapify(min, call.a)
             ELSE /\ call' = IF call.a = 0 THEN Returned ELSE Heapify(call.a - 1, call.a - 1)
                  /\ UNCHANGED data
    /\ UNCHANGED <<curSize, popped>>

\* An item rises one level at most.
heap_decrease_once ==
    /\ call.step = "decrease"
    /\ data' = IF call.i > 0 /\ data[call.i] < data[HEAP_PARENT(call.i)]
                 THEN HEAP_SWAP(call.i, HEAP_PARENT(call.i)) ELSE data
    /\ call' = Returned
    /\ UNCHANGED <<curSize, popped>>

\* The loop of heap_decrease: the item rises until its parent is smaller.
heap_decrease ==
    /\ call.step = "decrease"
    /\ IF call.i > 0 /\ data[call.i] < data[HEAP_PARENT(call.i)]
         THEN data' = HEAP_SWAP(call.i, HEAP_PARENT(call.i)) /\ call' = Decrease(HEAP_PARENT(call.i))
         ELSE call' = Returned /\ UNCHANGED data
    /\ UNCHANGED <<curSize, popped>>

\* Without a check of curSize, the callers' duty; see ArrayNotExceeded.
heap_push(item) ==
    /\ call = Returned
    /\ data' = [data EXCEPT ![curSize] = item]
    /\ curSize' = curSize + 1
    /\ call' = Decrease(curSize)
    /\ UNCHANGED popped

heap_pop ==
    /\ call = Returned
    /\ IF curSize = 0
         THEN popped' = 0 /\ UNCHANGED <<data, curSize, call>>
         ELSE /\ popped' = data[0]
              /\ curSize' = curSize - 1
              /\ IF curSize = 1 THEN UNCHANGED <<data, call>>
                                ELSE data' = HEAP_SWAP(0, curSize - 1) /\ call' = Heapify(0, 0)

FreeIds == {data[i] : i \in 0 .. curSize - 1}

\* flowdb_thread returns only ids it has taken (see IdsConserved in Controller).
Next == heapify \/ heap_decrease \/ heap_pop \/ \E item \in AllIds \ FreeIds : heap_push(item)

Spec == Init /\ [][Next]_vars

------------------------------------------------------------------------------
\* As long as ids are conserved the heap never outgrows its array and holds no
\* id twice, although heap_push checks neither.
ArrayNotExceeded == curSize <= HEAPSIZE /\ Cardinality(FreeIds) = curSize

\* The heap implements the set of free ids of which heap_pop takes the lowest, "to
\* assign the lowest id possible" (flow_db.c:151).
P == INSTANCE IdPool WITH free <- FreeIds
ImplementsIdPool == P!Spec
=============================================================================
