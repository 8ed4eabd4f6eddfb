----------------------------- MODULE Heap_proofs -----------------------------
(***************************************************************************)
(* Theorems about the heap of free ids, for any number of ids and any      *)
(* order in which they are filled in: it never outgrows its array and      *)
(* implements the set of which heap_pop takes the lowest id.               *)
(***************************************************************************)
EXTENDS Heap, FiniteSetTheorems, WellFoundedInduction, NaturalsInduction, TLAPS

------------------------------------------------------------------------------
(* The inductive invariant *)

Used == 0 .. curSize - 1

HeapTypeOK ==
    /\ data \in [Indices -> AllIds]
    /\ curSize \in 0 .. HEAPSIZE
    /\ popped \in AllIds \cup {0}
    /\ \/ call = Returned
       \/ \E i \in Used : call = Decrease(i)
       \/ \E i \in Used, a \in Used : a <= i /\ call = Heapify(i, a)

\* No id is in the heap twice.
Distinct == \A i, j \in Used : data[i] = data[j] => i = j

\* The item at j is not smaller than its parent.
Ordered(j) == data[HEAP_PARENT(j)] <= data[j]

\* The children of i are not smaller than the parent of i, whatever i holds.
OrderedAcross(i) == i # 0 => \A c \in Used \ {0} : HEAP_PARENT(c) = i => data[HEAP_PARENT(i)] <= data[c]

\* Between two calls the array is in order.  While an item rises, it alone may be
\* smaller than its parent; while one sinks, it alone may be larger than its
\* children, among the items from index a on.
Order ==
    /\ call = Returned => \A j \in Used \ {0} : Ordered(j)
    /\ \A i \in Used : call = Decrease(i) =>
          /\ \A j \in Used \ {0} : j # i => Ordered(j)
          /\ OrderedAcross(i)
    /\ \A i, a \in Used : call = Heapify(i, a) =>
          /\ \A j \in Used \ {0} : HEAP_PARENT(j) >= a /\ HEAP_PARENT(j) # i => Ordered(j)
          /\ i # 0 /\ HEAP_PARENT(i) >= a => OrderedAcross(i)

HeapInv == HeapTypeOK /\ Distinct /\ Order

------------------------------------------------------------------------------
(* The tree in the array *)

LEMMA Sizes == HEAPSIZE \in Nat /\ AllIds \subseteq Nat \ {0} /\ IsFiniteSet(AllIds)
PROOF BY IdsAssumption, FS_CardinalityType DEF HEAPSIZE

LEMMA Parents ==
    ASSUME NEW j \in Nat \ {0}
    PROVE  /\ HEAP_PARENT(j) \in Nat
           /\ HEAP_PARENT(j) < j
           /\ \A i \in Nat : HEAP_PARENT(j) = i <=> j \in {HEAP_LEFT(i), HEAP_RIGHT(i)}
PROOF BY DEF HEAP_PARENT, HEAP_LEFT, HEAP_RIGHT

LEMMA Children ==
    ASSUME NEW i \in Nat
    PROVE  /\ HEAP_LEFT(i) \in Nat \ {0} /\ HEAP_LEFT(i) > i
           /\ HEAP_RIGHT(i) \in Nat \ {0} /\ HEAP_RIGHT(i) > i
PROOF BY DEF HEAP_LEFT, HEAP_RIGHT

LEMMA UsedIs ==
    ASSUME HeapTypeOK
    PROVE  /\ Used \subseteq Indices
           /\ Used \subseteq Nat
           /\ \A i \in Used : data[i] \in AllIds /\ data[i] \in Nat
           /\ \A j \in Used \ {0} : HEAP_PARENT(j) \in Used
           /\ \A i \in Nat : i < curSize => i \in Used
           /\ curSize \in Nat
PROOF
<1>1. Used \subseteq Indices /\ Used \subseteq Nat /\ curSize \in Nat /\ \A i \in Nat : i < curSize => i \in Used
  BY Sizes DEF HeapTypeOK, Used, Indices
<1>2. \A i \in Used : data[i] \in AllIds /\ data[i] \in Nat
  BY <1>1, Sizes DEF HeapTypeOK
<1>3. \A j \in Used \ {0} : HEAP_PARENT(j) \in Used
  <2> TAKE j \in Used \ {0}
  <2>1. HEAP_PARENT(j) \in Nat /\ HEAP_PARENT(j) < j
    BY <1>1, Parents
  <2> QED BY <1>1, <2>1 DEF Used
<1> QED BY <1>1, <1>2, <1>3

LEMMA LeastNumber ==
    ASSUME NEW S \in SUBSET Nat, S # {}
    PROVE  \E n \in S : \A m \in S : n <= m
PROOF
<1>1. PICK n \in S : \A m \in S : ~(<<m, n>> \in OpToRel(<, Nat))
  BY NatLessThanWellFounded, WFMin
<1>2. \A m \in S : ~(m < n)
  BY <1>1 DEF OpToRel
<1> QED BY <1>2

\* In a tree in order no item is smaller than the root.
LEMMA RootIsLowest ==
    ASSUME HeapTypeOK, \A j \in Used \ {0} : Ordered(j), NEW k \in Used
    PROVE  data[0] <= data[k]
PROOF
<1> DEFINE Smaller == {j \in Used : data[j] < data[0]}
<1>1. SUFFICES ASSUME Smaller # {} PROVE FALSE
  <2>1. 0 \in Used
    BY UsedIs DEF Used
  <2> QED BY <2>1, UsedIs
<1>2. PICK n \in Smaller : \A m \in Smaller : n <= m
  BY <1>1, LeastNumber, UsedIs
<1>3. 0 \in Used /\ n \in Used \ {0}
  BY <1>2, UsedIs DEF Used
<1>4. HEAP_PARENT(n) \in Used /\ HEAP_PARENT(n) < n
  BY <1>3, UsedIs, Parents
<1>5. HEAP_PARENT(n) \in Smaller
  BY <1>2, <1>3, <1>4, UsedIs DEF Ordered
<1> QED BY <1>2, <1>3, <1>4, <1>5, UsedIs

\* heapify finds the smallest of an item and its children.
LEMMA SmallestIs ==
    ASSUME HeapTypeOK, NEW i \in Used
    PROVE  /\ Smallest(i) \in Used
           /\ Smallest(i) # i => /\ Smallest(i) # 0
                                 /\ HEAP_PARENT(Smallest(i)) = i
                                 /\ data[Smallest(i)] < data[i]
           /\ \A c \in Used \ {0} : HEAP_PARENT(c) = i => data[Smallest(i)] <= data[c]
PROOF
<1> DEFINE l == HEAP_LEFT(i)
           r == HEAP_RIGHT(i)
<1>1. /\ i \in Nat /\ l \in Nat \ {0} /\ r \in Nat \ {0} /\ curSize \in Nat
      /\ (l < curSize => l \in Used) /\ (r < curSize => r \in Used)
      /\ \A k \in Used : data[k] \in Nat /\ k \in Nat /\ k < curSize
  BY UsedIs, Children DEF Used
<1>2. HEAP_PARENT(l) = i /\ HEAP_PARENT(r) = i
  BY <1>1, Parents
<1>3. \A c \in Used \ {0} : HEAP_PARENT(c) = i => c \in {l, r}
  BY <1>1, Parents
<1> HIDE DEF l, r
<1>4. /\ SmallestLeft(i) \in Used
      /\ SmallestLeft(i) \in {i, l}
      /\ SmallestLeft(i) # i => data[l] < data[i]
      /\ l \in Used => data[SmallestLeft(i)] <= data[l]
      /\ data[SmallestLeft(i)] <= data[i]
  BY <1>1 DEF SmallestLeft, l
<1>5. Smallest(i) = IF r < curSize /\ data[r] < data[SmallestLeft(i)] THEN r ELSE SmallestLeft(i)
  BY DEF Smallest, r
<1> QED BY <1>1, <1>2, <1>3, <1>4, <1>5

------------------------------------------------------------------------------
(* The ids in the heap *)

LEMMA SwapIs ==
    ASSUME HeapTypeOK, NEW x \in Used, NEW y \in Used
    PROVE  /\ HEAP_SWAP(x, y) \in [Indices -> AllIds]
           /\ HEAP_SWAP(x, y)[x] = data[y]
           /\ HEAP_SWAP(x, y)[y] = data[x]
           /\ \A k \in Used : k \notin {x, y} => HEAP_SWAP(x, y)[k] = data[k]
PROOF
<1>1. x \in Indices /\ y \in Indices /\ Used \subseteq Indices
  BY UsedIs
<1> QED BY <1>1 DEF HEAP_SWAP, HeapTypeOK

\* A swap moves ids within the heap.
LEMMA SwapKeeps ==
    ASSUME HeapTypeOK, Distinct, NEW x \in Used, NEW y \in Used, x # y, data' = HEAP_SWAP(x, y), curSize' = curSize
    PROVE  FreeIds' = FreeIds /\ Distinct'
PROOF
<1>1. /\ data'[x] = data[y] /\ data'[y] = data[x]
      /\ \A k \in Used : k \notin {x, y} => data'[k] = data[k]
  BY SwapIs
<1>2. Used' = Used /\ FreeIds = {data[i] : i \in Used} /\ FreeIds' = {data'[i] : i \in Used}
  BY DEF Used, FreeIds
<1>3. Distinct'
  BY <1>1, <1>2 DEF Distinct
<1>4. FreeIds' = FreeIds
  BY <1>1, <1>2
<1> QED BY <1>3, <1>4

\* The heap holds as many ids as it has items.
LEMMA FreeIdsCounted ==
    ASSUME HeapTypeOK, Distinct
    PROVE  /\ FreeIds \subseteq AllIds
           /\ Cardinality(FreeIds) = curSize
           /\ curSize = HEAPSIZE => FreeIds = AllIds
PROOF
<1> DEFINE f == [i \in Used |-> data[i]]
<1>1. FreeIds \subseteq AllIds
  BY UsedIs DEF FreeIds, Used
<1>2. f \in Injection(Used, FreeIds) /\ f \in Surjection(Used, FreeIds)
  BY DEF Injection, IsInjective, Surjection, FreeIds, Used, Distinct
<1>3. IsFiniteSet(Used) /\ Cardinality(Used) = curSize
  <2>1. curSize \in Nat
    BY UsedIs
  <2>2. /\ IsFiniteSet(0 .. curSize - 1)
        /\ Cardinality(0 .. curSize - 1) = IF 0 > curSize - 1 THEN 0 ELSE (curSize - 1) - 0 + 1
    BY <2>1, FS_Interval
  <2> QED BY <2>1, <2>2 DEF Used
<1> HIDE DEF f
<1>4. Cardinality(FreeIds) = curSize
  BY <1>2, <1>3, FS_Surjection
<1>5. curSize = HEAPSIZE => FreeIds = AllIds
  BY <1>1, <1>4, Sizes, FS_Subset DEF HEAPSIZE
<1> QED BY <1>1, <1>4, <1>5

------------------------------------------------------------------------------
(* Every step keeps the invariant *)

LEMMA CallIs ==
    ASSUME HeapTypeOK
    PROVE  /\ call.step = "decrease" => call.i \in Used /\ call = Decrease(call.i)
           /\ call.step = "heapify" => /\ call.i \in Used /\ call.a \in Used /\ call.a <= call.i
                                       /\ call = Heapify(call.i, call.a)
PROOF BY DEF HeapTypeOK, Returned, Decrease, Heapify

\* What kind a call is of, and at which index.
LEMMA CallsDiffer ==
    ASSUME NEW i, NEW a
    PROVE  /\ Decrease(i) # Returned /\ Heapify(i, a) # Returned /\ Decrease(i) # Heapify(i, a)
           /\ \A j, b : Decrease(i) # Heapify(j, b)
           /\ \A j : Decrease(i) = Decrease(j) => i = j
           /\ \A j, b : Heapify(i, a) = Heapify(j, b) => i = j /\ a = b
PROOF BY DEF Decrease, Heapify, Returned

LEMMA InitInv == Init => HeapInv /\ FreeIds = AllIds
PROOF
<1> SUFFICES ASSUME Init PROVE HeapInv /\ FreeIds = AllIds
  OBVIOUS
<1> DEFINE h == HEAPSIZE \div 2 - 1
<1>1. /\ HEAPSIZE \in Nat
      /\ HEAPSIZE >= 2 => h \in 0 .. HEAPSIZE - 1 /\ \A j \in 0 .. HEAPSIZE - 1 : j # 0 => HEAP_PARENT(j) <= h
  BY Sizes DEF HEAP_PARENT
<1>2. /\ data \in [Indices -> AllIds]
      /\ \A i, j \in Indices : data[i] = data[j] => i = j
      /\ curSize = HEAPSIZE /\ popped = 0
      /\ Used = 0 .. HEAPSIZE - 1 /\ Used = Indices
  BY FillsAssumption DEF Init, Used, Indices
<1>3. /\ HEAPSIZE < 2 => call = Returned
      /\ ~(HEAPSIZE < 2) => call = Heapify(h, h)
  BY DEF Init
<1> HIDE DEF h
<1>4. HeapTypeOK
  <2>1. call = Returned \/ \E i \in Used, a \in Used : a <= i /\ call = Heapify(i, a)
    BY <1>1, <1>2, <1>3
  <2> QED BY <1>1, <1>2, <2>1 DEF HeapTypeOK
<1>5. Distinct
  BY <1>2 DEF Distinct
<1>6. Order
  <2>1. CASE HEAPSIZE < 2
    <3>1. Used \ {0} = {}
      BY <1>1, <1>2, <2>1
    <3> QED BY <1>3, <2>1, <3>1, CallsDiffer DEF Order
  <2>2. CASE ~(HEAPSIZE < 2)
    <3>1. ASSUME NEW i \in Used, NEW a \in Used, call = Heapify(i, a) PROVE i = h /\ a = h
      BY <1>3, <2>2, <3>1, CallsDiffer
    <3>2. h \in Nat /\ h \in Used
      BY <1>1, <1>2, <2>2
    <3>3. \A j \in Used \ {0} : HEAP_PARENT(j) >= h => HEAP_PARENT(j) = h
      BY <1>1, <1>2, <1>4, <2>2, <3>2, UsedIs
    <3>4. h # 0 => ~(HEAP_PARENT(h) >= h)
      BY <3>2, Parents
    <3> QED BY <1>3, <2>2, <3>1, <3>3, <3>4, CallsDiffer DEF Order
  <2> QED BY <2>1, <2>2
<1>7. FreeIds = AllIds
  BY <1>2, <1>4, <1>5, FreeIdsCounted
<1> QED BY <1>4, <1>5, <1>6, <1>7 DEF HeapInv

\* An item sinks by a level, or heap_build goes on.
LEMMA SinkingKeeps ==
    ASSUME HeapInv, heapify
    PROVE  HeapInv' /\ FreeIds' = FreeIds
PROOF
<1>0. HeapTypeOK /\ Distinct /\ Order
  BY DEF HeapInv
<1>1. PICK i \in Used, a \in Used : a <= i /\ call = Heapify(i, a) /\ i = call.i /\ a = call.a
  BY <1>0, CallIs DEF heapify
<1>2. PICK m : m = Smallest(i)
  OBVIOUS
<1>3. /\ m \in Used
      /\ m # i => m # 0 /\ HEAP_PARENT(m) = i /\ data[m] < data[i]
      /\ \A c \in Used \ {0} : HEAP_PARENT(c) = i => data[m] <= data[c]
  BY <1>0, <1>2, SmallestIs
<1>4. /\ \A j \in Used \ {0} : HEAP_PARENT(j) >= a /\ HEAP_PARENT(j) # i => Ordered(j)
      /\ i # 0 /\ HEAP_PARENT(i) >= a => OrderedAcross(i)
  BY <1>0, <1>1 DEF Order
<1>5. /\ Used \subseteq Nat /\ \A k \in Used : data[k] \in Nat
      /\ \A k \in Used \ {0} : HEAP_PARENT(k) \in Used /\ HEAP_PARENT(k) < k
      /\ curSize \in Nat
  BY <1>0, UsedIs, Parents
<1>6. curSize' = curSize /\ popped' = popped /\ Used' = Used
  BY DEF heapify, Used
<1>7. CASE m # i
  <2>1. data' = HEAP_SWAP(i, m) /\ call' = Heapify(m, a)
    BY <1>1, <1>2, <1>7 DEF heapify
  <2>2. /\ data' \in [Indices -> AllIds]
        /\ data'[i] = data[m] /\ data'[m] = data[i]
        /\ \A k \in Used : k \notin {i, m} => data'[k] = data[k]
    BY <1>0, <1>1, <1>3, <2>1, SwapIs
  <2>3. FreeIds' = FreeIds /\ Distinct'
    BY <1>0, <1>1, <1>3, <1>6, <1>7, <2>1, SwapKeeps
  <2>4. m > i /\ a <= m /\ m # 0 /\ HEAP_PARENT(m) = i
    BY <1>1, <1>3, <1>5, <1>7
  <2>5. HeapTypeOK'
    BY <1>0, <1>3, <1>6, <2>1, <2>2, <2>4 DEF HeapTypeOK
  <2>6. ASSUME NEW j \in Used \ {0}, HEAP_PARENT(j) >= a, HEAP_PARENT(j) # m PROVE data'[HEAP_PARENT(j)] <= data'[j]
    <3>1. CASE j = m
      BY <1>3, <1>5, <1>7, <2>2, <2>4, <3>1
    <3>2. CASE j # m /\ HEAP_PARENT(j) = i
      <4>1. j # i /\ data[m] <= data[j]
        BY <1>3, <1>5, <2>6, <3>2
      <4> QED BY <2>2, <3>2, <4>1
    <3>3. CASE j = i
      <4>1. i \in Used \ {0} /\ i \in Nat /\ m \in Nat /\ HEAP_PARENT(i) \in Nat
        BY <1>3, <1>5, <2>6, <3>3
      <4>2. HEAP_PARENT(i) \notin {i, m} /\ HEAP_PARENT(i) \in Used
        BY <1>5, <2>4, <4>1
      <4>3. data'[HEAP_PARENT(i)] = data[HEAP_PARENT(i)]
        BY <2>2, <4>2
      <4>4. data[HEAP_PARENT(i)] <= data[m]
        BY <1>3, <1>4, <2>4, <2>6, <3>3 DEF OrderedAcross
      <4> QED BY <2>2, <3>3, <4>3, <4>4
    <3>4. CASE j \notin {i, m} /\ HEAP_PARENT(j) # i
      BY <1>4, <1>5, <2>2, <2>6, <3>4 DEF Ordered
    <3> QED BY <3>1, <3>2, <3>3, <3>4
  <2>7. ASSUME NEW c \in Used \ {0}, HEAP_PARENT(c) = m PROVE data'[HEAP_PARENT(m)] <= data'[c]
    <3>1. c \notin {i, m} /\ m >= a /\ m # i
      BY <1>1, <1>5, <2>4, <2>7
    <3>2. data[m] <= data[c]
      BY <1>4, <2>7, <3>1 DEF Ordered
    <3> QED BY <2>2, <2>4, <3>1, <3>2
  <2>8. Order'
    <3>1. call' # Returned /\ \A k : call' # Decrease(k)
      BY <2>1, CallsDiffer
    <3>2. \A k, b : call' = Heapify(k, b) => k = m /\ b = a
      BY <2>1 DEF Heapify
    <3>3. \A j \in Used' \ {0} : HEAP_PARENT(j) >= a /\ HEAP_PARENT(j) # m => Ordered(j)'
      BY <1>6, <2>6 DEF Ordered
    <3>4. \A c \in Used' \ {0} : HEAP_PARENT(c) = m => data'[HEAP_PARENT(m)] <= data'[c]
      BY <1>6, <2>7
    <3> QED BY <3>1, <3>2, <3>3, <3>4 DEF Order, OrderedAcross
  <2> QED BY <2>3, <2>5, <2>8 DEF HeapInv
<1>8. CASE m = i
  <2>1. data' = data /\ call' = IF a = 0 THEN Returned ELSE Heapify(a - 1, a - 1)
    BY <1>1, <1>2, <1>8 DEF heapify
  <2>2. FreeIds' = FreeIds /\ Distinct'
    BY <1>0, <1>6, <2>1 DEF FreeIds, Distinct
  <2>3. \A j \in Used \ {0} : HEAP_PARENT(j) >= a => Ordered(j)
    BY <1>3, <1>4, <1>8 DEF Ordered
  <2>4. \A j : Ordered(j)' = Ordered(j)
    BY <2>1 DEF Ordered
  <2>5. CASE a = 0
    <3>1. call' = Returned
      BY <2>1, <2>5
    <3>2. \A j \in Used \ {0} : Ordered(j)
      <4> TAKE j \in Used \ {0}
      <4>1. HEAP_PARENT(j) \in Nat
        BY <1>5
      <4> QED BY <2>3, <2>5, <4>1
    <3>3. Order'
      BY <1>6, <2>4, <3>1, <3>2, CallsDiffer DEF Order
    <3>4. HeapTypeOK'
      BY <1>0, <1>6, <2>1, <3>1 DEF HeapTypeOK
    <3> QED BY <2>2, <3>3, <3>4 DEF HeapInv
  <2>6. CASE a # 0
    <3>1. call' = Heapify(a - 1, a - 1) /\ a - 1 \in Used /\ a - 1 \in Nat /\ a \in Nat
      BY <1>5, <2>1, <2>6 DEF Used
    <3>2. \A j \in Used \ {0} : HEAP_PARENT(j) >= a - 1 /\ HEAP_PARENT(j) # a - 1 => Ordered(j)
      <4> TAKE j \in Used \ {0}
      <4>1. HEAP_PARENT(j) \in Nat
        BY <1>5
      <4> QED BY <2>3, <3>1, <4>1
    <3>3. a - 1 # 0 => ~(HEAP_PARENT(a - 1) >= a - 1)
      BY <3>1, Parents
    <3>4. Order'
      <4>1. call' # Returned /\ \A k : call' # Decrease(k)
        BY <3>1, CallsDiffer
      <4>2. \A k, b : call' = Heapify(k, b) => k = a - 1 /\ b = a - 1
        BY <3>1, CallsDiffer
      <4> QED BY <1>6, <2>4, <3>2, <3>3, <4>1, <4>2 DEF Order
    <3>5. HeapTypeOK'
      <4>1. \E k \in Used', b \in Used' : b <= k /\ call' = Heapify(k, b)
        BY <1>6, <3>1
      <4> QED BY <1>0, <1>6, <2>1, <4>1 DEF HeapTypeOK
    <3> QED BY <2>2, <3>4, <3>5 DEF HeapInv
  <2> QED BY <2>5, <2>6
<1> QED BY <1>7, <1>8

\* An item rises by a level, or stays.
LEMMA RisingKeeps ==
    ASSUME HeapInv, heap_decrease
    PROVE  HeapInv' /\ FreeIds' = FreeIds
PROOF
<1>0. HeapTypeOK /\ Distinct /\ Order
  BY DEF HeapInv
<1>1. PICK i \in Used : call = Decrease(i) /\ i = call.i
  BY <1>0, CallIs DEF heap_decrease
<1>2. (\A j \in Used \ {0} : j # i => Ordered(j)) /\ OrderedAcross(i)
  BY <1>0, <1>1 DEF Order
<1>3. /\ Used \subseteq Nat /\ \A k \in Used : data[k] \in Nat
      /\ \A k \in Used \ {0} : HEAP_PARENT(k) \in Used /\ HEAP_PARENT(k) < k
  BY <1>0, UsedIs, Parents
<1>4. curSize' = curSize /\ popped' = popped /\ Used' = Used
  BY DEF heap_decrease, Used
<1>5. CASE i > 0 /\ data[i] < data[HEAP_PARENT(i)]
  <2>1. PICK p \in Used : p = HEAP_PARENT(i)
    BY <1>1, <1>3, <1>5
  <2>2. data' = HEAP_SWAP(i, p) /\ call' = Decrease(p) /\ i # 0 /\ p # i /\ data[i] < data[p]
    BY <1>1, <1>3, <1>5, <2>1 DEF heap_decrease
  <2>3. /\ data' \in [Indices -> AllIds]
        /\ data'[i] = data[p] /\ data'[p] = data[i]
        /\ \A k \in Used : k \notin {i, p} => data'[k] = data[k]
    BY <1>0, <1>1, <2>1, <2>2, SwapIs
  <2>4. FreeIds' = FreeIds /\ Distinct'
    BY <1>0, <1>1, <1>4, <2>1, <2>2, SwapKeeps
  <2>5. HeapTypeOK'
    BY <1>0, <1>4, <2>1, <2>2, <2>3 DEF HeapTypeOK
  <2>6. ASSUME NEW j \in Used \ {0}, j # p PROVE data'[HEAP_PARENT(j)] <= data'[j]
    <3>1. CASE j = i
      BY <1>1, <1>3, <2>1, <2>2, <2>3, <3>1
    <3>2. CASE j # i /\ HEAP_PARENT(j) = p
      <4>1. data[p] <= data[j]
        BY <1>2, <2>6, <3>2 DEF Ordered
      <4> QED BY <1>1, <1>3, <2>2, <2>3, <2>6, <3>2, <4>1
    <3>3. CASE j # i /\ HEAP_PARENT(j) = i
      <4>1. data[p] <= data[j]
        BY <1>2, <2>1, <2>2, <2>6, <3>3 DEF OrderedAcross
      <4> QED BY <2>3, <2>6, <3>3, <4>1
    <3>4. CASE j # i /\ HEAP_PARENT(j) \notin {i, p}
      BY <1>2, <1>3, <2>3, <2>6, <3>4 DEF Ordered
    <3> QED BY <3>1, <3>2, <3>3, <3>4
  <2>7. ASSUME p # 0, NEW c \in Used \ {0}, HEAP_PARENT(c) = p PROVE data'[HEAP_PARENT(p)] <= data'[c]
    <3>1. HEAP_PARENT(p) \in Used /\ HEAP_PARENT(p) < p /\ p < i /\ HEAP_PARENT(p) \notin {i, p}
      BY <1>1, <1>3, <2>1, <2>2, <2>7
    <3>2. data[HEAP_PARENT(p)] <= data[p]
      BY <1>2, <2>1, <2>2, <2>7 DEF Ordered
    <3>3. CASE c = i
      BY <2>3, <3>1, <3>2, <3>3
    <3>4. CASE c # i
      <4>1. data[p] <= data[c] /\ c # p
        BY <1>2, <1>3, <2>7, <3>4 DEF Ordered
      <4>2. data'[c] = data[c] /\ data'[HEAP_PARENT(p)] = data[HEAP_PARENT(p)]
        BY <2>3, <3>1, <3>4, <4>1
      <4>3. data[c] \in Nat /\ data[p] \in Nat /\ data[HEAP_PARENT(p)] \in Nat
        BY <1>3, <2>1, <3>1
      <4> QED BY <3>2, <4>1, <4>2, <4>3
    <3> QED BY <3>3, <3>4
  <2>8. Order'
    <3>1. call' # Returned /\ \A k, b : call' # Heapify(k, b)
      BY <2>2, CallsDiffer
    <3>2. \A k : call' = Decrease(k) => k = p
      BY <2>2, CallsDiffer
    <3>3. \A j \in Used' \ {0} : j # p => Ordered(j)'
      BY <1>4, <2>6 DEF Ordered
    <3>4. p # 0 => \A c \in Used' \ {0} : HEAP_PARENT(c) = p => data'[HEAP_PARENT(p)] <= data'[c]
      BY <1>4, <2>7
    <3> QED BY <3>1, <3>2, <3>3, <3>4 DEF Order, OrderedAcross
  <2> QED BY <2>4, <2>5, <2>8 DEF HeapInv
<1>6. CASE ~(i > 0 /\ data[i] < data[HEAP_PARENT(i)])
  <2>1. data' = data /\ call' = Returned
    BY <1>1, <1>6 DEF heap_decrease
  <2>2. \A j \in Used \ {0} : Ordered(j)
    <3> TAKE j \in Used \ {0}
    <3>1. CASE j # i
      BY <1>2, <3>1
    <3>2. CASE j = i
      <4>1. i \in Nat \ {0} /\ data[i] \in Nat /\ data[HEAP_PARENT(i)] \in Nat
        BY <1>3, <3>2
      <4> QED BY <1>6, <3>2, <4>1 DEF Ordered
    <3> QED BY <3>1, <3>2
  <2>3. Order'
    BY <1>4, <2>1, <2>2, CallsDiffer DEF Order, Ordered
  <2>4. FreeIds' = FreeIds /\ Distinct'
    BY <1>0, <1>4, <2>1 DEF FreeIds, Distinct
  <2>5. HeapTypeOK'
    BY <1>0, <1>4, <2>1 DEF HeapTypeOK
  <2> QED BY <2>3, <2>4, <2>5 DEF HeapInv
<1> QED BY <1>5, <1>6

\* heap_push puts a new id behind the last item, where there is room.
LEMMA PushKeeps ==
    ASSUME HeapInv, NEW item \in AllIds \ FreeIds, heap_push(item)
    PROVE  HeapInv' /\ FreeIds' = FreeIds \cup {item} /\ popped' = popped
PROOF
<1>0. HeapTypeOK /\ Distinct /\ Order
  BY DEF HeapInv
<1>1. /\ call = Returned /\ data' = [data EXCEPT ![curSize] = item]
      /\ curSize' = curSize + 1 /\ call' = Decrease(curSize) /\ popped' = popped
  BY DEF heap_push
<1>2. curSize \in Nat /\ curSize < HEAPSIZE /\ curSize \in Indices
  BY <1>0, FreeIdsCounted, UsedIs, Sizes DEF HeapTypeOK, Indices
<1>3. /\ Used' = Used \cup {curSize} /\ curSize \notin Used
      /\ Used \subseteq Indices /\ Used \subseteq Nat /\ \A k \in Used : k < curSize
  BY <1>0, <1>1, <1>2, UsedIs DEF Used
<1>4. data'[curSize] = item /\ (\A k \in Used : data'[k] = data[k]) /\ data' \in [Indices -> AllIds]
  BY <1>0, <1>1, <1>2, <1>3 DEF HeapTypeOK
<1>5. FreeIds = {data[k] : k \in Used} /\ FreeIds' = {data'[k] : k \in Used'}
  BY DEF FreeIds, Used
<1>6. FreeIds' = FreeIds \cup {item}
  BY <1>3, <1>4, <1>5
<1>7. Distinct'
  <2>1. \A k \in Used : data[k] # item
    BY <1>5
  <2> QED BY <1>0, <1>3, <1>4, <2>1 DEF Distinct
<1>8. HeapTypeOK'
  <2>1. curSize' \in 0 .. HEAPSIZE
    BY <1>1, <1>2, Sizes
  <2>2. \E k \in Used' : call' = Decrease(k)
    BY <1>1, <1>3
  <2> QED BY <1>0, <1>1, <1>4, <2>1, <2>2 DEF HeapTypeOK
<1>9. Order'
  <2>1. \A j \in Used' \ {0} : j # curSize => Ordered(j)'
    <3> SUFFICES ASSUME NEW j \in Used \ {0} PROVE data'[HEAP_PARENT(j)] <= data'[j]
      BY <1>3 DEF Ordered
    <3>1. HEAP_PARENT(j) \in Used /\ Ordered(j)
      BY <1>0, <1>1, UsedIs DEF Order
    <3> QED BY <1>4, <3>1 DEF Ordered
  <2>2. \A c \in Used' \ {0} : HEAP_PARENT(c) # curSize
    <3> TAKE c \in Used' \ {0}
    <3>1. c \in Nat \ {0} /\ c <= curSize
      BY <1>2, <1>3
    <3> QED BY <1>2, <3>1, Parents
  <2>3. call' # Returned /\ \A k, b : call' # Heapify(k, b)
    BY <1>1, CallsDiffer
  <2>4. \A k : call' = Decrease(k) => k = curSize
    BY <1>1, CallsDiffer
  <2> QED BY <2>1, <2>2, <2>3, <2>4 DEF Order, OrderedAcross
<1> QED BY <1>1, <1>6, <1>7, <1>8, <1>9 DEF HeapInv

\* heap_pop takes the root, which is the lowest id.
LEMMA PopKeeps ==
    ASSUME HeapInv, heap_pop
    PROVE  /\ HeapInv'
           /\ FreeIds = {} => popped' = 0 /\ FreeIds' = FreeIds
           /\ FreeIds # {} => /\ popped' \in FreeIds
                              /\ \A id \in FreeIds : popped' <= id
                              /\ FreeIds' = FreeIds \ {popped'}
PROOF
<1>0. HeapTypeOK /\ Distinct /\ Order
  BY DEF HeapInv
<1>1. call = Returned /\ \A j \in Used \ {0} : Ordered(j)
  BY <1>0 DEF heap_pop, Order
<1>2. FreeIds = {data[k] : k \in Used} /\ FreeIds' = {data'[k] : k \in Used'} /\ curSize \in Nat
  BY <1>0, UsedIs DEF FreeIds, Used
<1>3. CASE curSize = 0
  <2>1. FreeIds = {}
    BY <1>2, <1>3 DEF Used
  <2>2. popped' = 0 /\ data' = data /\ curSize' = curSize /\ call' = call
    BY <1>3 DEF heap_pop
  <2>3. HeapTypeOK' /\ Distinct' /\ Order' /\ FreeIds' = FreeIds
    BY <1>0, <2>2 DEF HeapTypeOK, Distinct, Order, Ordered, OrderedAcross, FreeIds, Used
  <2> QED BY <2>1, <2>2, <2>3 DEF HeapInv
<1>4. CASE curSize # 0
  <2>1. 0 \in Used /\ data[0] \in FreeIds /\ popped' = data[0] /\ curSize' = curSize - 1
    BY <1>2, <1>4 DEF Used, heap_pop
  <2>2. \A id \in FreeIds : popped' <= id
    BY <1>0, <1>1, <1>2, <2>1, RootIsLowest
  <2>3. popped' \in AllIds /\ curSize' \in 0 .. HEAPSIZE
    BY <1>0, <1>2, <1>4, <2>1, UsedIs, Sizes DEF HeapTypeOK
  <2>4. CASE curSize = 1
    <3>1. data' = data /\ call' = Returned /\ Used' = {} /\ Used = {0}
      BY <1>1, <2>1, <2>4 DEF heap_pop, Used
    <3>2. HeapTypeOK'
      BY <1>0, <2>3, <3>1 DEF HeapTypeOK
    <3>3. Distinct' /\ Order'
      BY <3>1 DEF Distinct, Order
    <3>4. FreeIds' = FreeIds \ {popped'}
      BY <1>2, <2>1, <3>1
    <3> QED BY <2>1, <2>2, <3>2, <3>3, <3>4 DEF HeapInv
  <2>5. CASE curSize # 1
    <3>1. PICK last \in Used : last = curSize - 1 /\ last # 0
      BY <1>2, <1>4, <2>5 DEF Used
    <3>2. data' = HEAP_SWAP(0, last) /\ call' = Heapify(0, 0)
      BY <1>4, <2>5, <3>1 DEF heap_pop
    <3>3. /\ data' \in [Indices -> AllIds]
          /\ data'[0] = data[last] /\ data'[last] = data[0]
          /\ \A k \in Used : k \notin {0, last} => data'[k] = data[k]
      BY <1>0, <2>1, <3>1, <3>2, SwapIs
    <3>4. Used' = Used \ {last} /\ 0 \in Used'
      BY <1>2, <2>1, <3>1 DEF Used
    <3>5. HeapTypeOK'
      <4>1. \E k \in Used', b \in Used' : b <= k /\ call' = Heapify(k, b)
        BY <3>2, <3>4
      <4> QED BY <2>3, <3>3, <4>1 DEF HeapTypeOK
    <3>6. Distinct'
      BY <1>0, <2>1, <3>1, <3>3, <3>4 DEF Distinct
    <3>7. FreeIds' = FreeIds \ {popped'}
      BY <1>0, <1>2, <2>1, <3>1, <3>3, <3>4 DEF Distinct
    <3>8. Order'
      <4>1. call' # Returned /\ \A k : call' # Decrease(k)
        BY <3>2, CallsDiffer
      <4>2. \A k, b : call' = Heapify(k, b) => k = 0 /\ b = 0
        BY <3>2, CallsDiffer
      <4>3. \A j \in Used' \ {0} : HEAP_PARENT(j) # 0 => Ordered(j)'
        <5> SUFFICES ASSUME NEW j \in Used \ {0, last}, HEAP_PARENT(j) # 0 PROVE data'[HEAP_PARENT(j)] <= data'[j]
          BY <3>4 DEF Ordered
        <5>1. j \in Nat \ {0} /\ j < last /\ HEAP_PARENT(j) \in Used /\ HEAP_PARENT(j) < j /\ HEAP_PARENT(j) \in Nat
          BY <1>0, <1>2, <3>1, UsedIs, Parents DEF Used
        <5>2. HEAP_PARENT(j) \notin {0, last}
          BY <3>1, <5>1
        <5> QED BY <1>1, <3>3, <5>1, <5>2 DEF Ordered
      <4> QED BY <4>1, <4>2, <4>3 DEF Order
    <3> QED BY <2>1, <2>2, <3>5, <3>6, <3>7, <3>8 DEF HeapInv
  <2> QED BY <2>4, <2>5
<1> QED BY <1>3, <1>4

LEMMA NextKeeps ==
    ASSUME HeapInv, [Next]_vars
    PROVE  HeapInv' /\ [P!Next]_<<FreeIds, popped>>
PROOF
<1>1. CASE heapify
  <2>1. popped' = popped
    BY <1>1 DEF heapify
  <2> QED BY <1>1, <2>1, SinkingKeeps
<1>2. CASE heap_decrease
  <2>1. popped' = popped
    BY <1>2 DEF heap_decrease
  <2> QED BY <1>2, <2>1, RisingKeeps
<1>3. CASE heap_pop
  BY <1>3, PopKeeps DEF P!Next, P!PopLowest, P!PopEmpty
<1>4. ASSUME NEW item \in AllIds \ FreeIds, heap_push(item)
      PROVE  HeapInv' /\ [P!Next]_<<FreeIds, popped>>
  BY <1>4, PushKeeps DEF P!Next, P!Push
<1>5. CASE UNCHANGED vars
  BY <1>5 DEF vars, HeapInv, HeapTypeOK, Distinct, Order, Ordered, OrderedAcross, FreeIds, Used
<1> QED BY <1>1, <1>2, <1>3, <1>4, <1>5 DEF Next

------------------------------------------------------------------------------
(* Theorems *)

\* The array is in heap order between two calls, and out of order only around the
\* item that rises or sinks within one; no id is in it twice.
THEOREM HeapInvariant == Spec => []HeapInv
PROOF
<1>1. Init => HeapInv
  BY InitInv
<1>2. HeapInv /\ [Next]_vars => HeapInv'
  BY NextKeeps
<1> QED BY <1>1, <1>2, PTL DEF Spec

\* As long as flowdb_thread returns only ids that it has taken, heap_push, which
\* does not check the size, never writes behind the array, and no id is in the
\* heap twice, however many ids there are.
THEOREM HeapNeverExceedsArray == Spec => []ArrayNotExceeded
PROOF
<1>1. HeapInv => ArrayNotExceeded
  BY FreeIdsCounted, Sizes DEF HeapInv, HeapTypeOK, ArrayNotExceeded
<1> QED BY <1>1, HeapInvariant, PTL

\* heap_build, heap_push and heap_pop implement the set of free ids that module
\* FlowDB uses in place of the heap: "to assign the lowest id possible"
\* (flow_db.c:151), heap_pop takes the lowest id, for any number of ids and any
\* order in which the array was filled.
THEOREM HeapImplementsIdPool == Spec => ImplementsIdPool
PROOF
<1>1. Init => P!Init
  BY InitInv DEF Init, P!Init
<1>2. HeapInv /\ [Next]_vars => [P!Next]_<<FreeIds, popped>>
  BY NextKeeps
<1> QED BY <1>1, <1>2, HeapInvariant, PTL DEF Spec, ImplementsIdPool, P!Spec

\* Every iteration of the loops in heapify and heap_decrease comes closer to the
\* end of the call: an item sinks within the array until heap_build goes on to the
\* index before, or rises towards the root.
CallsAdvance ==
    /\ heapify => \/ call' = Returned
                  \/ call'.step = "heapify" /\ call'.a \in Nat /\ call'.a < call.a
                  \/ call'.step = "heapify" /\ call'.a = call.a /\ call'.i > call.i /\ call'.i < curSize
    /\ heap_decrease => \/ call' = Returned
                        \/ call'.step = "decrease" /\ call'.i \in Nat /\ call'.i < call.i

\* The loops of heap_build, heapify and heap_decrease, which have no bound of their
\* own ("while (1)", and an unsigned index counted down past 0), come to an end.
THEOREM HeapCallsAdvance == Spec => [][CallsAdvance]_vars
PROOF
<1>1. ASSUME HeapInv PROVE CallsAdvance
  <2>0. HeapTypeOK
    BY <1>1 DEF HeapInv
  <2>1. ASSUME heapify PROVE \/ call' = Returned
                             \/ call'.step = "heapify" /\ call'.a \in Nat /\ call'.a < call.a
                             \/ call'.step = "heapify" /\ call'.a = call.a /\ call'.i > call.i /\ call'.i < curSize
    <3>1. PICK i \in Used, a \in Used : i = call.i /\ a = call.a
      BY <2>0, <2>1, CallIs DEF heapify
    <3>2. PICK m : m = Smallest(i)
      OBVIOUS
    <3>3. m \in Used /\ (m # i => m # 0 /\ HEAP_PARENT(m) = i)
      BY <2>0, <3>2, SmallestIs
    <3>4. /\ i \in Nat /\ a \in Nat /\ m \in Nat /\ m < curSize
          /\ m # i => m > i
      BY <2>0, <3>1, <3>3, UsedIs, Parents DEF Used
    <3>5. /\ m # i => call' = Heapify(m, a)
          /\ m = i => call' = IF a = 0 THEN Returned ELSE Heapify(a - 1, a - 1)
      BY <2>1, <3>1, <3>2 DEF heapify
    <3> QED BY <3>1, <3>4, <3>5 DEF Heapify
  <2>2. ASSUME heap_decrease PROVE \/ call' = Returned
                                   \/ call'.step = "decrease" /\ call'.i \in Nat /\ call'.i < call.i
    <3>1. PICK i \in Used : i = call.i /\ i \in Nat
      BY <2>0, <2>2, CallIs, UsedIs DEF heap_decrease
    <3>2. i > 0 => HEAP_PARENT(i) \in Nat /\ HEAP_PARENT(i) < i
      BY <3>1, Parents
    <3>3. call' = Returned \/ (i > 0 /\ call' = Decrease(HEAP_PARENT(i)))
      BY <2>2, <3>1 DEF heap_decrease
    <3> QED BY <3>1, <3>2, <3>3 DEF Decrease
  <2> QED BY <2>1, <2>2 DEF CallsAdvance
<1>2. HeapInv => [CallsAdvance]_vars
  BY <1>1
<1> QED BY <1>2, HeapInvariant, PTL
=============================================================================
