-------------------------- MODULE HashTable_proofs --------------------------
(***************************************************************************)
(* Theorems about the flow table and the session table, for tables of any  *)
(* size, any keys, values and hash functions: the table stays in order and *)
(* implements a dictionary, what a lookup without a lock can return, and   *)
(* what feature_export_thread prints although flowdb_thread changes the    *)
(* table under its hands.                                                  *)
(*                                                                         *)
(* The first part is about the writer that both tables share, the second   *)
(* about the lookups in the flow table, the third about the copy of the    *)
(* session table.                                                          *)
(***************************************************************************)
EXTENDS FlowTable, SessionTable, FiniteSetTheorems, WellFoundedInduction, NaturalsInduction, TLAPS

------------------------------------------------------------------------------
(* Slots are arranged in a circle *)

\* The remainders of numbers that are at most one round off.
LEMMA Remainders ==
    ASSUME NEW m \in Nat \ {0}, NEW a \in Int
    PROVE  /\ a \in 0 .. m - 1 => a % m = a
           /\ a \in m .. m + m - 1 => a % m = a - m
           /\ a \in -m .. -1 => a % m = a + m
           /\ a % m \in 0 .. m - 1
PROOF
<1>1. a \in 0 .. m - 1 => a % m = a
  BY Z3
<1>2. a \in m .. m + m - 1 => a % m = a - m
  BY Z3
<1>3. a \in -m .. -1 => a % m = a + m
  BY Z3
<1>4. a % m \in 0 .. m - 1
  BY Z3
<1> QED BY <1>1, <1>2, <1>3, <1>4

\* There is only one way to write a number as a multiple and a remainder.
LEMMA RemainderIsUnique ==
    ASSUME NEW m \in Nat \ {0}, NEW p \in Int, NEW q \in Int, NEW r \in 0 .. m - 1, NEW s \in 0 .. m - 1,
           p * m + r = q * m + s
    PROVE  r = s
PROOF
<1>1. (p - q) * m = s - r
  BY Z3
<1>2. CASE p - q >= 1
  <2>1. (p - q) * m >= m
     BY <1>2, Z3
  <2> QED BY <2>1, <1>1
<1>3. CASE p - q <= -1
  <2>1. (p - q) * m <= -m
     BY <1>3, Z3
  <2> QED BY <2>1, <1>1
<1>4. CASE p = q
  BY <1>4, <1>1
<1> QED BY <1>2, <1>3, <1>4

\* The probe sequence of a hash is that of its home.
LEMMA RemainderOfSum ==
    ASSUME NEW m \in Nat \ {0}, NEW a \in Int, NEW d \in 0 .. m - 1
    PROVE  (a + d) % m = IF (a % m) + d < m THEN (a % m) + d ELSE (a % m) + d - m
PROOF
<1> DEFINE p == a \div m
           r == a % m
           q == (a + d) \div m
           s == (a + d) % m
           t == IF r + d < m THEN r + d ELSE r + d - m
           u == IF r + d < m THEN p ELSE p + 1
<1>1. p \in Int /\ r \in 0 .. m - 1 /\ a = p * m + r
  BY Z3
<1>2. q \in Int /\ s \in 0 .. m - 1 /\ a + d = q * m + s
  BY Z3
<1> HIDE DEF p, r, q, s
<1>3. u \in Int /\ t \in 0 .. m - 1
  BY <1>1
<1>4. a + d = u * m + t
  <2>1. CASE r + d < m
    BY <1>1, <2>1, Z3
  <2>2. CASE ~(r + d < m)
    BY <1>1, <2>2, Z3
  <2> QED BY <2>1, <2>2
<1>5. s = t
  <2> HIDE DEF t, u
  <2> QED BY <1>2, <1>3, <1>4, RemainderIsUnique
<1> QED BY <1>5 DEF r, s

\* The distance of a slot from another one, going up and around.
LEMMA DistanceIs ==
    ASSUME NEW i \in Slots, NEW home \in Slots
    PROVE  /\ Distance(i, home) = IF i >= home THEN i - home ELSE (i - home) + Size
           /\ Distance(i, home) \in Slots
           /\ Distance(i, home) \in Int
PROOF
<1>1. Size \in Nat \ {0} /\ i \in Int /\ home \in Int /\ i - home \in Int
  BY SizeAssumption DEF Slots
<1>2. CASE i >= home
  <2>1. i - home \in 0 .. Size - 1
    BY <1>1, <1>2 DEF Slots
  <2>2. Distance(i, home) = i - home
    BY <1>1, <2>1, Remainders DEF Distance
  <2> QED BY <1>1, <1>2, <2>1, <2>2 DEF Slots
<1>3. CASE ~(i >= home)
  <2>1. i - home \in -Size .. -1
    BY <1>1, <1>3 DEF Slots
  <2>2. Distance(i, home) = (i - home) + Size
    BY <1>1, <2>1, Remainders DEF Distance
  <2> QED BY <1>1, <1>3, <2>1, <2>2 DEF Slots
<1> QED BY <1>2, <1>3

\* Going a distance from a slot comes to the slot at that distance.
LEMMA SlotAt ==
    ASSUME NEW home \in Slots, NEW d \in Slots
    PROVE  /\ (home + d) % Size \in Slots
           /\ Distance((home + d) % Size, home) = d
PROOF
<1>1. Size \in Nat \ {0} /\ home \in Int /\ d \in 0 .. Size - 1 /\ home \in 0 .. Size - 1
  BY SizeAssumption DEF Slots
<1>2. home % Size = home
  BY <1>1, Remainders
<1> DEFINE i == (home + d) % Size
<1>3. i = IF home + d < Size THEN home + d ELSE home + d - Size
  BY <1>1, <1>2, RemainderOfSum
<1> HIDE DEF i
<1>4. i \in Slots
  BY <1>1, <1>3 DEF Slots
<1>5. Distance(i, home) = IF i >= home THEN i - home ELSE (i - home) + Size
  BY <1>4, DistanceIs
<1>6. Distance(i, home) = d
  BY <1>1, <1>3, <1>5
<1> QED BY <1>4, <1>6 DEF i

\* And the slot is reached by going its distance.
LEMMA SlotAtDistance ==
    ASSUME NEW home \in Slots, NEW i \in Slots
    PROVE  (home + Distance(i, home)) % Size = i
PROOF
<1> DEFINE d == Distance(i, home)
           j == (home + d) % Size
<1>1. d \in Slots
  BY DistanceIs
<1>2. j \in Slots /\ Distance(j, home) = d
  BY <1>1, SlotAt
<1>3. Size \in Nat \ {0}
  BY SizeAssumption
<1>4. Distance(i, home) = IF i >= home THEN i - home ELSE (i - home) + Size
  BY DistanceIs
<1> HIDE DEF j
<1>5. Distance(j, home) = IF j >= home THEN j - home ELSE (j - home) + Size
  BY <1>2, DistanceIs
<1>6. j = i
  BY <1>2, <1>3, <1>4, <1>5 DEF Slots
<1> QED BY <1>6 DEF j

\* The home of a hash is a slot.
LEMMA HomeIsSlot ==
    ASSUME NEW hash \in Nat
    PROVE  HASH2INDEX(hash) \in Slots
PROOF BY SizeAssumption, Remainders DEF HASH2INDEX, Slots

\* Slots at the same distance are the same.
LEMMA SameDistance ==
    ASSUME NEW home \in Slots, NEW i \in Slots, NEW j \in Slots, Distance(i, home) = Distance(j, home)
    PROVE  i = j
PROOF
<1>1. (home + Distance(i, home)) % Size = i /\ (home + Distance(j, home)) % Size = j
  BY SlotAtDistance
<1> QED BY <1>1

\* The path from a home to a slot: the slots that a search from the home comes to
\* before, and the slot itself.
Within(j, i, home) == Distance(j, home) <= Distance(i, home)

\* Distances on a path add up.
LEMMA PathAddsUp ==
    ASSUME NEW home \in Slots, NEW i \in Slots, NEW j \in Slots, Distance(j, home) <= Distance(i, home)
    PROVE  Distance(i, j) = Distance(i, home) - Distance(j, home)
PROOF
<1>1. Size \in Nat \ {0}
  BY SizeAssumption
<1>2. /\ Distance(i, home) = IF i >= home THEN i - home ELSE (i - home) + Size
      /\ Distance(j, home) = IF j >= home THEN j - home ELSE (j - home) + Size
      /\ Distance(i, j) = IF i >= j THEN i - j ELSE (i - j) + Size
  BY DistanceIs
<1> QED BY <1>1, <1>2 DEF Slots

\* From a slot on a path to the end of the path one stays on the path.
LEMMA PathIsConnected ==
    ASSUME NEW home \in Slots, NEW hole \in Slots, NEW i \in Slots, NEW j \in Slots,
           Within(hole, i, home), Distance(j, hole) <= Distance(i, hole)
    PROVE  Within(j, i, home)
PROOF
<1>1. Size \in Nat \ {0}
  BY SizeAssumption
<1>2. /\ Distance(hole, home) = IF hole >= home THEN hole - home ELSE (hole - home) + Size
      /\ Distance(i, home) = IF i >= home THEN i - home ELSE (i - home) + Size
      /\ Distance(j, home) = IF j >= home THEN j - home ELSE (j - home) + Size
      /\ Distance(j, hole) = IF j >= hole THEN j - hole ELSE (j - hole) + Size
      /\ Distance(i, hole) = IF i >= hole THEN i - hole ELSE (i - hole) + Size
  BY DistanceIs
<1> QED BY <1>1, <1>2 DEF Slots, Within

\* A path that does not lead over a slot e comes closer and closer to it.
LEMMA PathComesCloser ==
    ASSUME NEW home \in Slots, NEW hole \in Slots, NEW i \in Slots, NEW e \in Slots,
           Distance(hole, home) < Distance(i, home), Within(e, i, home) => i = e
    PROVE  Distance(e, i) < Distance(e, hole)
PROOF
<1>1. /\ Distance(hole, home) \in Int /\ Distance(i, home) \in Int /\ Distance(e, home) \in Int
      /\ Distance(e, i) \in Int /\ Distance(e, hole) \in Int
  BY DistanceIs
<1>2. Distance(i, home) <= Distance(e, home)
  <2>1. CASE i = e
    BY <1>1, <2>1
  <2>2. CASE i # e
    BY <1>1, <2>2 DEF Within
  <2> QED BY <2>1, <2>2
<1>3. Distance(e, i) = Distance(e, home) - Distance(i, home)
  BY <1>2, PathAddsUp
<1>4. Distance(e, hole) = Distance(e, home) - Distance(hole, home)
  <2>1. Distance(hole, home) <= Distance(e, home)
    BY <1>1, <1>2
  <2> QED BY <2>1, PathAddsUp
<1> QED BY <1>1, <1>3, <1>4

\* What comes closer to e, having started before it, moves away from its start.
LEMMA CloserIsFurther ==
    ASSUME NEW e \in Slots, NEW i \in Slots, NEW j \in Slots, NEW start \in Slots,
           Distance(e, j) < Distance(e, i), Distance(e, i) <= Distance(e, start)
    PROVE  Distance(j, start) > Distance(i, start)
PROOF
<1>1. Size \in Nat \ {0}
  BY SizeAssumption
<1>2. /\ Distance(e, i) = IF e >= i THEN e - i ELSE (e - i) + Size
      /\ Distance(e, j) = IF e >= j THEN e - j ELSE (e - j) + Size
      /\ Distance(e, start) = IF e >= start THEN e - start ELSE (e - start) + Size
      /\ Distance(j, start) = IF j >= start THEN j - start ELSE (j - start) + Size
      /\ Distance(i, start) = IF i >= start THEN i - start ELSE (i - start) + Size
  BY DistanceIs
<1> QED BY <1>1, <1>2 DEF Slots

------------------------------------------------------------------------------
(* Searching *)

\* A set of numbers that is not empty has a least one.
LEMMA LeastNumber ==
    ASSUME NEW S \in SUBSET Nat, S # {}
    PROVE  \E n \in S : \A m \in S : n <= m
PROOF
<1>1. PICK n \in S : \A m \in S : ~(<<m, n>> \in OpToRel(<, Nat))
  BY NatLessThanWellFounded, WFMin
<1>2. \A m \in S : ~(m < n)
  BY <1>1 DEF OpToRel
<1> QED BY <1>2

\* The slots of a probe sequence, by their distance from the home of the key.
LEMMA SlotOfIs ==
    ASSUME NEW key, murmur[key] \in Nat, NEW d \in Slots
    PROVE  /\ SlotOf(key, d) = (HASH2INDEX(murmur[key]) + d) % Size
           /\ SlotOf(key, d) \in Slots
           /\ Distance(SlotOf(key, d), HASH2INDEX(murmur[key])) = d
PROOF
<1> DEFINE home == HASH2INDEX(murmur[key])
           a == murmur[key]
<1>1. Size \in Nat \ {0} /\ a \in Int /\ d \in 0 .. Size - 1 /\ home \in Slots /\ home \in 0 .. Size - 1 /\ home = a % Size
  BY SizeAssumption, HomeIsSlot DEF Slots, HASH2INDEX
<1>2. home \in Int /\ home % Size = home
  BY <1>1, Remainders
<1>3. SlotOf(key, d) = (a + d) % Size
  BY DEF SlotOf, HASH2INDEX
<1> HIDE DEF home, a
<1>4. (a + d) % Size = IF (a % Size) + d < Size THEN (a % Size) + d ELSE (a % Size) + d - Size
  BY <1>1, RemainderOfSum
<1>5. (home + d) % Size = IF (home % Size) + d < Size THEN (home % Size) + d ELSE (home % Size) + d - Size
  BY <1>1, <1>2, RemainderOfSum
<1>6. SlotOf(key, d) = (home + d) % Size
  BY <1>1, <1>2, <1>3, <1>4, <1>5
<1>7. (home + d) % Size \in Slots /\ Distance((home + d) % Size, home) = d
  BY <1>1, SlotAt
<1> QED BY <1>6, <1>7 DEF home

\* A search that ends does so at the first slot of the probe sequence that is free
\* or holds the key.
LEMMA ProbeEndIs ==
    ASSUME NEW key, murmur[key] \in Nat, \E d \in Slots : ProbeStops(key, d)
    PROVE  /\ ProbeEnd(key) \in Slots
           /\ ~Occupied(ProbeEnd(key)) \/ Holds(ProbeEnd(key), key)
           /\ \A j \in Slots :
                 Distance(j, HASH2INDEX(murmur[key])) < Distance(ProbeEnd(key), HASH2INDEX(murmur[key]))
                    => Occupied(j) /\ ~Holds(j, key)
PROOF
<1> DEFINE home == HASH2INDEX(murmur[key])
           S == {d \in Slots : ProbeStops(key, d)}
           Least(d) == ProbeStops(key, d) /\ \A e \in 0 .. d - 1 : ~ProbeStops(key, e)
<1>1. home \in Slots
  BY HomeIsSlot
<1>2. S \in SUBSET Nat /\ S # {}
  BY SizeAssumption DEF Slots
<1>3. PICK n \in S : \A m \in S : n <= m
  BY <1>2, LeastNumber
<1>4. n \in Slots /\ Least(n)
  <2>1. n \in Slots /\ ProbeStops(key, n)
    BY <1>3
  <2>2. ASSUME NEW e \in 0 .. n - 1, ProbeStops(key, e)
        PROVE  FALSE
    <3>1. e \in Slots
      BY <2>1, SizeAssumption DEF Slots
    <3>2. n <= e
      BY <1>3, <2>2, <3>1
    <3> QED BY <3>2, <2>1, SizeAssumption DEF Slots
  <2> QED BY <2>1, <2>2
<1>5. PICK c : c = CHOOSE d \in Slots : Least(d)
  OBVIOUS
<1>6. c \in Slots /\ Least(c)
  <2> HIDE DEF Least
  <2> QED BY <1>4, <1>5
<1>7. ProbeEnd(key) = SlotOf(key, c)
  BY <1>5 DEF ProbeEnd
<1>8. ProbeEnd(key) \in Slots /\ Distance(ProbeEnd(key), home) = c
  BY <1>6, <1>7, SlotOfIs
<1>9. ~Occupied(ProbeEnd(key)) \/ Holds(ProbeEnd(key), key)
  BY <1>6, <1>7 DEF ProbeStops
<1>10. ASSUME NEW j \in Slots, Distance(j, home) < Distance(ProbeEnd(key), home)
       PROVE  Occupied(j) /\ ~Holds(j, key)
  <2> DEFINE d == Distance(j, home)
  <2>1. d \in Slots /\ (home + d) % Size = j
    BY <1>1, DistanceIs, SlotAtDistance
  <2>2. SlotOf(key, d) = j
    BY <2>1, SlotOfIs
  <2>3. d \in 0 .. c - 1
    BY <1>6, <1>8, <1>10, <2>1, SizeAssumption DEF Slots
  <2>4. ~ProbeStops(key, d)
    BY <1>6, <2>3
  <2> QED BY <2>2, <2>4 DEF ProbeStops
<1> QED BY <1>8, <1>9, <1>10

\* The loop of remove_by_index comes to the first slot behind the empty one that
\* is free or has an entry to move, at the latest to the empty slot itself.
LEMMA ShiftEndIs ==
    ASSUME NEW empty \in Slots, ~Occupied(empty)
    PROVE  /\ ShiftEnd(empty) \in Slots
           /\ ShiftStops(empty, ShiftEnd(empty))
           /\ \A j \in Slots :
                 j # empty /\ (ShiftEnd(empty) = empty \/ Distance(j, empty) < Distance(ShiftEnd(empty), empty))
                    => ~ShiftStops(empty, j)
PROOF
<1> DEFINE At(d) == (empty + d) % Size
           S == {d \in 1 .. Size : ShiftStops(empty, At(d))}
           Least(d) == ShiftStops(empty, At(d)) /\ \A e \in 1 .. d - 1 : ~ShiftStops(empty, At(e))
<1>1. Size \in Nat \ {0} /\ empty \in 0 .. Size - 1
  BY SizeAssumption DEF Slots
<1>2. At(Size) = empty
  <2>1. empty + Size \in Int /\ empty + Size \in Size .. Size + Size - 1
    BY <1>1
  <2>2. (empty + Size) % Size = (empty + Size) - Size
    BY <1>1, <2>1, Remainders
  <2> QED BY <1>1, <2>2
<1>3. \A d \in 1 .. Size - 1 : d \in Slots /\ At(d) \in Slots /\ Distance(At(d), empty) = d
  <2>1. \A d \in 1 .. Size - 1 : d \in Slots
    BY <1>1 DEF Slots
  <2> QED BY <2>1, SlotAt
<1> HIDE DEF At
<1>4. S \in SUBSET Nat /\ S # {}
  <2>1. Size \in S
    BY <1>1, <1>2 DEF ShiftStops
  <2> QED BY <2>1, <1>1
<1>5. PICK n \in S : \A m \in S : n <= m
  BY <1>4, LeastNumber
<1>6. n \in 1 .. Size /\ Least(n)
  BY <1>1, <1>5
<1>7. PICK c : c = CHOOSE d \in 1 .. Size : Least(d)
  OBVIOUS
<1>8. c \in 1 .. Size /\ Least(c)
  <2> HIDE DEF Least
  <2> QED BY <1>6, <1>7
<1>9. ShiftEnd(empty) = At(c)
  BY <1>7 DEF ShiftEnd, At
<1>10. ShiftEnd(empty) \in Slots
  BY <1>1, <1>2, <1>3, <1>8, <1>9
<1>11. ShiftStops(empty, ShiftEnd(empty))
  BY <1>8, <1>9
<1>12. ASSUME NEW j \in Slots, j # empty,
              ShiftEnd(empty) = empty \/ Distance(j, empty) < Distance(ShiftEnd(empty), empty)
       PROVE  ~ShiftStops(empty, j)
  <2> DEFINE d == Distance(j, empty)
  <2>1. d \in Slots /\ (empty + d) % Size = j
    BY DistanceIs, SlotAtDistance
  <2>2. d # 0
    <3>1. d = IF j >= empty THEN j - empty ELSE (j - empty) + Size
      BY DistanceIs
    <3> QED BY <1>1, <1>12, <3>1 DEF Slots
  <2>3. At(d) = j /\ d \in 1 .. Size - 1
    BY <1>1, <2>1, <2>2 DEF At, Slots
  <2>4. d < c
    <3>1. CASE c = Size
      BY <2>3, <3>1, <1>1
    <3>2. CASE c # Size
      <4>1. c \in 1 .. Size - 1
        BY <1>1, <1>8, <3>2
      <4>2. Distance(ShiftEnd(empty), empty) = c
        BY <1>3, <1>9, <4>1
      <4>3. ShiftEnd(empty) # empty
        BY <4>1, <4>2, <1>1, DistanceIs DEF Slots
      <4> QED BY <4>2, <4>3, <1>12
    <3> QED BY <3>1, <3>2
  <2> QED BY <1>1, <1>8, <2>3, <2>4
<1> QED BY <1>10, <1>11, <1>12

------------------------------------------------------------------------------
(* The inductive invariant *)

Entry == [occupied : BOOLEAN, hash : Nat, key : Keys \cup {NoKey}, value : Values \cup {0}]

Writes == [step : {"write"}, into : Slots, from : Slots \cup {-1}, start : Slots \cup {-1},
           todo : SUBSET StoreGroups, item : Entry]
Clears == [step : {"clear"}, empty : Slots, start : Slots, todo : SUBSET Cleared]
Shifts == [step : {"shift"}, empty : Slots, start : Slots]

TableTypeOK ==
    /\ entries \in [Slots -> Entry]
    /\ feature_index_to_entry_map \in [Values -> Slots \cup {-1}]
    /\ num_entries \in Int
    /\ murmur \in [Keys -> Nat]
    /\ writer \in {WriterIdle} \cup Writes \cup Clears \cup Shifts

\* A store changes the fields of an entry that it is about.
LEMMA StoredEntry ==
    ASSUME NEW e \in Entry, NEW item \in Entry, NEW fields \in StoreGroups, NEW new,
           new = [f \in DOMAIN e |-> IF f \in fields THEN item[f] ELSE e[f]]
    PROVE  /\ new \in Entry
           /\ new.occupied = e.occupied
           /\ new.hash = IF "hash" \in fields THEN item.hash ELSE e.hash
           /\ new.key = IF "key" \in fields THEN item.key ELSE e.key
           /\ new.value = IF "value" \in fields THEN item.value ELSE e.value
PROOF
<1>1. "occupied" \notin fields
  BY StoreGroupsAssumption
<1>2. DOMAIN e = {"occupied", "hash", "key", "value"}
  BY DEF Entry
<1>3. /\ new["occupied"] = e.occupied
      /\ new["hash"] = IF "hash" \in fields THEN item.hash ELSE e.hash
      /\ new["key"] = IF "key" \in fields THEN item.key ELSE e.key
      /\ new["value"] = IF "value" \in fields THEN item.value ELSE e.value
  BY <1>1, <1>2
<1>4. new = [occupied |-> new["occupied"], hash |-> new["hash"], key |-> new["key"], value |-> new["value"]]
  BY <1>2
<1>5. /\ new["occupied"] \in BOOLEAN /\ new["hash"] \in Nat
      /\ new["key"] \in Keys \cup {NoKey} /\ new["value"] \in Values \cup {0}
  BY <1>3 DEF Entry
<1>6. new \in Entry
  BY <1>4, <1>5 DEF Entry
<1> QED BY <1>3, <1>6

\* The writer is at one of four places.
LEMMA WriterIs ==
    ASSUME TableTypeOK
    PROVE  /\ writer.step \in {"idle", "write", "clear", "shift"}
           /\ writer.step = "idle" <=> writer = WriterIdle
           /\ writer.step = "write" <=> writer \in Writes
           /\ writer.step = "clear" <=> writer \in Clears
           /\ writer.step = "shift" <=> writer \in Shifts
PROOF BY DEF TableTypeOK, WriterIdle, Writes, Clears, Shifts

HomeOf(i) == HASH2INDEX(entries[i].hash)
Writing == writer.step = "write"
Clearing == writer.step = "clear"
Shifting == writer.step \in {"clear", "shift"}

\* Whether no store that is left to do concerns a field.
Stored(field) == \A fields \in writer.todo : field \notin fields

\* An occupied entry has a key, its hash and a value.
WellFormed ==
    \A i \in Slots : Occupied(i) =>
        /\ entries[i].key \in Keys
        /\ entries[i].value \in Values
        /\ entries[i].hash = murmur[entries[i].key]

KeysUnique == \A i, j \in Slots : Occupied(i) /\ Occupied(j) /\ entries[i].key = entries[j].key => i = j

\* The slots that a removal leaves free on the paths of other entries.
Gap == IF Moving THEN {writer.into, writer.from} ELSE IF Shifting THEN {writer.empty} ELSE {}

GapIsFree == \A i \in Gap : ~Occupied(i)

Unbroken == \A i, j \in Slots : Occupied(i) /\ Within(j, i, HomeOf(i)) => Occupied(j) \/ j \in Gap

\* What is being written: to a free slot, at the end of an unbroken path.
ItemReady ==
    Writing =>
        /\ ~Occupied(writer.into)
        /\ writer.item.key \in Keys
        /\ writer.item.value \in Values
        /\ writer.item.hash = murmur[writer.item.key]
        /\ \A j \in Slots : LET home == HASH2INDEX(writer.item.hash)
                            IN  Distance(j, home) < Distance(writer.into, home) => Occupied(j)
        /\ Moving => writer.from # writer.into /\ writer.start # -1

\* The entry being written or cleared has its key and value to itself.
ItemApart ==
    \A i \in Slots : Occupied(i) =>
        /\ Writing => entries[i].key # writer.item.key /\ entries[i].value # writer.item.value
        /\ Clearing => entries[i].value # entries[writer.empty].value

\* What has been stored so far.
ItemStored ==
    Writing =>
        /\ Stored("hash") => entries[writer.into].hash = writer.item.hash
        /\ Stored("key") => entries[writer.into].key = writer.item.key
        /\ Stored("value") => entries[writer.into].value = writer.item.value
        /\ Stored("map") => feature_index_to_entry_map[writer.item.value] = writer.into

\* The map names the occupied entries, and the one that the writer is at.
InFlight(value) ==
    \/ Writing /\ value = writer.item.value
    \/ Clearing /\ value = entries[writer.empty].value /\ ~Stored("map")

Mapped == \A i \in Slots : Occupied(i) => feature_index_to_entry_map[entries[i].value] = i

NamesEntry ==
    \A value \in Values : feature_index_to_entry_map[value] # -1 =>
        \/ InFlight(value)
        \/ /\ Occupied(feature_index_to_entry_map[value])
           /\ entries[feature_index_to_entry_map[value]].value = value

OccupiedSlots == {i \in Slots : Occupied(i)}

Counted == num_entries = Cardinality(OccupiedSlots) + (IF Moving THEN 1 ELSE 0)

\* Even in a full table some slot is on no entry's path but that of its own entry:
\* the slot that was filled last.  A removal comes closer to it with every move.
CutAt(e) ==
    /\ \A i \in Slots : Occupied(i) /\ Within(e, i, HomeOf(i)) => i = e
    /\ Moving => /\ ~Within(e, writer.into, HASH2INDEX(writer.item.hash))
                 /\ Distance(e, writer.from) < Distance(e, writer.into)
                 /\ Distance(e, writer.into) <= Distance(e, writer.start)
    /\ Shifting => Distance(e, writer.empty) <= Distance(e, writer.start)

Cut == \E e \in Slots : CutAt(e)

TableInv ==
    /\ TableTypeOK
    /\ WellFormed /\ KeysUnique /\ GapIsFree /\ Unbroken
    /\ ItemReady /\ ItemApart /\ ItemStored
    /\ Mapped /\ NamesEntry /\ Counted
    /\ Cut

\* An empty table is in order.
LEMMA InitTable == TableInit => TableInv
PROOF
<1> SUFFICES ASSUME TableInit
             PROVE  TableInv
  OBVIOUS
<1>1. TableTypeOK
  <2>1. Unused \in Entry
    BY DEF Unused, Entry
  <2>2. entries \in [Slots -> Entry]
    BY <2>1 DEF TableInit
  <2>3. murmur \in [Keys -> Nat]
    BY HashAssumption DEF TableInit
  <2> QED BY <2>2, <2>3 DEF TableInit, TableTypeOK
<1>2. \A i \in Slots : ~Occupied(i)
  BY DEF TableInit, Occupied, Unused
<1>3. writer.step = "idle" /\ ~Moving
  BY DEF TableInit, WriterIdle, Moving
<1>4. WellFormed /\ KeysUnique /\ GapIsFree /\ Unbroken /\ ItemReady /\ ItemApart /\ ItemStored /\ Mapped
  BY <1>2, <1>3 DEF WellFormed, KeysUnique, GapIsFree, Unbroken, ItemReady, ItemApart, ItemStored, Mapped,
                    Gap, Writing, Clearing, Shifting
<1>5. NamesEntry
  BY DEF TableInit, NamesEntry
<1>6. Counted
  <2>1. OccupiedSlots = {}
    BY <1>2 DEF OccupiedSlots
  <2>2. num_entries = 0
    BY DEF TableInit
  <2> QED BY <1>3, <2>1, <2>2, FS_EmptySet DEF Counted
<1>7. Cut
  <2>1. 0 \in Slots
    BY SizeAssumption DEF Slots
  <2>2. CutAt(0)
    BY <1>2, <1>3 DEF CutAt, Shifting
  <2> QED BY <2>1, <2>2 DEF Cut
<1> QED BY <1>1, <1>4, <1>5, <1>6, <1>7 DEF TableInv

\* A step that leaves the occupied entries alone.
SameEntries ==
    /\ \A i \in Slots : Occupied(i)' = Occupied(i)
    /\ \A i \in Slots : Occupied(i) => entries'[i] = entries[i]
    /\ murmur' = murmur

LEMMA SameEntriesKeep ==
    ASSUME TableInv, SameEntries
    PROVE  /\ WellFormed'
           /\ KeysUnique'
           /\ OccupiedSlots' = OccupiedSlots
           /\ \A i \in Slots : Occupied(i) => HomeOf(i)' = HomeOf(i)
           /\ Gap' = Gap => GapIsFree' /\ Unbroken'
PROOF
<1>1. \A i \in Slots : Occupied(i)' <=> Occupied(i)
  BY DEF SameEntries
<1>2. WellFormed'
  BY <1>1 DEF TableInv, SameEntries, WellFormed
<1>3. KeysUnique'
  BY <1>1 DEF TableInv, SameEntries, KeysUnique
<1>4. OccupiedSlots' = OccupiedSlots
  BY <1>1 DEF OccupiedSlots
<1>5. \A i \in Slots : Occupied(i) => HomeOf(i)' = HomeOf(i)
  BY DEF SameEntries, HomeOf
<1>6. ASSUME Gap' = Gap PROVE GapIsFree' /\ Unbroken'
  <2>1. Gap \subseteq Slots
    BY WriterIs DEF TableInv, Gap, Moving, Shifting, Writes, Clears, Shifts
  <2>2. GapIsFree'
    BY <1>1, <1>6, <2>1 DEF TableInv, GapIsFree
  <2>3. Unbroken'
    BY <1>1, <1>5, <1>6 DEF TableInv, Unbroken
  <2> QED BY <2>2, <2>3
<1> QED BY <1>2, <1>3, <1>4, <1>5, <1>6

------------------------------------------------------------------------------
(* flow_hashtable_add *)

\* There are as many slots as the size of the table says.
LEMMA SlotsAreFinite ==
    /\ IsFiniteSet(Slots) /\ Cardinality(Slots) = Size
    /\ IsFiniteSet(OccupiedSlots) /\ Cardinality(OccupiedSlots) \in Nat
    /\ OccupiedSlots \subseteq Slots
    /\ Cardinality(OccupiedSlots) # Size => \E i \in Slots : ~Occupied(i)
PROOF
<1>1. IsFiniteSet(Slots) /\ Cardinality(Slots) = Size
  <2>1. 0 \in Int /\ Size - 1 \in Int /\ ~(0 > Size - 1) /\ (Size - 1) - 0 + 1 = Size
    BY SizeAssumption
  <2> QED BY <2>1, FS_Interval DEF Slots
<1>2. OccupiedSlots \in SUBSET Slots
  BY DEF OccupiedSlots
<1>3. IsFiniteSet(OccupiedSlots)
  BY <1>1, <1>2, FS_Subset
<1>4. Cardinality(OccupiedSlots) \in Nat
  BY <1>3, FS_CardinalityType
<1>5. ASSUME \A i \in Slots : Occupied(i)
      PROVE  Cardinality(OccupiedSlots) = Size
  <2>1. OccupiedSlots = Slots
    BY <1>5 DEF OccupiedSlots
  <2> QED BY <1>1, <2>1
<1> QED BY <1>1, <1>2, <1>3, <1>4, <1>5

\* Between two operations the search for a key that is not found ends at a free
\* slot, and no entry has the key.
LEMMA NotFoundIsAbsent ==
    ASSUME TableInv, NEW key \in Keys, writer = WriterIdle, num_entries # Size, ~Found(key)
    PROVE  /\ ProbeEnd(key) \in Slots
           /\ ~Occupied(ProbeEnd(key))
           /\ \A i \in Slots : Occupied(i) => entries[i].key # key
           /\ \A j \in Slots : LET home == HASH2INDEX(murmur[key])
                               IN  Distance(j, home) < Distance(ProbeEnd(key), home) => Occupied(j)
PROOF
<1> DEFINE home == HASH2INDEX(murmur[key])
           into == ProbeEnd(key)
<1>1. murmur[key] \in Nat /\ home \in Slots
  BY HomeIsSlot DEF TableInv, TableTypeOK
<1>2. ~Moving /\ Gap = {}
  BY DEF WriterIdle, Moving, Gap, Shifting
<1>3. PICK f \in Slots : ~Occupied(f)
  BY <1>2, SlotsAreFinite DEF TableInv, Counted
<1>4. \E d \in Slots : ProbeStops(key, d)
  <2> DEFINE d == Distance(f, home)
  <2>1. d \in Slots /\ (home + d) % Size = f
    BY <1>1, DistanceIs, SlotAtDistance
  <2>2. SlotOf(key, d) = f
    BY <1>1, <2>1, SlotOfIs
  <2>3. ProbeStops(key, d)
    BY <1>3, <2>2 DEF ProbeStops
  <2> QED BY <2>1, <2>3
<1>5. /\ into \in Slots
      /\ \A j \in Slots : Distance(j, home) < Distance(into, home) => Occupied(j) /\ ~Holds(j, key)
  BY <1>1, <1>4, ProbeEndIs
<1>6. ~Occupied(into)
  BY <1>4 DEF Found
<1>7. ASSUME NEW i \in Slots, Occupied(i), entries[i].key = key
      PROVE  FALSE
  <2>1. entries[i].hash = murmur[key] /\ HomeOf(i) = home
    BY <1>7 DEF TableInv, WellFormed, HomeOf
  <2>2. Holds(i, key)
    BY <1>7, <2>1 DEF Holds
  <2>3. ~(Distance(i, home) < Distance(into, home))
    BY <1>5, <2>2
  <2>4. Within(into, i, home)
    BY <1>1, <1>5, <2>3, DistanceIs DEF Within
  <2>5. Occupied(into)
    BY <1>2, <1>5, <1>7, <2>1, <2>4 DEF TableInv, Unbroken
  <2> QED BY <1>6, <2>5
<1> QED BY <1>5, <1>6, <1>7

LEMMA AddKeepsTable ==
    ASSUME TableInv, NEW key \in Keys, NEW value \in Values, StartAdd(key, value)
    PROVE  TableInv'
PROOF
<1> DEFINE new == [occupied |-> FALSE, hash |-> murmur[key], key |-> key, value |-> value]
<1>1. /\ writer = WriterIdle /\ num_entries # Size /\ ~Found(key)
      /\ feature_index_to_entry_map[value] = -1
      /\ entries' = entries /\ feature_index_to_entry_map' = feature_index_to_entry_map
      /\ num_entries' = num_entries /\ murmur' = murmur
      /\ writer' = [step |-> "write", into |-> ProbeEnd(key), from |-> -1, start |-> -1, todo |-> StoreGroups,
                    item |-> new]
  BY DEF StartAdd, Add, table
<1>2. /\ ProbeEnd(key) \in Slots
      /\ ~Occupied(ProbeEnd(key))
      /\ \A i \in Slots : Occupied(i) => entries[i].key # key
      /\ \A j \in Slots : LET home == HASH2INDEX(murmur[key])
                          IN  Distance(j, home) < Distance(ProbeEnd(key), home) => Occupied(j)
  BY <1>1, NotFoundIsAbsent
<1>3. new \in Entry
  BY DEF Entry, TableInv, TableTypeOK
<1>4. TableTypeOK'
  <2>1. writer' \in Writes
    BY <1>1, <1>2, <1>3 DEF Writes
  <2> QED BY <1>1, <2>1 DEF TableInv, TableTypeOK
<1>5. /\ writer'.step = "write" /\ writer'.into = ProbeEnd(key) /\ writer'.from = -1 /\ writer'.todo = StoreGroups
      /\ writer'.item.key = key /\ writer'.item.value = value /\ writer'.item.hash = murmur[key]
  BY <1>1
<1>6. ~Moving' /\ ~Moving /\ Writing' /\ ~Clearing' /\ ~Shifting' /\ ~Shifting /\ Gap = {} /\ Gap' = {}
  BY <1>1, <1>5 DEF Moving, Writing, Clearing, Shifting, Gap, WriterIdle
<1>7. SameEntries
  BY <1>1 DEF SameEntries, Occupied
<1>8. WellFormed' /\ KeysUnique' /\ GapIsFree' /\ Unbroken' /\ OccupiedSlots' = OccupiedSlots
  BY <1>6, <1>7, SameEntriesKeep
<1>9. ItemReady'
  BY <1>1, <1>2, <1>5, <1>6 DEF ItemReady, Occupied
<1>10. ItemApart'
  <2>1. \A i \in Slots : Occupied(i) => entries[i].value # value
    BY <1>1 DEF TableInv, Mapped, Slots
  <2> QED BY <1>1, <1>2, <1>5, <1>6, <2>1 DEF ItemApart, Occupied
<1>11. ItemStored'
  BY <1>5, StoreGroupsAssumption DEF ItemStored, Stored
<1>12. Mapped' /\ NamesEntry'
  <2>1. \A v \in Values : ~InFlight(v)
    BY <1>1 DEF InFlight, Writing, Clearing, WriterIdle
  <2> QED BY <1>1, <2>1 DEF TableInv, Mapped, NamesEntry, Occupied
<1>13. Counted'
  BY <1>1, <1>6, <1>8 DEF TableInv, Counted
<1>14. Cut'
  BY <1>1, <1>6 DEF TableInv, Cut, CutAt, Occupied, HomeOf
<1> QED BY <1>4, <1>8, <1>9, <1>10, <1>11, <1>12, <1>13, <1>14 DEF TableInv

\* What a store does: it changes the free slot that is written to, and the map.
LEMMA StoreEffect ==
    ASSUME TableInv, NEW fields \in StoreGroups, Store(fields)
    PROVE  /\ writer \in Writes /\ writer' \in Writes
           /\ writer'.into = writer.into /\ writer'.from = writer.from /\ writer'.start = writer.start
           /\ writer'.item = writer.item /\ writer'.todo = writer.todo \ {fields}
           /\ entries' \in [Slots -> Entry]
           /\ \A i \in Slots : i # writer.into => entries'[i] = entries[i]
           /\ entries'[writer.into].occupied = entries[writer.into].occupied
           /\ entries'[writer.into].hash = IF "hash" \in fields THEN writer.item.hash ELSE entries[writer.into].hash
           /\ entries'[writer.into].key = IF "key" \in fields THEN writer.item.key ELSE entries[writer.into].key
           /\ entries'[writer.into].value = IF "value" \in fields THEN writer.item.value ELSE entries[writer.into].value
           /\ feature_index_to_entry_map' =
                 IF "map" \in fields THEN [feature_index_to_entry_map EXCEPT ![writer.item.value] = writer.into]
                                     ELSE feature_index_to_entry_map
           /\ num_entries' = num_entries
PROOF
<1>1. writer \in Writes
  BY WriterIs DEF TableInv, Store
<1>2. writer' = [writer EXCEPT !.todo = @ \ {fields}]
  BY DEF Store
<1>3. /\ writer' \in Writes
      /\ writer'.into = writer.into /\ writer'.from = writer.from /\ writer'.start = writer.start
      /\ writer'.item = writer.item /\ writer'.todo = writer.todo \ {fields}
  BY <1>1, <1>2 DEF Writes
<1> DEFINE old == entries[writer.into]
           new == [f \in DOMAIN old |-> IF f \in fields THEN writer.item[f] ELSE old[f]]
<1>4. entries' = [entries EXCEPT ![writer.into] = new]
  BY DEF Store
<1>5. writer.into \in Slots /\ writer.item \in Entry /\ entries \in [Slots -> Entry] /\ old \in Entry
  BY <1>1 DEF Writes, TableInv, TableTypeOK
<1>6. /\ new \in Entry
      /\ new.occupied = old.occupied
      /\ new.hash = IF "hash" \in fields THEN writer.item.hash ELSE old.hash
      /\ new.key = IF "key" \in fields THEN writer.item.key ELSE old.key
      /\ new.value = IF "value" \in fields THEN writer.item.value ELSE old.value
  BY <1>5, StoredEntry
<1> HIDE DEF new
<1>7. entries' \in [Slots -> Entry] /\ entries'[writer.into] = new /\ \A i \in Slots : i # writer.into => entries'[i] = entries[i]
  BY <1>4, <1>5, <1>6
<1>8. /\ feature_index_to_entry_map' =
            IF "map" \in fields THEN [feature_index_to_entry_map EXCEPT ![writer.item.value] = writer.into]
                                ELSE feature_index_to_entry_map
      /\ num_entries' = num_entries
  BY DEF Store
<1> QED BY <1>1, <1>3, <1>6, <1>7, <1>8

LEMMA StoreKeepsTable ==
    ASSUME TableInv, NEW fields \in StoreGroups, Store(fields), murmur' = murmur
    PROVE  TableInv'
PROOF
<1> DEFINE map == feature_index_to_entry_map
           into == writer.into
           item == writer.item
<1>1. /\ writer \in Writes /\ writer' \in Writes
      /\ writer'.into = into /\ writer'.from = writer.from /\ writer'.start = writer.start
      /\ writer'.item = item /\ writer'.todo = writer.todo \ {fields}
      /\ num_entries' = num_entries
  BY StoreEffect
<1>2. /\ entries' \in [Slots -> Entry]
      /\ \A i \in Slots : i # into => entries'[i] = entries[i]
      /\ entries'[into].occupied = entries[into].occupied
  BY StoreEffect
<1>3. /\ entries'[into].hash = IF "hash" \in fields THEN item.hash ELSE entries[into].hash
      /\ entries'[into].key = IF "key" \in fields THEN item.key ELSE entries[into].key
      /\ entries'[into].value = IF "value" \in fields THEN item.value ELSE entries[into].value
  BY StoreEffect
<1>4. map' = IF "map" \in fields THEN [map EXCEPT ![item.value] = into] ELSE map
  BY StoreEffect
<1>5. into \in Slots /\ writer.step = "write" /\ writer'.step = "write" /\ map \in [Values -> Slots \cup {-1}]
  BY <1>1 DEF Writes, TableInv, TableTypeOK
<1>6. ~Occupied(into) /\ item.value \in Values
  BY <1>5 DEF TableInv, ItemReady, Writing
<1>7. /\ map' \in [Values -> Slots \cup {-1}]
      /\ "map" \in fields => map'[item.value] = into
      /\ "map" \notin fields => map'[item.value] = map[item.value]
      /\ \A v \in Values : v # item.value => map'[v] = map[v]
  BY <1>4, <1>5, <1>6
<1>8. SameEntries
  BY <1>2, <1>6 DEF SameEntries, Occupied
<1>9. Gap' = Gap /\ (Moving' <=> Moving) /\ Writing /\ Writing' /\ ~Clearing' /\ ~Shifting' /\ ~Clearing
  BY <1>1, <1>5 DEF Gap, Moving, Writing, Clearing, Shifting
<1>10. WellFormed' /\ KeysUnique' /\ GapIsFree' /\ Unbroken' /\ OccupiedSlots' = OccupiedSlots
  BY <1>8, <1>9, SameEntriesKeep
<1>11. \A i \in Slots : (Occupied(i)' <=> Occupied(i)) /\ (Occupied(i) => entries'[i] = entries[i])
  BY <1>8 DEF SameEntries
<1>12. TableTypeOK'
  BY <1>1, <1>2, <1>7 DEF TableInv, TableTypeOK
<1>13. ItemReady'
  BY <1>1, <1>5, <1>9, <1>11 DEF TableInv, ItemReady
<1>14. ItemApart'
  BY <1>1, <1>9, <1>11 DEF TableInv, ItemApart
<1>15. ItemStored'
  <2>1. \A f : Stored(f)' /\ f \notin fields => Stored(f)
    BY <1>1 DEF Stored
  <2> QED BY <1>1, <1>3, <1>7, <1>9, <2>1 DEF TableInv, ItemStored
<1>16. Mapped'
  <2>1. \A i \in Slots : Occupied(i) => entries[i].value \in Values /\ entries[i].value # item.value
    BY <1>9 DEF TableInv, WellFormed, ItemApart
  <2> QED BY <1>7, <1>11, <2>1 DEF TableInv, Mapped
<1>17. NamesEntry'
  <2>1. SUFFICES ASSUME NEW v \in Values, map'[v] # -1, v # item.value
                 PROVE  Occupied(map[v]) /\ entries[map[v]].value = v /\ map'[v] = map[v] /\ map[v] \in Slots
    BY <1>1, <1>9, <1>11 DEF NamesEntry, InFlight
  <2>2. map'[v] = map[v] /\ map[v] \in Slots
    BY <1>5, <1>7, <2>1
  <2>3. ~InFlight(v)
    BY <1>9, <2>1 DEF InFlight
  <2> QED BY <2>1, <2>2, <2>3 DEF TableInv, NamesEntry
<1>18. Counted'
  BY <1>1, <1>9, <1>10 DEF TableInv, Counted
<1>19. Cut'
  <2>1. PICK e \in Slots : CutAt(e)
    BY DEF TableInv, Cut
  <2>2. \A i \in Slots : Occupied(i) => HomeOf(i)' = HomeOf(i)
    BY <1>8, SameEntriesKeep
  <2>3. CutAt(e)'
    BY <1>1, <1>9, <1>11, <2>1, <2>2 DEF CutAt
  <2> QED BY <2>3 DEF Cut
<1> QED BY <1>10, <1>12, <1>13, <1>14, <1>15, <1>16, <1>17, <1>18, <1>19 DEF TableInv

\* The barrier has made everything else of the entry visible when it becomes
\* occupied.
LEMMA PublishEffect ==
    ASSUME TableInv, Publish, NEW into, into = writer.into
    PROVE  /\ writer \in Writes
           /\ entries' \in [Slots -> Entry]
           /\ \A i \in Slots : i # into => entries'[i] = entries[i]
           /\ Occupied(into)'
           /\ entries'[into].hash = writer.item.hash
           /\ entries'[into].key = writer.item.key
           /\ entries'[into].value = writer.item.value
           /\ feature_index_to_entry_map[writer.item.value] = into
           /\ feature_index_to_entry_map' = feature_index_to_entry_map
PROOF
<1>1. writer \in Writes /\ writer.todo = {} /\ Writing
  BY WriterIs DEF TableInv, Publish, Writing
<1>2. \A f : Stored(f)
  BY <1>1 DEF Stored
<1>3. /\ entries[into].hash = writer.item.hash
      /\ entries[into].key = writer.item.key
      /\ entries[into].value = writer.item.value
      /\ feature_index_to_entry_map[writer.item.value] = into
  BY <1>1, <1>2 DEF TableInv, ItemStored
<1>4. entries' = [entries EXCEPT ![into].occupied = TRUE]
  BY DEF Publish
<1>5. into \in Slots /\ entries \in [Slots -> Entry] /\ entries[into] \in Entry
  BY <1>1 DEF Writes, TableInv, TableTypeOK
<1> DEFINE new == [entries[into] EXCEPT !.occupied = TRUE]
<1>6. /\ new \in Entry /\ new.occupied = TRUE
      /\ new.hash = entries[into].hash
      /\ new.key = entries[into].key
      /\ new.value = entries[into].value
  BY <1>5 DEF Entry
<1>7. entries' = [entries EXCEPT ![into] = new]
  BY <1>4
<1> HIDE DEF new
<1>8. entries' \in [Slots -> Entry] /\ entries'[into] = new /\ \A i \in Slots : i # into => entries'[i] = entries[i]
  BY <1>5, <1>6, <1>7
<1> QED BY <1>1, <1>3, <1>6, <1>8 DEF Publish, Occupied

\* Where a new occupied entry leaves what is said of entries and the map.
LEMMA PublishKeepsEntries ==
    ASSUME TableInv, Publish, murmur' = murmur, NEW into, into = writer.into, NEW item, item = writer.item
    PROVE  /\ \A i \in Slots : i # into => (Occupied(i)' <=> Occupied(i)) /\ HomeOf(i)' = HomeOf(i)
           /\ HomeOf(into)' = HASH2INDEX(item.hash)
           /\ WellFormed' /\ KeysUnique' /\ Mapped'
           /\ Cardinality(OccupiedSlots') = Cardinality(OccupiedSlots) + 1
           /\ NamesEntry'
PROOF
<1> DEFINE map == feature_index_to_entry_map
<1>1. /\ writer \in Writes
      /\ \A i \in Slots : i # into => entries'[i] = entries[i]
      /\ Occupied(into)'
      /\ entries'[into].hash = item.hash
      /\ entries'[into].key = item.key
      /\ entries'[into].value = item.value
      /\ map[item.value] = into
      /\ map' = map
  BY PublishEffect, Zenon
<1>2. into \in Slots /\ Writing /\ ~Clearing
  BY <1>1 DEF Writes, Writing, Clearing
<1>3. ~Occupied(into) /\ item.key \in Keys /\ item.value \in Values /\ item.hash = murmur[item.key]
  BY <1>2 DEF TableInv, ItemReady
<1>4. \A i \in Slots : i # into => (Occupied(i)' <=> Occupied(i)) /\ HomeOf(i)' = HomeOf(i)
  BY <1>1 DEF Occupied, HomeOf
<1>5. HomeOf(into)' = HASH2INDEX(item.hash)
  BY <1>1 DEF HomeOf
<1>6. WellFormed'
  BY <1>1, <1>3, <1>4 DEF TableInv, WellFormed
<1>7. \A i \in Slots : Occupied(i) => entries[i].key # item.key /\ entries[i].value # item.value
  BY <1>2 DEF TableInv, ItemApart
<1>8. KeysUnique'
  BY <1>1, <1>4, <1>7 DEF TableInv, KeysUnique
<1>9. Mapped'
  BY <1>1, <1>4 DEF TableInv, Mapped
<1>10. Cardinality(OccupiedSlots') = Cardinality(OccupiedSlots) + 1
  <2>1. OccupiedSlots' = OccupiedSlots \cup {into}
    BY <1>1, <1>2, <1>4 DEF OccupiedSlots
  <2>2. into \notin OccupiedSlots
    BY <1>3 DEF OccupiedSlots
  <2> QED BY <2>1, <2>2, SlotsAreFinite, FS_AddElement
<1>11. ASSUME NEW v \in Values, map'[v] # -1
       PROVE  entries'[map[v]].occupied /\ entries'[map[v]].value = v
  <2>1. CASE v = item.value
    BY <1>1, <2>1 DEF Occupied
  <2>2. CASE v # item.value
    <3>1. map[v] # -1 /\ map[v] \in Slots
      BY <1>1, <1>11 DEF TableInv, TableTypeOK
    <3>2. ~InFlight(v)
      BY <1>2, <2>2 DEF InFlight
    <3>3. Occupied(map[v]) /\ entries[map[v]].value = v
      BY <3>1, <3>2 DEF TableInv, NamesEntry
    <3>4. map[v] # into
      BY <1>3, <3>3
    <3> QED BY <1>1, <3>1, <3>3, <3>4 DEF Occupied
  <2> QED BY <2>1, <2>2
<1>12. NamesEntry'
  BY <1>1, <1>11 DEF NamesEntry, Occupied
<1> QED BY <1>4, <1>5, <1>6, <1>8, <1>9, <1>10, <1>12

LEMMA PublishKeepsTable ==
    ASSUME TableInv, Publish, murmur' = murmur
    PROVE  TableInv'
PROOF
<1>0. PICK into, item, home : into = writer.into /\ item = writer.item /\ home = HASH2INDEX(item.hash)
  OBVIOUS
<1>1. /\ writer \in Writes
      /\ entries' \in [Slots -> Entry]
      /\ Occupied(into)'
      /\ feature_index_to_entry_map' = feature_index_to_entry_map
  BY <1>0, PublishEffect
<1>2. /\ \A i \in Slots : i # into => (Occupied(i)' <=> Occupied(i)) /\ HomeOf(i)' = HomeOf(i)
      /\ HomeOf(into)' = home
      /\ Cardinality(OccupiedSlots') = Cardinality(OccupiedSlots) + 1
  BY <1>0, PublishKeepsEntries
<1>3. WellFormed' /\ KeysUnique' /\ Mapped'
  BY <1>0, PublishKeepsEntries
<1>4. NamesEntry'
  BY <1>0, PublishKeepsEntries
<1>5. into \in Slots /\ Writing /\ ~Clearing /\ ~Shifting /\ home \in Slots
  BY <1>0, <1>1, HomeIsSlot DEF Writes, Entry, Writing, Clearing, Shifting
<1>6. /\ ~Occupied(into)
      /\ \A j \in Slots : Distance(j, home) < Distance(into, home) => Occupied(j)
  BY <1>0, <1>5 DEF TableInv, ItemReady
<1>7. \A j \in Slots : Within(j, into, home) => Occupied(j)'
  <2>1. SUFFICES ASSUME NEW j \in Slots, Within(j, into, home), j # into
                 PROVE  Occupied(j)'
    BY <1>1
  <2>2. Distance(j, home) # Distance(into, home)
    BY <1>5, <2>1, SameDistance
  <2>3. Distance(j, home) < Distance(into, home)
    BY <1>5, <2>1, <2>2, DistanceIs DEF Within
  <2> QED BY <1>2, <1>6, <2>1, <2>3
<1>8. Cardinality(OccupiedSlots) \in Nat /\ num_entries \in Int
  BY SlotsAreFinite DEF TableInv, TableTypeOK
<1>9. CASE writer.from = -1
  <2>1. writer' = WriterIdle /\ num_entries' = num_entries + 1
    BY <1>9 DEF Publish
  <2>2. ~Moving /\ Gap = {} /\ ~Moving' /\ Gap' = {} /\ ~Writing' /\ ~Clearing' /\ ~Shifting'
    BY <1>5, <1>9, <2>1 DEF Moving, Gap, Writing, Clearing, Shifting, WriterIdle
  <2>3. TableTypeOK'
    BY <1>1, <1>8, <2>1 DEF TableInv, TableTypeOK
  <2>4. \A i, j \in Slots : Occupied(i) /\ Within(j, i, HomeOf(i)) => Occupied(j)
    BY <2>2 DEF TableInv, Unbroken
  <2>5. GapIsFree' /\ Unbroken'
    BY <1>1, <1>2, <1>7, <2>2, <2>4 DEF GapIsFree, Unbroken
  <2>6. ItemReady' /\ ItemApart' /\ ItemStored'
    BY <2>2 DEF ItemReady, ItemApart, ItemStored
  <2>7. Counted'
    BY <1>2, <1>8, <2>1, <2>2 DEF TableInv, Counted
  <2>8. CutAt(into)'
    BY <1>2, <1>5, <1>6, <2>2, <2>4 DEF CutAt
  <2>9. Cut'
    BY <1>5, <2>8 DEF Cut
  <2> QED BY <1>3, <1>4, <2>3, <2>5, <2>6, <2>7, <2>9 DEF TableInv
<1>10. CASE writer.from # -1
  <2>1. /\ writer' = [step |-> "shift", empty |-> writer.from, start |-> writer.start]
        /\ num_entries' = num_entries
    BY <1>10 DEF Publish
  <2>2. Moving /\ Gap = {into, writer.from}
    BY <1>0, <1>5, <1>10 DEF Moving, Gap, Writing
  <2>3. /\ writer.from # into /\ writer.start # -1 /\ writer.from \in Slots /\ writer.start \in Slots
        /\ ~Occupied(writer.from)
    BY <1>0, <1>1, <1>5, <1>10, <2>2 DEF TableInv, ItemReady, GapIsFree, Writes
  <2>4. writer' \in Shifts /\ writer'.step = "shift" /\ writer'.empty = writer.from /\ writer'.start = writer.start
    BY <2>1, <2>3 DEF Shifts
  <2>5. ~Moving' /\ Gap' = {writer.from} /\ ~Writing' /\ ~Clearing' /\ Shifting'
    BY <2>4 DEF Moving, Gap, Writing, Clearing, Shifting
  <2>6. TableTypeOK'
    BY <1>1, <2>1, <2>4 DEF TableInv, TableTypeOK
  <2>7. GapIsFree'
    BY <1>2, <2>3, <2>5 DEF GapIsFree
  <2>8. Unbroken'
    BY <1>1, <1>2, <1>7, <2>2, <2>5 DEF TableInv, Unbroken
  <2>9. ItemReady' /\ ItemApart' /\ ItemStored'
    BY <2>5 DEF ItemReady, ItemApart, ItemStored
  <2>10. Counted'
    BY <1>2, <1>8, <2>1, <2>2, <2>5 DEF TableInv, Counted
  <2>11. Cut'
    <3>1. PICK e \in Slots : CutAt(e)
      BY DEF TableInv, Cut
    <3>2. /\ ~Within(e, into, home)
          /\ Distance(e, writer.from) < Distance(e, into)
          /\ Distance(e, into) <= Distance(e, writer.start)
          /\ \A i \in Slots : Occupied(i) /\ Within(e, i, HomeOf(i)) => i = e
      BY <1>0, <2>2, <3>1 DEF CutAt
    <3>3. Distance(e, writer.from) <= Distance(e, writer.start)
      BY <1>5, <2>3, <3>2, DistanceIs
    <3>4. CutAt(e)'
      BY <1>2, <2>4, <2>5, <3>2, <3>3 DEF CutAt
    <3> QED BY <3>4 DEF Cut
  <2> QED BY <1>3, <1>4, <2>6, <2>7, <2>8, <2>9, <2>10, <2>11 DEF TableInv
<1> QED BY <1>9, <1>10

------------------------------------------------------------------------------
(* remove_by_index *)

\* An entry that is freed keeps its fields, and the others are as before.
LEMMA FreeEffect ==
    ASSUME TableInv, NEW i \in Slots, Occupied(i), murmur' = murmur,
           entries' = [entries EXCEPT ![i].occupied = FALSE]
    PROVE  /\ entries' \in [Slots -> Entry]
           /\ ~Occupied(i)'
           /\ entries'[i].key = entries[i].key /\ entries'[i].value = entries[i].value
           /\ \A j \in Slots : j # i => entries'[j] = entries[j] /\ (Occupied(j)' <=> Occupied(j))
           /\ \A j \in Slots : HomeOf(j)' = HomeOf(j)
           /\ WellFormed' /\ KeysUnique'
           /\ Cardinality(OccupiedSlots') = Cardinality(OccupiedSlots) - 1
PROOF
<1> DEFINE new == [entries[i] EXCEPT !.occupied = FALSE]
<1>1. entries \in [Slots -> Entry] /\ entries[i] \in Entry
  BY DEF TableInv, TableTypeOK
<1>2. /\ new \in Entry /\ new.occupied = FALSE
      /\ new.hash = entries[i].hash
      /\ new.key = entries[i].key
      /\ new.value = entries[i].value
  BY <1>1 DEF Entry
<1>3. entries' = [entries EXCEPT ![i] = new]
  OBVIOUS
<1> HIDE DEF new
<1>4. entries' \in [Slots -> Entry] /\ entries'[i] = new /\ \A j \in Slots : j # i => entries'[j] = entries[j]
  BY <1>1, <1>2, <1>3
<1>5. ~Occupied(i)' /\ \A j \in Slots : j # i => (Occupied(j)' <=> Occupied(j))
  BY <1>2, <1>4 DEF Occupied
<1>6. \A j \in Slots : HomeOf(j)' = HomeOf(j)
  BY <1>2, <1>4 DEF HomeOf
<1>7. WellFormed'
  BY <1>4, <1>5 DEF TableInv, WellFormed
<1>8. KeysUnique'
  BY <1>4, <1>5 DEF TableInv, KeysUnique
<1>9. Cardinality(OccupiedSlots') = Cardinality(OccupiedSlots) - 1
  <2>1. OccupiedSlots' = OccupiedSlots \ {i}
    BY <1>5 DEF OccupiedSlots
  <2>2. i \in OccupiedSlots
    BY DEF OccupiedSlots
  <2> QED BY <2>1, <2>2, SlotsAreFinite, FS_RemoveElement
<1> QED BY <1>2, <1>4, <1>5, <1>6, <1>7, <1>8, <1>9

LEMMA RemoveKeepsTable ==
    ASSUME TableInv, writer = WriterIdle, NEW i \in Slots, Occupied(i), RemoveByIndex(i), murmur' = murmur
    PROVE  TableInv'
PROOF
<1> DEFINE map == feature_index_to_entry_map
<1>1. /\ entries' = [entries EXCEPT ![i].occupied = FALSE]
      /\ num_entries' = num_entries - 1
      /\ writer' = [step |-> "clear", empty |-> i, start |-> i, todo |-> Cleared]
      /\ map' = map
  BY DEF RemoveByIndex
<1>2. /\ entries' \in [Slots -> Entry]
      /\ ~Occupied(i)'
      /\ entries'[i].value = entries[i].value
      /\ \A j \in Slots : j # i => entries'[j] = entries[j] /\ (Occupied(j)' <=> Occupied(j))
      /\ \A j \in Slots : HomeOf(j)' = HomeOf(j)
      /\ Cardinality(OccupiedSlots') = Cardinality(OccupiedSlots) - 1
  BY <1>1, FreeEffect
<1>3. WellFormed' /\ KeysUnique'
  BY <1>1, FreeEffect
<1>4. /\ writer' \in Clears /\ writer'.step = "clear" /\ writer'.empty = i /\ writer'.start = i
      /\ writer'.todo = Cleared
  BY <1>1 DEF Clears
<1>5. /\ ~Moving /\ Gap = {} /\ ~Writing /\ ~Clearing
      /\ ~Moving' /\ Gap' = {i} /\ ~Writing' /\ Clearing' /\ Shifting'
  BY <1>4 DEF WriterIdle, Moving, Gap, Writing, Clearing, Shifting
<1>6. TableTypeOK'
  BY <1>1, <1>2, <1>4 DEF TableInv, TableTypeOK
<1>7. GapIsFree' /\ Unbroken'
  BY <1>2, <1>5 DEF TableInv, GapIsFree, Unbroken
<1>8. ItemReady' /\ ItemStored'
  BY <1>5 DEF ItemReady, ItemStored
<1>9. ItemApart'
  BY <1>2, <1>4, <1>5 DEF TableInv, ItemApart, Mapped
<1>10. Mapped'
  BY <1>1, <1>2 DEF TableInv, Mapped
<1>11. NamesEntry'
  <2>1. ~Stored("map")'
    <3>1. PICK fields \in StoreGroups : "map" \in fields
      BY StoreGroupsAssumption
    <3>2. fields \in writer'.todo
      BY <1>4, <3>1 DEF Cleared
    <3> QED BY <3>1, <3>2 DEF Stored
  <2>2. SUFFICES ASSUME NEW v \in Values, map'[v] # -1
                 PROVE  \/ v = entries'[i].value
                        \/ entries'[map'[v]].occupied /\ entries'[map'[v]].value = v
    BY <1>4, <1>5, <2>1 DEF NamesEntry, InFlight, Occupied
  <2>3. ~InFlight(v)
    BY <1>5 DEF InFlight
  <2>4. map[v] \in Slots /\ Occupied(map[v]) /\ entries[map[v]].value = v /\ map'[v] = map[v]
    BY <1>1, <2>2, <2>3 DEF TableInv, TableTypeOK, NamesEntry
  <2> QED BY <1>2, <2>4 DEF Occupied
<1>12. Counted'
  BY <1>1, <1>2, <1>5, SlotsAreFinite DEF TableInv, TableTypeOK, Counted
<1>13. Cut'
  <2>1. PICK e \in Slots : CutAt(e)
    BY DEF TableInv, Cut
  <2>2. Distance(e, i) <= Distance(e, i)
    BY DistanceIs
  <2>3. CutAt(e)'
    BY <1>2, <1>4, <1>5, <2>1, <2>2 DEF CutAt
  <2> QED BY <2>3 DEF Cut
<1> QED BY <1>3, <1>6, <1>7, <1>8, <1>9, <1>10, <1>11, <1>12, <1>13 DEF TableInv

\* Both ways to name the entry to remove lead to an occupied one.
LEMMA StartRemoveKeepsTable ==
    ASSUME TableInv, StartRemove
    PROVE  TableInv' /\ \E i \in Slots : Occupied(i) /\ writer = WriterIdle /\ RemoveByIndex(i)
PROOF
<1>1. murmur' = murmur
  BY DEF StartRemove
<1>2. ASSUME NEW key \in Keys, Remove(key)
      PROVE  \E i \in Slots : Occupied(i) /\ writer = WriterIdle /\ RemoveByIndex(i)
  <2>1. writer = WriterIdle /\ Found(key) /\ RemoveByIndex(ProbeEnd(key))
    BY <1>2 DEF Remove
  <2>2. murmur[key] \in Nat
    BY DEF TableInv, TableTypeOK
  <2>3. ProbeEnd(key) \in Slots /\ Occupied(ProbeEnd(key))
    BY <2>1, <2>2, ProbeEndIs DEF Found
  <2> QED BY <2>1, <2>3
<1>3. ASSUME NEW value \in Values, RemoveByValue(value)
      PROVE  \E i \in Slots : Occupied(i) /\ writer = WriterIdle /\ RemoveByIndex(i)
  <2> DEFINE i == feature_index_to_entry_map[value]
  <2>1. writer = WriterIdle /\ i # -1 /\ RemoveByIndex(i)
    BY <1>3 DEF RemoveByValue
  <2>2. i \in Slots
    BY <2>1 DEF TableInv, TableTypeOK
  <2>3. ~InFlight(value)
    BY <2>1 DEF InFlight, Writing, Clearing, WriterIdle
  <2>4. Occupied(i)
    BY <2>1, <2>3 DEF TableInv, NamesEntry
  <2> QED BY <2>1, <2>2, <2>4
<1>4. \E i \in Slots : Occupied(i) /\ writer = WriterIdle /\ RemoveByIndex(i)
  BY <1>2, <1>3 DEF StartRemove
<1> QED BY <1>1, <1>4, RemoveKeepsTable

LEMMA ClearKeepsTable ==
    ASSUME TableInv, NEW fields \in StoreGroups, Clear(fields), murmur' = murmur
    PROVE  TableInv' /\ SameEntries
PROOF
<1>0. PICK empty : empty = writer.empty
  OBVIOUS
<1> DEFINE map == feature_index_to_entry_map
<1>1. writer \in Clears /\ fields \in writer.todo /\ empty \in Slots /\ writer.start \in Slots
  BY <1>0, WriterIs DEF TableInv, Clear, Clears
<1>2. /\ ~Moving /\ ~Writing /\ Clearing /\ Shifting /\ Gap = {empty}
  BY <1>0, <1>1 DEF Clears, Moving, Writing, Clearing, Shifting, Gap
<1>3. ~Occupied(empty)
  BY <1>2 DEF TableInv, GapIsFree
<1>4. /\ entries' \in [Slots -> Entry]
      /\ entries'[empty].occupied = entries[empty].occupied
      /\ entries'[empty].value = entries[empty].value
      /\ \A j \in Slots : j # empty => entries'[j] = entries[j]
  <2> DEFINE new == [entries[empty] EXCEPT !.hash = 0]
  <2>1. entries \in [Slots -> Entry] /\ entries[empty] \in Entry
    BY <1>1 DEF TableInv, TableTypeOK
  <2>2. new \in Entry /\ new.occupied = entries[empty].occupied /\ new.value = entries[empty].value
    BY <2>1 DEF Entry
  <2>3. entries' = IF "hash" \in fields THEN [entries EXCEPT ![empty] = new] ELSE entries
    BY <1>0 DEF Clear
  <2> HIDE DEF new
  <2> QED BY <1>1, <2>1, <2>2, <2>3
<1>5. SameEntries
  BY <1>3, <1>4 DEF SameEntries, Occupied
<1>6. \A i \in Slots : (Occupied(i)' <=> Occupied(i)) /\ (Occupied(i) => entries'[i] = entries[i])
  BY <1>5 DEF SameEntries
<1>7. /\ map \in [Values -> Slots \cup {-1}] /\ map' \in [Values -> Slots \cup {-1}]
      /\ "map" \in fields /\ entries[empty].value \in Values => map'[entries[empty].value] = -1
      /\ "map" \notin fields => map' = map
      /\ \A v \in Values : v # entries[empty].value => map'[v] = map[v]
  BY <1>0 DEF Clear, TableInv, TableTypeOK
<1>8. /\ writer' \in Clears \cup Shifts
      /\ writer'.step = "clear" => writer'.todo = writer.todo \ {fields}
      /\ writer'.step # "clear" => writer.todo = {fields}
      /\ writer'.empty = empty /\ writer'.start = writer.start
  <2>1. CASE writer.todo = {fields}
    <3>1. writer' = [step |-> "shift", empty |-> writer.empty, start |-> writer.start]
      BY <2>1 DEF Clear
    <3> QED BY <1>0, <1>1, <2>1, <3>1 DEF Shifts
  <2>2. CASE writer.todo # {fields}
    <3>1. writer' = [writer EXCEPT !.todo = @ \ {fields}]
      BY <2>2 DEF Clear
    <3> QED BY <1>0, <1>1, <3>1 DEF Clears
  <2> QED BY <2>1, <2>2
<1>9. ~Moving' /\ ~Writing' /\ Shifting' /\ Gap' = {empty} /\ num_entries' = num_entries
  BY <1>8 DEF Clears, Shifts, Moving, Writing, Shifting, Gap, Clear
<1>10. WellFormed' /\ KeysUnique' /\ GapIsFree' /\ Unbroken' /\ OccupiedSlots' = OccupiedSlots
  BY <1>2, <1>5, <1>9, SameEntriesKeep
<1>11. TableTypeOK'
  BY <1>4, <1>7, <1>8, <1>9 DEF TableInv, TableTypeOK
<1>12. ItemReady' /\ ItemStored'
  BY <1>9 DEF ItemReady, ItemStored
<1>13. \A i \in Slots : Occupied(i) => entries[i].value # entries[empty].value
  BY <1>0, <1>2 DEF TableInv, ItemApart
<1>14. ItemApart'
  BY <1>4, <1>6, <1>8, <1>9, <1>13 DEF ItemApart
<1>15. Mapped'
  BY <1>6, <1>7, <1>13 DEF TableInv, Mapped, WellFormed
<1>16. NamesEntry'
  <2>1. SUFFICES ASSUME NEW v \in Values, map'[v] # -1, ~InFlight(v)'
                 PROVE  map[v] \in Slots /\ map'[v] = map[v] /\ Occupied(map[v]) /\ entries[map[v]].value = v
    BY <1>6 DEF NamesEntry, Occupied
  <2>2. map'[v] = map[v]
    BY <1>7, <2>1
  <2>3. ~InFlight(v)
    <3>1. SUFFICES ASSUME v = entries[empty].value, ~Stored("map")
                   PROVE  FALSE
      BY <1>0, <1>2 DEF InFlight
    <3>2. "map" \notin fields
      BY <1>7, <2>1, <3>1
    <3>3. PICK g \in writer.todo : "map" \in g
      BY <3>1 DEF Stored
    <3>4. writer'.step = "clear" /\ g \in writer'.todo
      BY <1>8, <3>2, <3>3
    <3>5. ~Stored("map")'
      BY <3>3, <3>4 DEF Stored
    <3>6. Clearing' /\ v = entries'[writer'.empty].value
      BY <1>4, <1>8, <3>1, <3>4 DEF Clearing
    <3> QED BY <2>1, <3>5, <3>6 DEF InFlight
  <2> QED BY <1>7, <2>1, <2>2, <2>3 DEF TableInv, NamesEntry
<1>17. Counted'
  BY <1>2, <1>9, <1>10 DEF TableInv, Counted
<1>18. Cut'
  <2>1. PICK e \in Slots : CutAt(e)
    BY DEF TableInv, Cut
  <2>2. \A i \in Slots : Occupied(i) => HomeOf(i)' = HomeOf(i)
    BY <1>5, SameEntriesKeep
  <2>3. CutAt(e)'
    BY <1>0, <1>2, <1>6, <1>8, <1>9, <2>1, <2>2 DEF CutAt
  <2> QED BY <2>3 DEF Cut
<1> QED BY <1>5, <1>10, <1>11, <1>12, <1>14, <1>15, <1>16, <1>17, <1>18 DEF TableInv

\* An entry can be moved to the empty slot if the slot is on its path.
LEMMA CanMoveIs ==
    ASSUME TableInv, NEW i \in Slots, NEW empty \in Slots
    PROVE  CanMove(i, empty) <=> Distance(empty, HomeOf(i)) < Distance(i, HomeOf(i))
PROOF
<1>1. HomeOf(i) \in Slots
  BY HomeIsSlot DEF TableInv, TableTypeOK, Entry, HomeOf
<1>2. Distance(HomeOf(i), HomeOf(i)) = 0
  <2>1. HomeOf(i) \in Int
    BY <1>1, SizeAssumption DEF Slots
  <2> QED BY <1>1, <2>1, DistanceIs
<1>3. Distance(empty, HomeOf(i)) \in Int /\ Distance(i, HomeOf(i)) \in Int /\ Distance(empty, HomeOf(i)) >= 0
  <2>1. Distance(empty, HomeOf(i)) \in Slots
    BY <1>1, DistanceIs
  <2>2. Distance(empty, HomeOf(i)) >= 0
    BY <2>1, SizeAssumption DEF Slots
  <2> QED BY <1>1, <2>2, DistanceIs
<1>4. CanMove(i, empty) <=> i # HomeOf(i) /\ Distance(i, HomeOf(i)) > Distance(empty, HomeOf(i))
  BY DEF CanMove, HomeOf
<1>5. i = HomeOf(i) => Distance(i, HomeOf(i)) = 0
  BY <1>2
<1> QED BY <1>3, <1>4, <1>5

LEMMA TakeKeepsTable ==
    ASSUME TableInv, TakeNext, murmur' = murmur
    PROVE  /\ TableInv'
           /\ \E i \in Slots : /\ Occupied(i) /\ Moving'
                               /\ entries' = [entries EXCEPT ![i].occupied = FALSE]
                               /\ writer'.item.key = entries[i].key /\ writer'.item.value = entries[i].value
PROOF
<1>0. PICK empty, i, home, start : /\ empty = writer.empty /\ i = ShiftEnd(writer.empty)
                                   /\ home = HomeOf(i) /\ start = writer.start
  OBVIOUS
<1> DEFINE map == feature_index_to_entry_map
<1>1. writer \in Shifts /\ empty \in Slots /\ start \in Slots
  BY <1>0, WriterIs DEF TableInv, TakeNext, Shifts
<1>2. ~Moving /\ ~Writing /\ ~Clearing /\ Shifting /\ Gap = {empty}
  BY <1>0, <1>1 DEF Shifts, Moving, Writing, Clearing, Shifting, Gap
<1>3. ~Occupied(empty)
  BY <1>2 DEF TableInv, GapIsFree
<1>4. i \in Slots /\ ShiftStops(empty, i)
  BY <1>0, <1>1, <1>3, ShiftEndIs
<1>5. /\ Occupied(i)
      /\ entries' = [entries EXCEPT ![i].occupied = FALSE]
      /\ writer' = [step |-> "write", into |-> empty, from |-> i, start |-> start, todo |-> StoreGroups,
                    item |-> [entries[i] EXCEPT !.occupied = FALSE]]
      /\ map' = map /\ num_entries' = num_entries
  BY <1>0 DEF TakeNext
<1>6. home \in Slots
  BY <1>0, <1>4, HomeIsSlot DEF TableInv, TableTypeOK, Entry, HomeOf
<1>7. Distance(empty, home) < Distance(i, home)
  BY <1>0, <1>1, <1>4, <1>5, CanMoveIs DEF ShiftStops
<1>8. /\ Distance(empty, home) \in Int /\ Distance(i, home) \in Int /\ i # empty
      /\ \A j \in Slots : Distance(j, home) \in Int
  BY <1>1, <1>4, <1>6, <1>7, DistanceIs
<1>9. /\ entries' \in [Slots -> Entry]
      /\ ~Occupied(i)'
      /\ \A j \in Slots : j # i => entries'[j] = entries[j] /\ (Occupied(j)' <=> Occupied(j))
      /\ \A j \in Slots : HomeOf(j)' = HomeOf(j)
      /\ Cardinality(OccupiedSlots') = Cardinality(OccupiedSlots) - 1
  BY <1>4, <1>5, FreeEffect
<1>10. WellFormed' /\ KeysUnique'
  BY <1>4, <1>5, FreeEffect
<1>11. /\ entries[i].key \in Keys /\ entries[i].value \in Values /\ entries[i].hash = murmur[entries[i].key]
       /\ home = HASH2INDEX(entries[i].hash)
  BY <1>0, <1>4, <1>5 DEF TableInv, WellFormed, HomeOf
<1>12. /\ writer'.step = "write" /\ writer'.into = empty /\ writer'.from = i /\ writer'.start = start
       /\ writer'.todo = StoreGroups /\ writer' \in Writes
       /\ writer'.item.key = entries[i].key /\ writer'.item.value = entries[i].value
       /\ writer'.item.hash = entries[i].hash
  <2> DEFINE item == [entries[i] EXCEPT !.occupied = FALSE]
  <2>1. entries[i] \in Entry
    BY <1>4 DEF TableInv, TableTypeOK
  <2>2. /\ item \in Entry
        /\ item.key = entries[i].key /\ item.value = entries[i].value /\ item.hash = entries[i].hash
    BY <2>1 DEF Entry
  <2>3. writer' = [step |-> "write", into |-> empty, from |-> i, start |-> start, todo |-> StoreGroups, item |-> item]
    BY <1>5
  <2> HIDE DEF item
  <2> QED BY <1>1, <1>4, <2>2, <2>3 DEF Writes
<1>13. Moving' /\ Writing' /\ ~Clearing' /\ ~Shifting' /\ Gap' = {empty, i}
  <2>1. i # -1
    BY <1>4, SizeAssumption DEF Slots
  <2> QED BY <1>12, <2>1 DEF Moving, Writing, Clearing, Shifting, Gap
<1>14. TableTypeOK'
  BY <1>5, <1>9, <1>12 DEF TableInv, TableTypeOK
<1>15. GapIsFree' /\ Unbroken'
  BY <1>1, <1>2, <1>3, <1>4, <1>8, <1>9, <1>13 DEF TableInv, GapIsFree, Unbroken
<1>16. ItemReady'
  <2>1. ASSUME NEW j \in Slots, Distance(j, home) < Distance(empty, home)
        PROVE  Occupied(j)'
    <3>1. Within(j, i, home) /\ j # empty /\ j # i
      BY <1>7, <1>8, <2>1 DEF Within
    <3>2. Occupied(j)
      BY <1>0, <1>2, <1>4, <1>5, <3>1 DEF TableInv, Unbroken
    <3> QED BY <1>9, <3>1, <3>2
  <2>2. start # -1
    BY <1>1, SizeAssumption DEF Slots
  <2>3. ~Occupied(empty)'
    BY <1>1, <1>3, <1>8, <1>9
  <2> QED BY <1>8, <1>11, <1>12, <1>13, <2>1, <2>2, <2>3 DEF ItemReady, Occupied
<1>17. ItemApart'
  BY <1>4, <1>5, <1>9, <1>12, <1>13 DEF TableInv, ItemApart, KeysUnique, Mapped
<1>18. ItemStored'
  BY <1>12, StoreGroupsAssumption DEF ItemStored, Stored
<1>19. Mapped'
  BY <1>5, <1>9 DEF TableInv, Mapped
<1>20. NamesEntry'
  <2>1. SUFFICES ASSUME NEW v \in Values, map'[v] # -1, v # entries[i].value
                 PROVE  entries'[map'[v]].occupied /\ entries'[map'[v]].value = v
    BY <1>12, <1>13 DEF NamesEntry, InFlight, Occupied
  <2>2. ~InFlight(v)
    BY <1>2 DEF InFlight
  <2>3. map[v] \in Slots /\ Occupied(map[v]) /\ entries[map[v]].value = v /\ map'[v] = map[v]
    BY <1>5, <2>1, <2>2 DEF TableInv, TableTypeOK, NamesEntry
  <2> QED BY <1>9, <2>1, <2>3 DEF Occupied
<1>21. Counted'
  BY <1>2, <1>5, <1>9, <1>13, SlotsAreFinite DEF TableInv, Counted
<1>22. Cut'
  <2>1. PICK e \in Slots : CutAt(e)
    BY DEF TableInv, Cut
  <2>2. Distance(e, empty) <= Distance(e, start)
    BY <1>0, <1>2, <2>1 DEF CutAt
  <2>3. Within(e, i, home) => i = e
    BY <1>0, <1>4, <1>5, <2>1 DEF CutAt
  <2>4. Distance(e, i) < Distance(e, empty)
    BY <1>1, <1>4, <1>6, <1>7, <2>3, PathComesCloser
  <2>5. ~Within(e, empty, home)
    BY <1>7, <1>8, <2>3 DEF Within
  <2>6. \A j \in Slots : Occupied(j)' /\ Within(e, j, HomeOf(j)') => j = e
    BY <1>9, <2>1 DEF CutAt
  <2>7. HASH2INDEX(writer'.item.hash) = home
    BY <1>11, <1>12
  <2>8. CutAt(e)'
    BY <1>12, <1>13, <2>2, <2>4, <2>5, <2>6, <2>7 DEF CutAt, Within
  <2> QED BY <2>8 DEF Cut
<1> QED BY <1>4, <1>5, <1>10, <1>12, <1>13, <1>14, <1>15, <1>16, <1>17, <1>18, <1>19, <1>20, <1>21, <1>22 DEF TableInv

\* When the loop comes to a free slot, no entry has the empty slot on its path.
LEMMA NothingLeftToMove ==
    ASSUME TableInv, NEW empty \in Slots, Gap = {empty}, ~Occupied(ShiftEnd(empty)),
           NEW i \in Slots, Occupied(i)
    PROVE  ~Within(empty, i, HomeOf(i))
PROOF
<1> DEFINE home == HomeOf(i)
           end == ShiftEnd(empty)
<1>1. SUFFICES ASSUME Within(empty, i, home)
               PROVE  FALSE
  OBVIOUS
<1>2. ~Occupied(empty) /\ i # empty
  BY DEF TableInv, GapIsFree
<1>3. home \in Slots
  BY HomeIsSlot DEF TableInv, TableTypeOK, Entry, HomeOf
<1>4. Distance(empty, home) < Distance(i, home)
  <2>1. Distance(empty, home) # Distance(i, home)
    BY <1>2, <1>3, SameDistance
  <2> QED BY <1>1, <1>3, <2>1, DistanceIs DEF Within
<1>5. ShiftStops(empty, i)
  BY <1>4, CanMoveIs DEF ShiftStops
<1>6. end \in Slots /\ end # empty /\ ~(Distance(i, empty) < Distance(end, empty))
  BY <1>2, <1>5, ShiftEndIs
<1>7. Distance(end, empty) <= Distance(i, empty)
  BY <1>6, DistanceIs
<1>8. Within(end, i, home)
  BY <1>1, <1>3, <1>6, <1>7, PathIsConnected
<1> QED BY <1>6, <1>8 DEF TableInv, Unbroken

LEMMA EndShiftKeepsTable ==
    ASSUME TableInv, EndShift, murmur' = murmur
    PROVE  TableInv' /\ SameEntries
PROOF
<1>0. PICK empty : empty = writer.empty
  OBVIOUS
<1> DEFINE map == feature_index_to_entry_map
<1>1. writer \in Shifts /\ empty \in Slots /\ writer.step = "shift"
  BY <1>0, WriterIs DEF TableInv, EndShift, Shifts
<1>2. ~Moving /\ ~Writing /\ ~Clearing /\ Shifting /\ Gap = {empty}
  BY <1>0, <1>1 DEF Moving, Writing, Clearing, Shifting, Gap
<1>3. /\ ~Occupied(ShiftEnd(empty)) /\ writer' = WriterIdle
      /\ entries' = entries /\ map' = map /\ num_entries' = num_entries
  BY <1>0 DEF EndShift, table
<1>4. ~Moving' /\ ~Writing' /\ ~Clearing' /\ ~Shifting' /\ Gap' = {}
  BY <1>3 DEF WriterIdle, Moving, Writing, Clearing, Shifting, Gap
<1>5. SameEntries
  BY <1>3 DEF SameEntries, Occupied
<1>6. WellFormed' /\ KeysUnique' /\ OccupiedSlots' = OccupiedSlots
  BY <1>5, SameEntriesKeep
<1>7. TableTypeOK'
  BY <1>3 DEF TableInv, TableTypeOK
<1>8. \A i, j \in Slots : Occupied(i) /\ Within(j, i, HomeOf(i)) => Occupied(j)
  BY <1>1, <1>2, <1>3, NothingLeftToMove DEF TableInv, Unbroken
<1>9. GapIsFree' /\ Unbroken'
  BY <1>3, <1>4, <1>8 DEF GapIsFree, Unbroken, Occupied, HomeOf
<1>10. ItemReady' /\ ItemApart' /\ ItemStored'
  BY <1>4 DEF ItemReady, ItemApart, ItemStored
<1>11. Mapped' /\ NamesEntry'
  <2>1. \A v \in Values : ~InFlight(v)
    BY <1>2 DEF InFlight
  <2> QED BY <1>3, <2>1 DEF TableInv, Mapped, NamesEntry, Occupied
<1>12. Counted'
  BY <1>2, <1>3, <1>4, <1>6 DEF TableInv, Counted
<1>13. Cut'
  BY <1>3, <1>4 DEF TableInv, Cut, CutAt, Occupied, HomeOf
<1> QED BY <1>5, <1>6, <1>7, <1>9, <1>10, <1>11, <1>12, <1>13 DEF TableInv

------------------------------------------------------------------------------
(* The writer *)

TableStep ==
    \/ WriterContinues
    \/ StartRemove
    \/ \E key \in Keys, value \in Values : StartAdd(key, value)

\* Every step of the writer keeps the table in order.
LEMMA StepKeepsTable == TableInv /\ [TableStep]_tableVars => TableInv'
PROOF
<1> SUFFICES ASSUME TableInv, [TableStep]_tableVars
             PROVE  TableInv'
  OBVIOUS
<1>1. ASSUME WriterContinues
      PROVE  TableInv'
  <2>1. murmur' = murmur
    BY <1>1 DEF WriterContinues
  <2> QED BY <1>1, <2>1, StoreKeepsTable, ClearKeepsTable, PublishKeepsTable, TakeKeepsTable, EndShiftKeepsTable
          DEF WriterContinues
<1>2. ASSUME StartRemove
      PROVE  TableInv'
  BY <1>2, StartRemoveKeepsTable
<1>3. ASSUME NEW key \in Keys, NEW value \in Values, StartAdd(key, value)
      PROVE  TableInv'
  BY <1>3, AddKeepsTable
<1>4. ASSUME UNCHANGED tableVars
      PROVE  TableInv'
  BY <1>4 DEF tableVars, table, TableInv, TableTypeOK, WellFormed, KeysUnique, GapIsFree, Unbroken, ItemReady,
              ItemApart, ItemStored, Mapped, NamesEntry, Counted, Cut, CutAt, Gap, Moving, Writing, Clearing,
              Shifting, Stored, InFlight, OccupiedSlots, Occupied, HomeOf
<1> QED BY <1>1, <1>2, <1>3, <1>4 DEF TableStep

\* What the invariant says between two operations, and of every move.
LEMMA TableIsInOrder == TableInv => ProbesUnbroken /\ MapExact /\ RemovalsEnd
PROOF
<1> SUFFICES ASSUME TableInv
             PROVE  ProbesUnbroken /\ MapExact /\ RemovalsEnd
  OBVIOUS
<1>1. ASSUME writer = WriterIdle
      PROVE  ~Moving /\ Gap = {} /\ \A value \in Values : ~InFlight(value)
  BY <1>1 DEF WriterIdle, Moving, Gap, Shifting, InFlight, Writing, Clearing
<1>2. ProbesUnbroken
  <2>1. SUFFICES ASSUME writer = WriterIdle, NEW i \in Slots, Occupied(i),
                        NEW home, home = HASH2INDEX(entries[i].hash),
                        NEW d \in 0 .. Distance(i, home)
                 PROVE  Occupied((home + d) % Size)
    BY DEF ProbesUnbroken
  <2>2. home \in Slots /\ home = HomeOf(i)
    BY <2>1, HomeIsSlot DEF TableInv, TableTypeOK, Entry, HomeOf
  <2>3. d \in Slots /\ d <= Distance(i, home)
    <3>1. Distance(i, home) \in Slots
      BY <2>2, DistanceIs
    <3> QED BY <3>1, SizeAssumption DEF Slots
  <2>4. (home + d) % Size \in Slots /\ Within((home + d) % Size, i, home)
    BY <2>2, <2>3, SlotAt DEF Within
  <2> QED BY <1>1, <2>1, <2>2, <2>4 DEF TableInv, Unbroken
<1>3. MapExact
  <2>1. SUFFICES ASSUME writer = WriterIdle
                 PROVE  /\ \A value \in Values, i \in Slots :
                              feature_index_to_entry_map[value] = i <=> Occupied(i) /\ entries[i].value = value
                        /\ num_entries = Cardinality({i \in Slots : Occupied(i)})
    BY DEF MapExact
  <2>2. \A i \in Slots : i # -1
    BY SizeAssumption DEF Slots
  <2>3. num_entries = Cardinality(OccupiedSlots)
    BY <1>1, <2>1, SlotsAreFinite DEF TableInv, Counted
  <2> QED BY <1>1, <2>1, <2>2, <2>3 DEF TableInv, Mapped, NamesEntry, OccupiedSlots
<1>4. RemovalsEnd
  <2>1. SUFFICES ASSUME Moving
                 PROVE  Distance(writer.from, writer.start) > Distance(writer.into, writer.start)
    BY DEF RemovalsEnd
  <2>2. PICK e \in Slots : CutAt(e)
    BY DEF TableInv, Cut
  <2>3. writer.from \in Slots /\ writer.start \in Slots /\ writer.into \in Slots
    BY <2>1, WriterIs DEF TableInv, Moving, Writing, ItemReady, Writes
  <2>4. /\ Distance(e, writer.from) < Distance(e, writer.into)
        /\ Distance(e, writer.into) <= Distance(e, writer.start)
    BY <2>1, <2>2 DEF CutAt
  <2> QED BY <2>3, <2>4, CloserIsFurther
<1> QED BY <1>2, <1>3, <1>4

------------------------------------------------------------------------------
(* The table as a dictionary *)

\* Dict, with its variables as parameters.
DictOf(ents, moving, item) ==
    [key \in Keys |->
        IF \E i \in Slots : ents[i].occupied /\ ents[i].key = key
          THEN ents[CHOOSE i \in Slots : ents[i].occupied /\ ents[i].key = key].value
          ELSE IF moving /\ item.key = key THEN item.value ELSE 0]

LEMMA DictOfIs ==
    ASSUME NEW ents, NEW moving, NEW item, NEW key \in Keys,
           \A i, j \in Slots : ents[i].occupied /\ ents[j].occupied /\ ents[i].key = ents[j].key => i = j
    PROVE  /\ \A i \in Slots : ents[i].occupied /\ ents[i].key = key =>
                 DictOf(ents, moving, item)[key] = ents[i].value
           /\ ~(\E i \in Slots : ents[i].occupied /\ ents[i].key = key) =>
                 DictOf(ents, moving, item)[key] = IF moving /\ item.key = key THEN item.value ELSE 0
PROOF BY DEF DictOf

\* What a key is mapped to.
LEMMA DictIs ==
    ASSUME TableInv, TableInv', NEW key \in Keys
    PROVE  /\ \A i \in Slots : Occupied(i) /\ entries[i].key = key => Dict[key] = entries[i].value
           /\ ~(\E i \in Slots : Occupied(i) /\ entries[i].key = key) =>
                 Dict[key] = IF Moving /\ writer.item.key = key THEN writer.item.value ELSE 0
           /\ \A i \in Slots : Occupied(i)' /\ entries'[i].key = key => Dict'[key] = entries'[i].value
           /\ ~(\E i \in Slots : Occupied(i)' /\ entries'[i].key = key) =>
                 Dict'[key] = IF Moving' /\ writer'.item.key = key THEN writer'.item.value ELSE 0
PROOF
<1>1. Dict = DictOf(entries, Moving, writer.item) /\ Dict' = DictOf(entries', Moving', writer'.item)
  BY DEF Dict, DictOf, Occupied
<1>2. \A i, j \in Slots : entries[i].occupied /\ entries[j].occupied /\ entries[i].key = entries[j].key => i = j
  BY DEF TableInv, KeysUnique, Occupied
<1>3. \A i, j \in Slots : entries'[i].occupied /\ entries'[j].occupied /\ entries'[i].key = entries'[j].key => i = j
  BY DEF TableInv, KeysUnique, Occupied
<1>4. /\ \A i \in Slots : entries[i].occupied /\ entries[i].key = key => Dict[key] = entries[i].value
      /\ ~(\E i \in Slots : entries[i].occupied /\ entries[i].key = key) =>
            Dict[key] = IF Moving /\ writer.item.key = key THEN writer.item.value ELSE 0
  BY <1>1, <1>2, DictOfIs
<1>5. /\ \A i \in Slots : entries'[i].occupied /\ entries'[i].key = key => Dict'[key] = entries'[i].value
      /\ ~(\E i \in Slots : entries'[i].occupied /\ entries'[i].key = key) =>
            Dict'[key] = IF Moving' /\ writer'.item.key = key THEN writer'.item.value ELSE 0
  BY <1>1, <1>3, DictOfIs
<1> QED BY <1>4, <1>5 DEF Occupied

\* Two dictionaries that map every key to the same are the same.
LEMMA SameDict ==
    ASSUME \A key \in Keys : Dict'[key] = Dict[key]
    PROVE  Dict' = Dict
PROOF BY DEF Dict

\* A step that leaves the occupied entries and what is moved alone.
LEMMA SameEntriesSameDict ==
    ASSUME TableInv, TableInv', SameEntries, Moving' <=> Moving, Moving => writer'.item = writer.item
    PROVE  Dict' = Dict
PROOF
<1>1. \A i \in Slots : (Occupied(i)' <=> Occupied(i)) /\ (Occupied(i) => entries'[i] = entries[i])
  BY DEF SameEntries
<1>2. ASSUME NEW key \in Keys
      PROVE  Dict'[key] = Dict[key]
  <2>1. CASE \E i \in Slots : Occupied(i) /\ entries[i].key = key
    BY <1>1, <2>1, DictIs
  <2>2. CASE ~(\E i \in Slots : Occupied(i) /\ entries[i].key = key)
    BY <1>1, <2>2, DictIs
  <2> QED BY <2>1, <2>2
<1> QED BY <1>2, SameDict

LEMMA OtherDict ==
    ASSUME NEW key \in Keys, NEW value, Dict'[key] = value, \A k \in Keys : k # key => Dict'[k] = Dict[k]
    PROVE  Dict' = [Dict EXCEPT ![key] = value]
PROOF
<1>1. Dict = [k \in Keys |-> Dict[k]] /\ Dict' = [k \in Keys |-> Dict'[k]]
  BY DEF Dict
<1> QED BY <1>1

\* Both removals remove the key of the entry they find.
LEMMA RemovalRemoves ==
    ASSUME TableInv, TableInv', StartRemove
    PROVE  D!Next
PROOF
<1>1. PICK i \in Slots : Occupied(i) /\ writer = WriterIdle /\ RemoveByIndex(i)
  BY StartRemoveKeepsTable
<1>2. entries' = [entries EXCEPT ![i].occupied = FALSE] /\ murmur' = murmur
  BY <1>1 DEF RemoveByIndex, StartRemove
<1>3. ~Occupied(i)' /\ \A j \in Slots : j # i => entries'[j] = entries[j] /\ (Occupied(j)' <=> Occupied(j))
  BY <1>1, <1>2, FreeEffect
<1>4. ~Moving /\ ~Moving'
  BY <1>1 DEF Moving, RemoveByIndex, WriterIdle
<1>5. PICK key : key = entries[i].key
  OBVIOUS
<1>6. key \in Keys /\ entries[i].value \in Values
  BY <1>1, <1>5 DEF TableInv, WellFormed
<1>7. Dict[key] = entries[i].value /\ Dict[key] # 0
  BY <1>1, <1>5, <1>6, DictIs, ValuesAssumption
<1>8. \A j \in Slots : j # i => ~(Occupied(j) /\ entries[j].key = key)
  BY <1>1, <1>5 DEF TableInv, KeysUnique
<1>9. Dict'[key] = 0
  <2>1. ~(\E j \in Slots : Occupied(j)' /\ entries'[j].key = key)
    BY <1>3, <1>8
  <2> QED BY <1>4, <1>6, <2>1, DictIs
<1>10. ASSUME NEW k \in Keys, k # key
       PROVE  Dict'[k] = Dict[k]
  <2>1. CASE \E j \in Slots : Occupied(j) /\ entries[j].key = k
    BY <1>3, <1>5, <1>10, <2>1, DictIs
  <2>2. CASE ~(\E j \in Slots : Occupied(j) /\ entries[j].key = k)
    BY <1>3, <1>4, <2>2, DictIs
  <2> QED BY <2>1, <2>2
<1>11. Dict' = [Dict EXCEPT ![key] = 0]
  BY <1>6, <1>9, <1>10, OtherDict
<1> QED BY <1>6, <1>7, <1>11 DEF D!Next, D!Remove

\* An entry that is taken to be moved stays in the dictionary.
LEMMA TakeLeavesDict ==
    ASSUME TableInv, TableInv', TakeNext, murmur' = murmur
    PROVE  Dict' = Dict
PROOF
<1>1. PICK i \in Slots : /\ Occupied(i) /\ Moving'
                         /\ entries' = [entries EXCEPT ![i].occupied = FALSE]
                         /\ writer'.item.key = entries[i].key /\ writer'.item.value = entries[i].value
  BY TakeKeepsTable
<1>2. ~Occupied(i)' /\ \A j \in Slots : j # i => entries'[j] = entries[j] /\ (Occupied(j)' <=> Occupied(j))
  BY <1>1, FreeEffect
<1>3. ~Moving
  BY DEF Moving, TakeNext
<1>4. ASSUME NEW key \in Keys
      PROVE  Dict'[key] = Dict[key]
  <2>1. CASE key = entries[i].key
    <3>1. ~(\E j \in Slots : Occupied(j)' /\ entries'[j].key = key)
      BY <1>1, <1>2, <2>1 DEF TableInv, KeysUnique
    <3>2. Dict'[key] = entries[i].value
      BY <1>1, <2>1, <3>1, DictIs
    <3>3. Dict[key] = entries[i].value
      BY <1>1, <2>1, DictIs
    <3> QED BY <3>2, <3>3
  <2>2. CASE key # entries[i].key /\ \E j \in Slots : Occupied(j) /\ entries[j].key = key
    BY <1>2, <2>2, DictIs
  <2>3. CASE key # entries[i].key /\ ~(\E j \in Slots : Occupied(j) /\ entries[j].key = key)
    <3>1. ~(\E j \in Slots : Occupied(j)' /\ entries'[j].key = key)
      BY <1>2, <2>3
    <3>2. Dict'[key] = 0
      BY <1>1, <2>3, <3>1, DictIs
    <3>3. Dict[key] = 0
      BY <1>3, <2>3, DictIs
    <3> QED BY <3>2, <3>3
  <2> QED BY <2>1, <2>2, <2>3
<1> QED BY <1>4, SameDict

\* The store to occupied adds a new entry to the dictionary, and leaves one that
\* was moved where it was.
LEMMA PublishAdds ==
    ASSUME TableInv, TableInv', Publish, murmur' = murmur
    PROVE  D!Next \/ Dict' = Dict
PROOF
<1>0. PICK into, item, key, value : /\ into = writer.into /\ item = writer.item
                                    /\ key = item.key /\ value = item.value
  OBVIOUS
<1>1. /\ writer \in Writes
      /\ \A i \in Slots : i # into => entries'[i] = entries[i]
      /\ Occupied(into)'
      /\ entries'[into].key = key
      /\ entries'[into].value = value
  BY <1>0, PublishEffect
<1>2. \A i \in Slots : i # into => (Occupied(i)' <=> Occupied(i))
  BY <1>1 DEF Occupied
<1>3. into \in Slots /\ Writing /\ key \in Keys /\ value \in Values /\ ~Occupied(into)
  BY <1>0, <1>1 DEF Writes, Writing, TableInv, ItemReady
<1>4. \A i \in Slots : Occupied(i) => entries[i].key # key /\ entries[i].value # value
  BY <1>0, <1>3 DEF TableInv, ItemApart
<1>5. Dict'[key] = value
  BY <1>1, <1>3, DictIs
<1>6. ~Moving'
  BY DEF Publish, Moving, WriterIdle
<1>7. Dict[key] = IF Moving THEN value ELSE 0
  BY <1>0, <1>3, <1>4, DictIs
<1>8. ASSUME NEW k \in Keys, k # key
      PROVE  Dict'[k] = Dict[k]
  <2>1. CASE \E j \in Slots : Occupied(j) /\ entries[j].key = k
    BY <1>1, <1>2, <1>3, <2>1, DictIs
  <2>2. CASE ~(\E j \in Slots : Occupied(j) /\ entries[j].key = k)
    <3>1. ~(\E j \in Slots : Occupied(j)' /\ entries'[j].key = k)
      BY <1>1, <1>2, <1>8, <2>2
    <3>2. Dict'[k] = 0
      BY <1>6, <3>1, DictIs
    <3>3. Dict[k] = 0
      BY <1>0, <1>8, <2>2, DictIs
    <3> QED BY <3>2, <3>3
  <2> QED BY <2>1, <2>2
<1>9. CASE Moving
  BY <1>5, <1>7, <1>8, <1>9, SameDict
<1>10. CASE ~Moving
  <2>1. Dict[key] = 0
    BY <1>7, <1>10
  <2>2. ASSUME NEW other \in Keys
        PROVE  Dict[other] # value
    <3>1. value # 0
      BY <1>3, ValuesAssumption
    <3>2. CASE \E j \in Slots : Occupied(j) /\ entries[j].key = other
      BY <1>4, <3>2, DictIs
    <3>3. CASE ~(\E j \in Slots : Occupied(j) /\ entries[j].key = other)
      BY <1>10, <3>1, <3>3, DictIs
    <3> QED BY <3>2, <3>3
  <2>3. Dict' = [Dict EXCEPT ![key] = value]
    BY <1>3, <1>5, <1>8, OtherDict
  <2> QED BY <1>3, <2>1, <2>2, <2>3 DEF D!Next, D!Add
<1> QED BY <1>9, <1>10

LEMMA InitDict == TableInit => D!Init
PROOF
<1> SUFFICES ASSUME TableInit
             PROVE  Dict = [key \in Keys |-> 0]
  BY DEF D!Init
<1>1. \A i \in Slots : ~Occupied(i)
  BY DEF TableInit, Occupied, Unused
<1>2. ~Moving
  BY DEF TableInit, Moving, WriterIdle
<1> QED BY <1>1, <1>2 DEF Dict

\* Every step of the writer is a step of the dictionary or leaves it alone.
LEMMA StepImplementsDictionary ==
    TableInv /\ TableInv' /\ [TableStep]_tableVars => [D!Next]_Dict
PROOF
<1> SUFFICES ASSUME TableInv, TableInv', [TableStep]_tableVars
             PROVE  D!Next \/ Dict' = Dict
  OBVIOUS
<1>1. ASSUME WriterContinues
      PROVE  D!Next \/ Dict' = Dict
  <2>1. murmur' = murmur
    BY <1>1 DEF WriterContinues
  <2>2. ASSUME NEW fields \in StoreGroups, Store(fields)
        PROVE  Dict' = Dict
    <3>1. /\ writer \in Writes /\ writer' \in Writes /\ writer'.from = writer.from
          /\ writer'.item = writer.item
          /\ \A i \in Slots : i # writer.into => entries'[i] = entries[i]
          /\ entries'[writer.into].occupied = entries[writer.into].occupied
      BY <2>2, StoreEffect
    <3>2. ~Occupied(writer.into)
      BY <3>1 DEF Writes, Writing, TableInv, ItemReady
    <3>3. SameEntries
      BY <2>1, <3>1, <3>2 DEF SameEntries, Occupied
    <3>4. Moving' <=> Moving
      BY <3>1 DEF Moving, Writes
    <3> QED BY <3>1, <3>3, <3>4, SameEntriesSameDict
  <2>3. ASSUME NEW fields \in StoreGroups, Clear(fields)
        PROVE  Dict' = Dict
    <3>1. SameEntries
      BY <2>1, <2>3, ClearKeepsTable
    <3>2. ~Moving /\ ~Moving'
      BY <2>3, WriterIs DEF Clear, Moving, TableInv, Clears
    <3> QED BY <3>1, <3>2, SameEntriesSameDict
  <2>4. ASSUME EndShift
        PROVE  Dict' = Dict
    <3>1. SameEntries
      BY <2>1, <2>4, EndShiftKeepsTable
    <3>2. ~Moving /\ ~Moving'
      BY <2>4 DEF EndShift, Moving, WriterIdle
    <3> QED BY <3>1, <3>2, SameEntriesSameDict
  <2> QED BY <1>1, <2>1, <2>2, <2>3, <2>4, PublishAdds, TakeLeavesDict DEF WriterContinues
<1>2. ASSUME StartRemove
      PROVE  D!Next
  BY <1>2, RemovalRemoves
<1>3. ASSUME NEW key \in Keys, NEW value \in Values, StartAdd(key, value)
      PROVE  Dict' = Dict
  <2>1. SameEntries
    BY <1>3 DEF StartAdd, Add, table, SameEntries, Occupied
  <2>2. ~Moving /\ ~Moving'
    BY <1>3 DEF StartAdd, Add, Moving, WriterIdle
  <2> QED BY <2>1, <2>2, SameEntriesSameDict
<1>4. ASSUME UNCHANGED tableVars
      PROVE  Dict' = Dict
  BY <1>4 DEF tableVars, table, Dict, Occupied, Moving
<1> QED BY <1>1, <1>2, <1>3, <1>4 DEF TableStep

------------------------------------------------------------------------------
(* The flow table: its order *)

LEMMA NextIsTableStep == [Next]_vars => [TableStep]_tableVars
PROOF BY DEF Next, vars, WriterStep, ReaderStep, ReaderContinues, TableStep

\* The inductive invariant of the writer's side holds whatever the reader does.
LEMMA TableInvariant == Spec => []TableInv
PROOF
<1>1. Init => TableInv
  BY InitTable DEF Init
<1>2. TableInv /\ [Next]_vars => TableInv'
  BY NextIsTableStep, StepKeepsTable
<1> QED BY <1>1, <1>2, PTL DEF Spec

\* After any additions and removals, in a table of any size, every slot between an
\* entry and its home is occupied, so that flow_hashtable_get finds the entry.
THEOREM ProbesStayUnbroken == Spec => []ProbesUnbroken
PROOF
<1>1. TableInv => ProbesUnbroken
  BY TableIsInOrder
<1> QED BY <1>1, TableInvariant, PTL

\* feature_index_to_entry_map and num_entries agree with the entries between two
\* operations, so that flow_hashtable_remove_by_value removes the right entry.
THEOREM MapStaysExact == Spec => []MapExact
PROOF
<1>1. TableInv => MapExact
  BY TableIsInOrder
<1> QED BY <1>1, TableInvariant, PTL

\* The loop of remove_by_index never comes around to where it started, even in a
\* table that was full: every move comes closer to the slot that was filled last.
THEOREM RemovalsComeToAnEnd == Spec => []RemovalsEnd
PROOF
<1>1. TableInv => RemovalsEnd
  BY TableIsInOrder
<1> QED BY <1>1, TableInvariant, PTL

\* Probing and backward shift deletion implement a dictionary: flow_hashtable_add
\* adds its key only, both removals remove one key only, and moves lose nothing.
THEOREM FlowTableImplementsDictionary == Spec => ImplementsDictionary
PROOF
<1>1. Init => D!Init
  BY InitDict DEF Init
<1>2. TableInv /\ TableInv' /\ [Next]_vars => [D!Next]_Dict
  BY NextIsTableStep, StepImplementsDictionary
<1> QED BY <1>1, <1>2, TableInvariant, PTL DEF Spec, ImplementsDictionary, D!Spec

------------------------------------------------------------------------------
(* The flow table: the lookup *)

Looking == {"occupied", "hash", "key"}
Lookups == [pc : Looking \cup {"found", "absent"}, key : Sought, index : Slots]

ReaderTypeOK ==
    /\ reader \in {ReaderIdle} \cup Lookups
    /\ history \in [always : BOOLEAN, ever : BOOLEAN, shifted : BOOLEAN]

\* Whether a removal is under way.
Calm == writer = WriterIdle \/ Adding

\* A key that is about to be read and is the one looked for was in the table.
SeenWasThere ==
    /\ reader.pc \in {"hash", "key"} /\ entries[reader.index].key = reader.key => history.ever
    /\ reader.pc = "found" => history.ever

\* Without a removal, the lookup is on the path to the entry it looks for.
OnItsWay ==
    /\ reader.pc \in Looking /\ history.always /\ ~history.shifted =>
          /\ Calm
          /\ \E i \in Slots : Occupied(i) /\ entries[i].key = reader.key /\ Within(reader.index, i, HomeOf(i))
    /\ reader.pc = "absent" /\ history.always => history.shifted

LookupInv == ReaderTypeOK /\ SeenWasThere /\ OnItsWay

LEMMA ReaderIs ==
    ASSUME ReaderTypeOK
    PROVE  /\ reader.pc \in {"idle", "found", "absent"} \cup Looking
           /\ reader.pc = "idle" <=> reader = ReaderIdle
           /\ reader.pc # "idle" <=> reader \in Lookups
PROOF BY DEF ReaderTypeOK, ReaderIdle, Lookups, Looking

\* What is recorded of a lookup that goes on.
LEMMA TrackIs ==
    ASSUME ReaderTypeOK, Track, reader' # ReaderIdle
    PROVE  /\ reader.pc \in {"found", "absent"} => history' = history
           /\ reader.pc \notin {"found", "absent"} =>
                 /\ history' \in [always : BOOLEAN, ever : BOOLEAN, shifted : BOOLEAN]
                 /\ history'.always => (reader = ReaderIdle \/ history.always) /\ reader'.key \in Members'
                 /\ reader'.key \in Members' \cup Newcomer' => history'.ever
                 /\ reader # ReaderIdle /\ history.ever => history'.ever
                 /\ ~history'.shifted => Calm' /\ (reader = ReaderIdle \/ ~history.shifted)
PROOF
<1>1. ASSUME reader.pc \in {"found", "absent"}
      PROVE  history' = history
  BY <1>1 DEF Track
<1> DEFINE always == (reader = ReaderIdle \/ history.always) /\ reader'.key \in Members'
           ever == (reader # ReaderIdle /\ history.ever) \/ reader'.key \in Members' \cup Newcomer'
           shifted == (reader # ReaderIdle /\ history.shifted) \/ ~Calm'
<1>2. always \in BOOLEAN /\ ever \in BOOLEAN /\ shifted \in BOOLEAN
  OBVIOUS
<1>3. ASSUME reader.pc \notin {"found", "absent"}
      PROVE  history' = [always |-> always, ever |-> ever, shifted |-> shifted]
  BY <1>3 DEF Track, Calm
<1>4. ASSUME reader.pc \notin {"found", "absent"}
      PROVE  /\ history' \in [always : BOOLEAN, ever : BOOLEAN, shifted : BOOLEAN]
             /\ history'.always = always /\ history'.ever = ever /\ history'.shifted = shifted
  <2> HIDE DEF always, ever, shifted
  <2> QED BY <1>2, <1>3, <1>4
<1> QED BY <1>1, <1>4

LEMMA NextKeepsTypes ==
    ASSUME ReaderTypeOK, TableInv, Next
    PROVE  ReaderTypeOK'
PROOF
<1>1. reader' \in {ReaderIdle} \cup Lookups
  <2>1. \A key \in Sought : SlotOf(key, 0) \in Slots
    <3>1. 0 \in Slots
      BY SizeAssumption DEF Slots
    <3>2. \A key \in Sought : murmur[key] \in Nat
      BY SoughtAssumption DEF TableInv, TableTypeOK
    <3> QED BY <3>1, <3>2, SlotOfIs
  <2>2. \A i \in Slots : (i + 1) % Size \in Slots
    BY SizeAssumption, Remainders DEF Slots
  <2>3. ASSUME NEW key \in Sought, StartLookup(key)
        PROVE  reader' \in Lookups
    BY <2>1, <2>3 DEF StartLookup, Lookups, Looking
  <2>4. ASSUME reader \in Lookups, reader.pc \in Looking
        PROVE  NextEntry \in Lookups /\ \A pc \in {"hash", "key", "found", "absent"} : [reader EXCEPT !.pc = pc] \in Lookups
    BY <2>2, <2>4 DEF NextEntry, Lookups, Looking
  <2>5. ASSUME ReadOccupied \/ ReadHash \/ ReadKey
        PROVE  reader' \in Lookups
    <3>1. reader \in Lookups /\ reader.pc \in Looking
      BY <2>5, ReaderIs DEF ReadOccupied, ReadHash, ReadKey, Looking
    <3> QED BY <2>4, <2>5, <3>1 DEF ReadOccupied, ReadHash, ReadKey
  <2> QED BY <2>3, <2>5 DEF Next, WriterStep, ReaderStep, ReaderContinues, Return, ReaderTypeOK
<1>2. history' \in [always : BOOLEAN, ever : BOOLEAN, shifted : BOOLEAN]
  <2>1. CASE reader' = ReaderIdle
    BY <2>1 DEF Next, Track
  <2>2. CASE reader' # ReaderIdle
    BY <2>2, TrackIs DEF Next, ReaderTypeOK
  <2> QED BY <2>1, <2>2
<1> QED BY <1>1, <1>2 DEF ReaderTypeOK

\* Only the key of the entry being written can appear in a slot.
LEMMA KeysComeFromItem ==
    ASSUME TableInv, TableInv', TableStep, NEW i \in Slots, entries'[i].key # entries[i].key
    PROVE  Writing' /\ entries'[i].key = writer'.item.key
PROOF
<1>1. entries \in [Slots -> Entry]
  BY DEF TableInv, TableTypeOK
<1>2. ASSUME NEW fields \in StoreGroups, Store(fields)
      PROVE  Writing' /\ entries'[i].key = writer'.item.key
  <2>1. /\ writer' \in Writes /\ writer'.item = writer.item
        /\ \A j \in Slots : j # writer.into => entries'[j] = entries[j]
        /\ entries'[writer.into].key = IF "key" \in fields THEN writer.item.key ELSE entries[writer.into].key
    BY <1>2, StoreEffect
  <2> QED BY <2>1 DEF Writes, Writing
<1>3. ASSUME NEW fields \in StoreGroups, Clear(fields)
      PROVE  FALSE
  <2>1. entries' = entries \/ entries' = [entries EXCEPT ![writer.empty].hash = 0]
    BY <1>3 DEF Clear
  <2> QED BY <1>1, <2>1 DEF Entry
<1>4. ASSUME NEW j, entries' = [entries EXCEPT ![j].occupied = FALSE] \/ entries' = [entries EXCEPT ![j].occupied = TRUE]
      PROVE  FALSE
  BY <1>1, <1>4 DEF Entry
<1>5. ~Publish /\ ~TakeNext
  BY <1>4 DEF Publish, TakeNext
<1>6. ~EndShift /\ \A key \in Keys, value \in Values : ~StartAdd(key, value)
  BY DEF EndShift, StartAdd, Add, table
<1>7. ~StartRemove
  BY <1>4, StartRemoveKeepsTable DEF RemoveByIndex
<1> QED BY <1>2, <1>3, <1>5, <1>6, <1>7 DEF TableStep, WriterContinues

\* Additions leave the occupied entries alone.
LEMMA AdditionsKeepEntries ==
    ASSUME TableInv, TableInv', TableStep, Calm, Calm', NEW i \in Slots, Occupied(i)
    PROVE  Occupied(i)' /\ entries'[i] = entries[i]
PROOF
<1>1. writer.step \notin {"clear", "shift"} /\ writer'.step \notin {"clear", "shift"} /\ ~Moving'
  BY DEF Calm, Adding, Moving, WriterIdle
<1>2. ASSUME NEW fields \in StoreGroups, Store(fields)
      PROVE  Occupied(i)' /\ entries'[i] = entries[i]
  <2>1. /\ writer \in Writes
        /\ \A j \in Slots : j # writer.into => entries'[j] = entries[j]
    BY <1>2, StoreEffect
  <2>2. ~Occupied(writer.into)
    BY <2>1 DEF Writes, Writing, TableInv, ItemReady
  <2> QED BY <2>1, <2>2 DEF Occupied
<1>3. ASSUME Publish
      PROVE  Occupied(i)' /\ entries'[i] = entries[i]
  <2>1. PICK into : into = writer.into
    OBVIOUS
  <2>2. /\ writer \in Writes
        /\ \A j \in Slots : j # into => entries'[j] = entries[j]
    BY <1>3, <2>1, PublishEffect
  <2>3. ~Occupied(into)
    BY <2>1, <2>2 DEF Writes, Writing, TableInv, ItemReady
  <2> QED BY <2>2, <2>3 DEF Occupied
<1>4. ASSUME NEW key \in Keys, NEW value \in Values, StartAdd(key, value)
      PROVE  Occupied(i)' /\ entries'[i] = entries[i]
  BY <1>4 DEF StartAdd, Add, table, Occupied
<1>5. ~TakeNext /\ ~EndShift /\ \A fields \in StoreGroups : ~Clear(fields)
  BY <1>1 DEF TakeNext, EndShift, Clear
<1>6. ~StartRemove
  BY <1>1, StartRemoveKeepsTable DEF RemoveByIndex
<1> QED BY <1>2, <1>3, <1>4, <1>5, <1>6 DEF TableStep, WriterContinues

\* While the writer works, the lookup stays where it is.
LEMMA WriterKeepsLookup ==
    ASSUME LookupInv, TableInv, TableInv', WriterStep, Track
    PROVE  SeenWasThere' /\ OnItsWay'
PROOF
<1>1. reader' = reader /\ TableStep
  BY DEF WriterStep, TableStep
<1>2. CASE reader.pc \notin Looking
  <2>1. reader.pc \in {"found", "absent"} => history' = history
    BY <1>1, TrackIs, ReaderIs DEF LookupInv, ReaderIdle
  <2> QED BY <1>1, <1>2, <2>1 DEF LookupInv, SeenWasThere, OnItsWay, Looking
<1>3. CASE reader.pc \in Looking
  <2>0. PICK key, index : key = reader.key /\ index = reader.index
    OBVIOUS
  <2>1. /\ reader # ReaderIdle /\ reader \in Lookups /\ reader.pc \notin {"found", "absent"}
        /\ index \in Slots
    BY <1>3, <2>0, ReaderIs DEF LookupInv, Looking, ReaderIdle, Lookups
  <2>2. /\ history'.always => history.always
        /\ key \in Members' \cup Newcomer' => history'.ever
        /\ history.ever => history'.ever
        /\ ~history'.shifted => Calm' /\ ~history.shifted
    BY <1>1, <2>0, <2>1, TrackIs DEF LookupInv
  <2>3. ASSUME reader.pc \in {"hash", "key"}, entries'[index].key = key
        PROVE  history'.ever
    <3>1. CASE entries[index].key = key
      BY <2>0, <2>2, <2>3, <3>1 DEF LookupInv, SeenWasThere
    <3>2. CASE entries[index].key # key
      <4>1. Writing' /\ writer'.item.key = key
        BY <1>1, <2>1, <2>3, <3>2, KeysComeFromItem
      <4>2. key \in Members' \cup Newcomer'
        BY <4>1 DEF Writing, Members, Newcomer, Moving, Adding
      <4> QED BY <2>2, <4>2
    <3> QED BY <3>1, <3>2
  <2>4. SeenWasThere'
    BY <1>1, <2>0, <2>1, <2>3 DEF SeenWasThere
  <2>5. ASSUME history'.always, ~history'.shifted
        PROVE  /\ Calm'
               /\ \E i \in Slots : Occupied(i)' /\ entries'[i].key = key /\ Within(index, i, HomeOf(i)')
    <3>1. history.always /\ ~history.shifted /\ Calm'
      BY <2>2, <2>5
    <3>2. Calm /\ \E i \in Slots : Occupied(i) /\ entries[i].key = key /\ Within(index, i, HomeOf(i))
      BY <1>3, <2>0, <3>1 DEF LookupInv, OnItsWay
    <3>3. PICK i \in Slots : Occupied(i) /\ entries[i].key = key /\ Within(index, i, HomeOf(i))
      BY <3>2
    <3>4. Occupied(i)' /\ entries'[i] = entries[i]
      BY <1>1, <3>1, <3>2, <3>3, AdditionsKeepEntries
    <3>5. HomeOf(i)' = HomeOf(i)
      BY <3>4 DEF HomeOf
    <3> QED BY <3>1, <3>3, <3>4, <3>5
  <2>6. OnItsWay'
    BY <1>1, <2>0, <2>1, <2>5 DEF OnItsWay, Within
  <2> QED BY <2>4, <2>6
<1> QED BY <1>2, <1>3

\* The next slot is still on the path, if the current one is not its end.
LEMMA NextOnPath ==
    ASSUME NEW home \in Slots, NEW index \in Slots, NEW i \in Slots, Within(index, i, home), index # i
    PROVE  Within((index + 1) % Size, i, home)
PROOF
<1>1. Distance(index, home) # Distance(i, home)
  BY SameDistance
<1>2. Size \in Nat \ {0} /\ index \in 0 .. Size - 1 /\ home \in 0 .. Size - 1 /\ i \in 0 .. Size - 1
  BY SizeAssumption DEF Slots
<1>3. PICK next : next = (index + 1) % Size
  OBVIOUS
<1>4. next = IF index + 1 < Size THEN index + 1 ELSE 0
  <2>1. CASE index + 1 < Size
    <3>1. index + 1 \in Int /\ index + 1 \in 0 .. Size - 1
      BY <1>2, <2>1
    <3> QED BY <1>2, <1>3, <2>1, <3>1, Remainders
  <2>2. CASE ~(index + 1 < Size)
    <3>1. index + 1 = Size /\ Size \in Int /\ Size \in Size .. Size + Size - 1
      BY <1>2, <2>2
    <3>2. Size % Size = Size - Size
      BY <1>2, <3>1, Remainders
    <3> QED BY <1>2, <1>3, <2>2, <3>1, <3>2
  <2> QED BY <2>1, <2>2
<1>5. next \in Slots
  BY <1>2, <1>4 DEF Slots
<1>6. /\ Distance(index, home) = IF index >= home THEN index - home ELSE (index - home) + Size
      /\ Distance(next, home) = IF next >= home THEN next - home ELSE (next - home) + Size
      /\ Distance(i, home) = IF i >= home THEN i - home ELSE (i - home) + Size
  BY <1>2, <1>5, DistanceIs DEF Slots
<1>7. Distance(next, home) <= Distance(i, home)
  BY <1>1, <1>2, <1>4, <1>6 DEF Within
<1> QED BY <1>3, <1>7 DEF Within

\* A lookup begins on the path to every entry with its key.
LEMMA StartsOnItsWay ==
    ASSUME ReaderTypeOK, TableInv, UNCHANGED tableVars, Track, NEW key \in Sought, StartLookup(key)
    PROVE  SeenWasThere' /\ OnItsWay'
PROOF
<1>1. reader = ReaderIdle /\ reader' = [pc |-> "occupied", key |-> key, index |-> SlotOf(key, 0)]
  BY DEF StartLookup
<1>2. reader'.pc = "occupied" /\ reader'.key = key /\ reader'.index = SlotOf(key, 0) /\ reader' # ReaderIdle
  BY <1>1 DEF ReaderIdle
<1>3. SeenWasThere'
  BY <1>2 DEF SeenWasThere
<1>4. murmur[key] \in Nat /\ key \in Keys
  BY SoughtAssumption DEF TableInv, TableTypeOK
<1>5. HASH2INDEX(murmur[key]) \in Slots /\ SlotOf(key, 0) \in Slots /\ Distance(SlotOf(key, 0), HASH2INDEX(murmur[key])) = 0
  <2>1. 0 \in Slots
    BY SizeAssumption DEF Slots
  <2> QED BY <1>4, <2>1, HomeIsSlot, SlotOfIs
<1>6. ASSUME history'.always, ~history'.shifted
      PROVE  Calm /\ \E i \in Slots : Occupied(i) /\ entries[i].key = key /\ Within(SlotOf(key, 0), i, HomeOf(i))
  <2>1. key \in Members' /\ Calm'
    BY <1>1, <1>2, <1>6, TrackIs DEF ReaderIdle
  <2>2. Members' = Members /\ (Calm' <=> Calm)
    BY DEF tableVars, table, Members, Calm, Adding, Moving, Occupied
  <2>3. Calm /\ ~Moving
    BY <2>1, <2>2 DEF Calm, Adding, Moving, WriterIdle
  <2>4. PICK i \in Slots : Occupied(i) /\ entries[i].key = key
    BY <2>1, <2>2, <2>3 DEF Members
  <2>5. HomeOf(i) = HASH2INDEX(murmur[key])
    BY <2>4 DEF TableInv, WellFormed, HomeOf
  <2>6. Distance(i, HomeOf(i)) \in Slots
    BY <1>5, <2>5, DistanceIs
  <2>7. Within(SlotOf(key, 0), i, HomeOf(i))
    BY <1>5, <2>5, <2>6, SizeAssumption DEF Within, Slots
  <2> QED BY <2>3, <2>4, <2>7
<1>7. OnItsWay'
  <2>1. /\ entries' = entries
        /\ (Calm' <=> Calm)
    BY DEF tableVars, table, Calm, Adding
  <2>2. \A i \in Slots : (Occupied(i)' <=> Occupied(i)) /\ HomeOf(i)' = HomeOf(i)
    BY <2>1 DEF Occupied, HomeOf
  <2> QED BY <1>2, <1>6, <2>1, <2>2 DEF OnItsWay, Within
<1> QED BY <1>3, <1>7

\* A lookup that reads an entry which is not the one it looks for goes on towards
\* that one, and comes to no free slot before.
LEMMA ReadsKeepLookup ==
    ASSUME LookupInv, TableInv, UNCHANGED tableVars, Track, ReadOccupied \/ ReadHash \/ ReadKey
    PROVE  SeenWasThere' /\ OnItsWay'
PROOF
<1>0. PICK key, index : key = reader.key /\ index = reader.index
  OBVIOUS
<1>1. /\ reader \in Lookups /\ reader.pc \in Looking /\ reader # ReaderIdle /\ reader.pc \notin {"found", "absent"}
      /\ index \in Slots /\ key \in Sought
  BY <1>0, ReaderIs DEF ReadOccupied, ReadHash, ReadKey, LookupInv, Looking, ReaderIdle, Lookups
<1>2. entries' = entries /\ murmur' = murmur /\ writer' = writer
  BY DEF tableVars, table
<1>3. /\ \A i \in Slots : (Occupied(i)' <=> Occupied(i)) /\ HomeOf(i)' = HomeOf(i)
      /\ Members' = Members /\ (Calm' <=> Calm)
  BY <1>2 DEF Occupied, HomeOf, Members, Calm, Adding, Moving
<1>4. /\ \A pc \in {"hash", "key", "found", "absent"} :
            LET r == [reader EXCEPT !.pc = pc] IN r.pc = pc /\ r.key = key /\ r.index = index
      /\ NextEntry.pc = "occupied" /\ NextEntry.key = key /\ NextEntry.index = (index + 1) % Size
  BY <1>0, <1>1 DEF Lookups, NextEntry
<1>5. reader'.key = key /\ reader'.pc # "idle" /\ reader' # ReaderIdle
  <2>1. \/ reader' = NextEntry
        \/ \E pc \in {"hash", "key", "found", "absent"} : reader' = [reader EXCEPT !.pc = pc]
    <3>1. CASE ReadOccupied
      BY <3>1 DEF ReadOccupied
    <3>2. CASE ReadHash
      BY <3>2 DEF ReadHash
    <3>3. CASE ReadKey
      BY <3>3 DEF ReadKey
    <3> QED BY <3>1, <3>2, <3>3
  <2>2. reader'.key = key /\ reader'.pc \in {"occupied", "hash", "key", "found", "absent"}
    BY <1>4, <2>1
  <2>3. ReaderIdle.pc = "idle"
    BY DEF ReaderIdle
  <2> QED BY <2>2, <2>3
<1>6. /\ history'.always => history.always
      /\ key \in Members => history'.ever
      /\ history.ever => history'.ever
      /\ ~history'.shifted => ~history.shifted
  BY <1>1, <1>3, <1>5, TrackIs DEF LookupInv
<1>7. ASSUME history'.always, ~history'.shifted
      PROVE  Calm /\ \E i \in Slots : Occupied(i) /\ entries[i].key = key /\ Within(index, i, HomeOf(i))
  BY <1>0, <1>1, <1>6, <1>7 DEF LookupInv, OnItsWay
<1>8. CASE ReadOccupied /\ Occupied(index)
  <2>1. reader'.pc = "hash" /\ reader'.index = index
    BY <1>0, <1>4, <1>8 DEF ReadOccupied
  <2>2. entries[index].key = key => key \in Members
    BY <1>1, <1>8 DEF Members
  <2>3. SeenWasThere'
    BY <1>2, <1>5, <1>6, <2>1, <2>2 DEF SeenWasThere
  <2>4. OnItsWay'
    BY <1>2, <1>3, <1>5, <1>7, <2>1 DEF OnItsWay, Within
  <2> QED BY <2>3, <2>4
<1>9. CASE ReadOccupied /\ ~Occupied(index)
  <2>1. reader'.pc = "absent"
    BY <1>0, <1>4, <1>9 DEF ReadOccupied
  <2>2. ASSUME history'.always, ~history'.shifted
        PROVE  FALSE
    <3>1. PICK i \in Slots : Occupied(i) /\ entries[i].key = key /\ Within(index, i, HomeOf(i))
      BY <1>7, <2>2
    <3>2. Gap = {}
      BY <1>7, <2>2 DEF Gap, Calm, Adding, Moving, Shifting, WriterIdle
    <3> QED BY <1>1, <1>9, <3>1, <3>2 DEF TableInv, Unbroken
  <2> QED BY <2>1, <2>2 DEF SeenWasThere, OnItsWay, Looking
<1>10. CASE reader' = [reader EXCEPT !.pc = "key"] /\ ReadHash
  <2>1. reader'.pc = "key" /\ reader'.index = index /\ reader.pc = "hash"
    BY <1>4, <1>10 DEF ReadHash
  <2>2. SeenWasThere'
    BY <1>0, <1>2, <1>5, <1>6, <2>1 DEF LookupInv, SeenWasThere
  <2>3. OnItsWay'
    BY <1>2, <1>3, <1>5, <1>7, <2>1 DEF OnItsWay, Within
  <2> QED BY <2>2, <2>3
<1>11. CASE reader' = [reader EXCEPT !.pc = "found"] /\ ReadKey /\ entries[index].key = key
  <2>1. reader'.pc = "found" /\ reader.pc = "key"
    BY <1>4, <1>11 DEF ReadKey
  <2>2. history'.ever
    BY <1>0, <1>6, <1>11, <2>1 DEF LookupInv, SeenWasThere
  <2> QED BY <2>1, <2>2 DEF SeenWasThere, OnItsWay, Looking
<1>12. CASE reader' = NextEntry /\ ~Holds(index, key)
  <2>1. reader'.pc = "occupied" /\ reader'.index = (index + 1) % Size
    BY <1>4, <1>12
  <2>2. SeenWasThere'
    BY <2>1 DEF SeenWasThere
  <2>3. ASSUME history'.always, ~history'.shifted
        PROVE  Calm /\ \E i \in Slots : Occupied(i) /\ entries[i].key = key /\ Within((index + 1) % Size, i, HomeOf(i))
    <3>1. PICK i \in Slots : Occupied(i) /\ entries[i].key = key /\ Within(index, i, HomeOf(i))
      BY <1>7, <2>3
    <3>2. HomeOf(i) \in Slots
      BY HomeIsSlot DEF TableInv, TableTypeOK, Entry, HomeOf
    <3>3. entries[i].hash = murmur[key]
      BY <3>1 DEF TableInv, WellFormed
    <3>4. index # i
      BY <1>12, <3>1, <3>3 DEF Holds
    <3>5. Within((index + 1) % Size, i, HomeOf(i))
      BY <1>1, <3>1, <3>2, <3>4, NextOnPath
    <3> QED BY <1>7, <2>3, <3>1, <3>5
  <2>4. OnItsWay'
    BY <1>2, <1>3, <1>5, <2>1, <2>3 DEF OnItsWay, Within
  <2> QED BY <2>2, <2>4
<1>13. ASSUME ReadHash
       PROVE  (reader' = [reader EXCEPT !.pc = "key"]) \/ (reader' = NextEntry /\ ~Holds(index, key))
  BY <1>0, <1>13 DEF ReadHash, Holds
<1>14. ASSUME ReadKey
       PROVE  \/ reader' = [reader EXCEPT !.pc = "found"] /\ entries[index].key = key
              \/ reader' = NextEntry /\ ~Holds(index, key)
  BY <1>0, <1>14 DEF ReadKey, Holds
<1> QED BY <1>8, <1>9, <1>10, <1>11, <1>12, <1>13, <1>14

LEMMA LookupInvariant == Spec => []LookupInv
PROOF
<1>1. Init => LookupInv
  BY DEF Init, LookupInv, ReaderTypeOK, SeenWasThere, OnItsWay, ReaderIdle, Looking
<1>2. TableInv /\ TableInv' /\ LookupInv /\ [Next]_vars => LookupInv'
  <2> SUFFICES ASSUME TableInv, TableInv', LookupInv, [Next]_vars
               PROVE  LookupInv'
    OBVIOUS
  <2>1. CASE Next
    <3>1. ReaderTypeOK' /\ Track
      BY <2>1, NextKeepsTypes DEF LookupInv, Next
    <3>2. ASSUME WriterStep
          PROVE  SeenWasThere' /\ OnItsWay'
      BY <3>1, <3>2, WriterKeepsLookup
    <3>3. ASSUME ReaderStep
          PROVE  SeenWasThere' /\ OnItsWay'
      <4>1. UNCHANGED tableVars
        BY <3>3 DEF ReaderStep, ReaderContinues
      <4>2. ASSUME Return
            PROVE  SeenWasThere' /\ OnItsWay'
        BY <4>2 DEF Return, ReaderIdle, SeenWasThere, OnItsWay, Looking
      <4> QED BY <3>1, <3>3, <4>1, <4>2, ReadsKeepLookup, StartsOnItsWay DEF ReaderStep, ReaderContinues, LookupInv
    <3> QED BY <2>1, <3>1, <3>2, <3>3 DEF Next, LookupInv
  <2>2. CASE UNCHANGED vars
    BY <2>2 DEF vars, tableVars, table, LookupInv, ReaderTypeOK, SeenWasThere, OnItsWay, Calm, Adding, Occupied, HomeOf
  <2> QED BY <2>1, <2>2
<1> QED BY <1>1, <1>2, TableInvariant, PTL DEF Spec

\* flow_hashtable_get without the lock: whatever stores of additions, removals and
\* moves it runs into, it finds a key only if the key was in the table, or being
\* added, while it ran.
THEOREM FoundKeysWereThere == Spec => []FoundWasThere
PROOF
<1>1. LookupInv => FoundWasThere
  BY DEF LookupInv, SeenWasThere, FoundWasThere
<1> QED BY <1>1, LookupInvariant, PTL

\* A key that is in the table all the time is found, unless a removal runs during
\* the lookup: additions fill slots and never free one on the key's path.
THEOREM AdditionsHideNothing == Spec => []OnlyShiftsHide
PROOF
<1>1. LookupInv => OnlyShiftsHide
  BY DEF LookupInv, OnItsWay, OnlyShiftsHide
<1> QED BY <1>1, LookupInvariant, PTL

------------------------------------------------------------------------------
(* The session table: the inductive invariant *)

Parts == {"key", "value", "map"}
Copies == [step : {"copy"}, index : Watched, slot : Slots, todo : SUBSET Parts,
           key : Keys \cup {NoKey}, value : Values \cup {0}, map : Slots \cup {-1}]
Row    == [key : Keys \cup {NoKey}, value : Values \cup {0}]
Prints == [step : {"print"}, index : Watched, slot : Slots, map : Slots \cup {-1}, row : Row]

SessionTypeOK ==
    /\ pending \in {None} \cup [key : Keys, value : Values]
    /\ exporter \in {Waiting} \cup Copies \cup Prints
    /\ copyHistory \in [key : Keys \cup {NoKey}, calm : BOOLEAN, used : BOOLEAN]

\* As long as no removal runs, the session stays in its slot, and what has been
\* copied is of that slot; an index that is not in use has no slot.
SlotOfIndex == feature_index_to_entry_map[exporter.index]
SessionStays ==
    /\ SlotOfIndex \in Slots /\ Occupied(SlotOfIndex)
    /\ entries[SlotOfIndex].key = copyHistory.key /\ entries[SlotOfIndex].value = exporter.index
    /\ "map" \notin exporter.todo => exporter.map = SlotOfIndex
    /\ exporter.slot = SlotOfIndex =>
          /\ "key" \notin exporter.todo => exporter.key = copyHistory.key
          /\ "value" \notin exporter.todo => exporter.value = exporter.index

CopyIsSettled ==
    exporter.step = "copy" /\ copyHistory.calm =>
        /\ ~Removing
        /\ copyHistory.key # NoKey => SessionStays
        /\ ~copyHistory.used => ~InUse /\ ("map" \notin exporter.todo => exporter.map = -1)

ExportInv == SessionTypeOK /\ CopyIsSettled /\ SettledIsExported

LEMMA ExporterIs ==
    ASSUME SessionTypeOK
    PROVE  /\ exporter.step \in {"wait", "copy", "print"}
           /\ exporter.step = "wait" <=> exporter = Waiting
           /\ exporter.step = "copy" <=> exporter \in Copies
           /\ exporter.step = "print" <=> exporter \in Prints
           /\ Copying <=> exporter.step = "copy"
           /\ Waiting.step = "wait"
           /\ exporter.step # "wait" => exporter.index \in Values
PROOF
<1>1. Waiting.step = "wait"
  BY DEF Waiting
<1>2. exporter.step # "wait" => exporter.index \in Values
  BY WatchedAssumption DEF SessionTypeOK, Waiting, Copies, Prints
<1> QED BY <1>1, <1>2 DEF SessionTypeOK, Waiting, Copies, Prints, Copying

\* The session of a value is in an occupied entry, or in the one that moves.
KeyOfShape ==
    \A value \in Values :
        /\ KeyOf(value) \in Keys \cup {NoKey}
        /\ KeyOf(value) = NoKey =>
              /\ \A i \in Slots : Occupied(i) => entries[i].value # value
              /\ ~(Moving /\ writer.item.value = value)
        /\ KeyOf(value) # NoKey =>
              \/ \E i \in Slots : Occupied(i) /\ entries[i].value = value /\ entries[i].key = KeyOf(value)
              \/ Moving /\ writer.item.value = value /\ writer.item.key = KeyOf(value)

LEMMA KeyOfIs == TableInv => KeyOfShape
PROOF
<1> SUFFICES ASSUME TableInv, NEW value \in Values
             PROVE  /\ KeyOf(value) \in Keys \cup {NoKey}
                    /\ KeyOf(value) = NoKey =>
                          /\ \A i \in Slots : Occupied(i) => entries[i].value # value
                          /\ ~(Moving /\ writer.item.value = value)
                    /\ KeyOf(value) # NoKey =>
                          \/ \E i \in Slots : Occupied(i) /\ entries[i].value = value /\ entries[i].key = KeyOf(value)
                          \/ Moving /\ writer.item.value = value /\ writer.item.key = KeyOf(value)
  BY DEF KeyOfShape
<1>1. \A i \in Slots : Occupied(i) => entries[i].key \in Keys /\ entries[i].key # NoKey
  BY KeysAssumption DEF TableInv, WellFormed
<1>2. Moving => writer.item.key \in Keys /\ writer.item.key # NoKey
  BY KeysAssumption DEF TableInv, ItemReady, Moving, Writing
<1>3. CASE \E i \in Slots : Occupied(i) /\ entries[i].value = value
  <2>1. PICK c : c = CHOOSE i \in Slots : Occupied(i) /\ entries[i].value = value
    OBVIOUS
  <2>2. c \in Slots /\ Occupied(c) /\ entries[c].value = value
    BY <1>3, <2>1
  <2>3. KeyOf(value) = entries[c].key
    BY <1>3, <2>1 DEF KeyOf
  <2> QED BY <1>1, <2>2, <2>3
<1>4. CASE ~\E i \in Slots : Occupied(i) /\ entries[i].value = value
  <2>1. KeyOf(value) = IF Moving /\ writer.item.value = value THEN writer.item.key ELSE NoKey
    BY <1>4 DEF KeyOf
  <2> QED BY <1>2, <1>4, <2>1
<1> QED BY <1>3, <1>4

\* An index that is not in use has no slot, unless a removal is at it.
UnusedShape ==
    exporter.step = "copy" /\ ~Removing /\ ~InUse => SlotOfIndex = -1

LEMMA UnusedIsUnmapped == TableInv /\ SessionTypeOK => UnusedShape
PROOF
<1> SUFFICES ASSUME TableInv, SessionTypeOK, exporter.step = "copy", ~Removing, ~InUse, SlotOfIndex # -1
             PROVE  FALSE
  BY DEF UnusedShape
<1>1. PICK value : value = exporter.index
  OBVIOUS
<1>2. value \in Values
  BY <1>1, ExporterIs
<1>3. KeyOf(value) = NoKey /\ ~(Adding /\ writer.item.value = value)
  BY <1>1 DEF InUse
<1>4. \A i \in Slots : Occupied(i) => entries[i].value # value
  BY <1>2, <1>3, KeyOfIs DEF KeyOfShape
<1>5. SlotOfIndex \in Slots
  BY <1>1, <1>2 DEF TableInv, TableTypeOK, SlotOfIndex
<1>6. InFlight(value)
  BY <1>1, <1>2, <1>4, <1>5 DEF TableInv, NamesEntry, SlotOfIndex
<1>7. writer = WriterIdle \/ Adding
  BY DEF Removing
<1> QED BY <1>3, <1>6, <1>7 DEF InFlight, Writing, Clearing, Adding, WriterIdle

------------------------------------------------------------------------------
(* The session table: the steps *)

LEMMA SessionIsTableStep ==
    ASSUME SessionTypeOK, [SessionNext]_sessionVars
    PROVE  [TableStep]_tableVars
PROOF
<1>1. ASSUME AddSession
      PROVE  TableStep
  <2>1. pending.key \in Keys /\ pending.value \in Values /\ StartAdd(pending.key, pending.value)
    BY <1>1 DEF AddSession, SessionTypeOK
  <2> QED BY <2>1 DEF TableStep
<1>2. ASSUME NEW key \in Keys, RemoveSession(key)
      PROVE  TableStep
  BY <1>2 DEF RemoveSession, TableStep, StartRemove
<1>3. ASSUME Continue
      PROVE  TableStep
  BY <1>3 DEF Continue, TableStep
<1>4. CASE UNCHANGED sessionVars
  BY <1>4 DEF sessionVars
<1>5. CASE SessionNext
  BY <1>1, <1>2, <1>3, <1>5 DEF SessionNext, MkUuid, Lock, CopyTable, CopyUuids, PrintFlowData
<1> QED BY <1>4, <1>5

\* Without a removal, sessions stay where they are.
LEMMA CalmKeepsEntries ==
    ASSUME TableInv, [TableStep]_tableVars, ~Removing, ~Removing', NEW i \in Slots, Occupied(i)
    PROVE  Occupied(i)' /\ entries'[i] = entries[i]
PROOF
<1>1. CASE UNCHANGED tableVars
  BY <1>1 DEF tableVars, table, Occupied
<1>2. ASSUME NEW key \in Keys, NEW value \in Values, StartAdd(key, value)
      PROVE  entries' = entries
  BY <1>2 DEF StartAdd, Add, table
<1>3. ~StartRemove
  <2>1. SUFFICES ASSUME StartRemove PROVE FALSE
    OBVIOUS
  <2>2. PICK j \in Slots : RemoveByIndex(j)
    BY <2>1, StartRemoveKeepsTable
  <2> QED BY <2>2 DEF RemoveByIndex, Removing, Adding, WriterIdle
<1>4. ASSUME NEW fields \in StoreGroups, Store(fields)
      PROVE  Occupied(i)' /\ entries'[i] = entries[i]
  <2>1. ~Occupied(writer.into)
    BY <1>4 DEF Store, TableInv, ItemReady, Writing
  <2> QED BY <1>4, <2>1, StoreEffect DEF Occupied
<1>5. ASSUME Publish
      PROVE  Occupied(i)' /\ entries'[i] = entries[i]
  <2>1. PICK into : into = writer.into
    OBVIOUS
  <2>2. ~Occupied(into)
    BY <1>5, <2>1 DEF Publish, TableInv, ItemReady, Writing
  <2>3. \A j \in Slots : j # into => entries'[j] = entries[j]
    BY <1>5, <2>1, PublishEffect
  <2> QED BY <2>2, <2>3 DEF Occupied
<1>6. ~TakeNext /\ ~EndShift /\ \A fields \in StoreGroups : ~Clear(fields)
  BY DEF TakeNext, EndShift, Clear, Removing, Adding, WriterIdle
<1>7. CASE WriterContinues
  BY <1>4, <1>5, <1>6, <1>7 DEF WriterContinues
<1>8. CASE \E key \in Keys, value \in Values : StartAdd(key, value)
  BY <1>2, <1>8 DEF Occupied
<1> QED BY <1>1, <1>3, <1>7, <1>8 DEF TableStep

------------------------------------------------------------------------------
(* Types *)

\* What one part of the copy does.
LEMMA CopyEffect ==
    ASSUME SessionTypeOK, TableInv, NEW part \in Parts, CopyTable(part)
    PROVE  /\ exporter \in Copies /\ exporter' \in Copies
           /\ exporter'.index = exporter.index /\ exporter'.slot = exporter.slot
           /\ exporter'.todo = exporter.todo \ {part}
           /\ exporter'.key = IF part = "key" THEN entries[exporter.slot].key ELSE exporter.key
           /\ exporter'.value = IF part = "value" THEN entries[exporter.slot].value ELSE exporter.value
           /\ exporter'.map = IF part = "map" THEN SlotOfIndex ELSE exporter.map
PROOF
<1>1. exporter \in Copies
  BY ExporterIs DEF CopyTable
<1>2. /\ exporter.slot \in Slots /\ entries[exporter.slot] \in Entry
      /\ exporter.index \in Values /\ SlotOfIndex \in Slots \cup {-1}
  BY <1>1, ExporterIs DEF Copies, TableInv, TableTypeOK, SlotOfIndex
<1>3. CASE part = "key"
  <2>1. exporter' = [exporter EXCEPT !.todo = @ \ {part}, !.key = entries[exporter.slot].key]
    BY <1>3 DEF CopyTable
  <2> QED BY <1>1, <1>2, <1>3, <2>1 DEF Copies, Entry
<1>4. CASE part = "value"
  <2>1. exporter' = [exporter EXCEPT !.todo = @ \ {part}, !.value = entries[exporter.slot].value]
    BY <1>4 DEF CopyTable
  <2> QED BY <1>1, <1>2, <1>4, <2>1 DEF Copies, Entry
<1>5. CASE part = "map"
  <2>1. exporter' = [exporter EXCEPT !.todo = @ \ {part}, !.map = SlotOfIndex]
    BY <1>5 DEF CopyTable, SlotOfIndex
  <2> QED BY <1>1, <1>2, <1>5, <2>1 DEF Copies
<1> QED BY <1>3, <1>4, <1>5 DEF Parts

\* What one row gets.
LEMMA CopyUuidsEffect ==
    ASSUME SessionTypeOK, CopyUuids
    PROVE  /\ exporter \in Copies /\ exporter' \in Prints /\ exporter.todo = {}
           /\ exporter'.index = exporter.index /\ exporter'.slot = exporter.slot /\ exporter'.map = exporter.map
           /\ exporter'.row = [key |-> exporter.key, value |-> exporter.value]
PROOF
<1>1. exporter \in Copies /\ exporter.todo = {}
  BY ExporterIs DEF CopyUuids
<1> DEFINE row == [key |-> exporter.key, value |-> exporter.value]
<1>2. row \in Row
  BY <1>1 DEF Copies, Row
<1>3. exporter' = [step |-> "print", index |-> exporter.index, slot |-> exporter.slot, map |-> exporter.map, row |-> row]
  BY DEF CopyUuids
<1>4. /\ exporter' \in Prints /\ exporter'.row = row
      /\ exporter'.index = exporter.index /\ exporter'.slot = exporter.slot /\ exporter'.map = exporter.map
  <2> HIDE DEF row
  <2> QED BY <1>1, <1>2, <1>3 DEF Copies, Prints
<1> QED BY <1>1, <1>4

\* What is recorded of a copy.
LEMMA TrackCopyIs ==
    ASSUME SessionTypeOK, TrackCopy
    PROVE  /\ Copying' => /\ copyHistory'.key = IF Copying THEN copyHistory.key ELSE KeyOf(exporter'.index)
                          /\ copyHistory'.calm => copyHistory.calm /\ ~Removing'
                          /\ ~copyHistory'.used => ~copyHistory.used /\ ~InUse'
                          /\ copyHistory' = [key |-> copyHistory'.key, calm |-> copyHistory'.calm, used |-> copyHistory'.used]
                          /\ copyHistory'.calm \in BOOLEAN /\ copyHistory'.used \in BOOLEAN
           /\ ~Copying' /\ exporter' # Waiting => copyHistory' = copyHistory
           /\ ~Copying' /\ exporter' = Waiting => copyHistory' = [key |-> NoKey, calm |-> TRUE, used |-> FALSE]
PROOF
<1> DEFINE key == IF Copying THEN copyHistory.key ELSE KeyOf(exporter'.index)
           calm == copyHistory.calm /\ ~Removing'
           used == copyHistory.used \/ InUse'
<1>1. calm \in BOOLEAN /\ used \in BOOLEAN
  OBVIOUS
<1>2. ASSUME Copying'
      PROVE  copyHistory' = [key |-> key, calm |-> calm, used |-> used]
  BY <1>2 DEF TrackCopy
<1>3. ASSUME Copying'
      PROVE  /\ copyHistory'.key = key /\ copyHistory'.calm = calm /\ copyHistory'.used = used
             /\ copyHistory' = [key |-> copyHistory'.key, calm |-> copyHistory'.calm, used |-> copyHistory'.used]
  <2> HIDE DEF key, calm, used
  <2> QED BY <1>1, <1>2, <1>3
<1>4. ASSUME ~Copying'
      PROVE  /\ exporter' # Waiting => copyHistory' = copyHistory
             /\ exporter' = Waiting => copyHistory' = [key |-> NoKey, calm |-> TRUE, used |-> FALSE]
  BY <1>4 DEF TrackCopy
<1> QED BY <1>1, <1>3, <1>4

LEMMA LockEffect ==
    ASSUME SessionTypeOK, NEW index \in Watched, NEW slot \in Slots, Lock(index, slot)
    PROVE  /\ exporter = Waiting /\ exporter' \in Copies
           /\ exporter'.index = index /\ exporter'.slot = slot /\ exporter'.todo = Parts
PROOF
<1>1. exporter' = [step |-> "copy", index |-> index, slot |-> slot, todo |-> Parts,
                   key |-> NoKey, value |-> 0, map |-> -1]
  BY DEF Lock, Parts
<1> QED BY <1>1 DEF Lock, Copies

\* What happens to the exporter.
LEMMA ExporterSteps ==
    ASSUME SessionTypeOK, SessionNext
    PROVE  \/ exporter' = exporter
           \/ \E index \in Watched, slot \in Slots : Lock(index, slot)
           \/ \E part \in Parts : CopyTable(part)
           \/ CopyUuids
           \/ PrintFlowData
PROOF BY DEF SessionNext, Parts, MkUuid, AddSession, RemoveSession, Continue

LEMMA SessionKeepsTypes ==
    ASSUME SessionTypeOK, TableInv, SessionNext
    PROVE  SessionTypeOK'
PROOF
<1>1. TrackCopy
  BY DEF SessionNext
<1>2. pending' \in {None} \cup [key : Keys, value : Values]
  BY DEF SessionTypeOK, SessionNext, MkUuid, AddSession, RemoveSession, Continue, Lock, CopyTable, CopyUuids, PrintFlowData
<1>3. exporter' \in {Waiting} \cup Copies \cup Prints
  <2>1. CASE exporter' = exporter
    BY <2>1 DEF SessionTypeOK
  <2>2. ASSUME PrintFlowData
        PROVE  exporter' = Waiting
    BY <2>2 DEF PrintFlowData
  <2> QED BY <2>1, <2>2, ExporterSteps, LockEffect, CopyEffect, CopyUuidsEffect
<1>4. copyHistory' \in [key : Keys \cup {NoKey}, calm : BOOLEAN, used : BOOLEAN]
  <2>1. CASE Copying'
    <3>1. exporter'.index \in Values
      BY <1>3, <2>1, WatchedAssumption DEF Copying, Copies, Prints, Waiting
    <3>2. copyHistory'.key \in Keys \cup {NoKey}
      BY <1>1, <2>1, <3>1, TrackCopyIs, KeyOfIs DEF KeyOfShape, SessionTypeOK
    <3> QED BY <1>1, <2>1, <3>2, TrackCopyIs
  <2>2. CASE ~Copying' /\ exporter' # Waiting
    BY <1>1, <2>2, TrackCopyIs DEF SessionTypeOK
  <2>3. CASE ~Copying' /\ exporter' = Waiting
    <3>1. copyHistory' = [key |-> NoKey, calm |-> TRUE, used |-> FALSE]
      BY <1>1, <2>3, TrackCopyIs
    <3> QED BY <3>1
  <2> QED BY <2>1, <2>2, <2>3
<1> QED BY <1>2, <1>3, <1>4 DEF SessionTypeOK

------------------------------------------------------------------------------
(* The session table: the copy *)

\* A copy that goes on while no removal runs stays what it was.
LEMMA CalmKeepsCopy ==
    ASSUME TableInv, TableInv', SessionTypeOK, CopyIsSettled, [TableStep]_tableVars, TrackCopy,
           exporter.step = "copy", exporter' = exporter, copyHistory'.calm
    PROVE  /\ ~Removing'
           /\ copyHistory'.key # NoKey => SessionStays'
           /\ ~copyHistory'.used => ~InUse' /\ ("map" \notin exporter'.todo => exporter'.map = -1)
PROOF
<1>1. Copying /\ Copying'
  BY DEF Copying
<1>2. /\ copyHistory'.key = copyHistory.key /\ copyHistory.calm /\ ~Removing'
      /\ ~copyHistory'.used => ~copyHistory.used /\ ~InUse'
  BY <1>1, TrackCopyIs
<1>3. /\ ~Removing
      /\ copyHistory.key # NoKey => SessionStays
      /\ ~copyHistory.used => ("map" \notin exporter.todo => exporter.map = -1)
  BY <1>2 DEF CopyIsSettled
<1>4. ASSUME copyHistory.key # NoKey
      PROVE  SessionStays'
  <2>1. PICK s : s = SlotOfIndex
    OBVIOUS
  <2>2. s \in Slots /\ Occupied(s) /\ entries[s].key = copyHistory.key /\ entries[s].value = exporter.index
    BY <1>3, <1>4, <2>1 DEF SessionStays
  <2>3. Occupied(s)' /\ entries'[s] = entries[s]
    BY <1>2, <1>3, <2>2, CalmKeepsEntries
  <2>4. feature_index_to_entry_map'[entries'[s].value] = s
    BY <2>2, <2>3 DEF TableInv, Mapped
  <2>5. SlotOfIndex' = s
    BY <2>2, <2>3, <2>4 DEF SlotOfIndex
  <2>6. /\ "map" \notin exporter.todo => exporter.map = s
        /\ exporter.slot = s =>
              /\ "key" \notin exporter.todo => exporter.key = copyHistory.key
              /\ "value" \notin exporter.todo => exporter.value = exporter.index
    BY <1>3, <1>4, <2>1 DEF SessionStays
  <2>7. entries'[s].key = copyHistory'.key /\ entries'[s].value = exporter'.index
    BY <1>2, <2>2, <2>3
  <2>8. Occupied(SlotOfIndex)' /\ entries'[SlotOfIndex'].key = copyHistory'.key
        /\ entries'[SlotOfIndex'].value = exporter'.index
    BY <2>3, <2>5, <2>7 DEF Occupied
  <2> QED BY <1>2, <2>2, <2>5, <2>6, <2>8 DEF SessionStays
<1> QED BY <1>2, <1>3, <1>4

\* A copy begins with the session that the index has.
LEMMA LockSettles ==
    ASSUME TableInv, SessionTypeOK, TrackCopy,
           NEW index \in Watched, NEW slot \in Slots, Lock(index, slot), copyHistory'.calm
    PROVE  /\ ~Removing'
           /\ copyHistory'.key # NoKey => SessionStays'
           /\ ~copyHistory'.used => ~InUse' /\ ("map" \notin exporter'.todo => exporter'.map = -1)
PROOF
<1>1. /\ exporter = Waiting /\ exporter' \in Copies /\ exporter'.index = index /\ exporter'.todo = Parts
      /\ Copying' /\ ~Copying
  BY LockEffect, ExporterIs DEF Copying, Copies
<1>2. entries' = entries /\ feature_index_to_entry_map' = feature_index_to_entry_map /\ writer' = writer
  BY DEF Lock, tableVars, table
<1>3. copyHistory'.key = KeyOf(index) /\ ~Removing' /\ (~copyHistory'.used => ~InUse')
  BY <1>1, TrackCopyIs
<1>4. ASSUME KeyOf(index) # NoKey
      PROVE  SessionStays'
  <2>1. ~Moving
    BY <1>2, <1>3 DEF Removing, Moving, Adding, WriterIdle
  <2>2. index \in Values
    BY WatchedAssumption
  <2>3. PICK i \in Slots : Occupied(i) /\ entries[i].value = index /\ entries[i].key = KeyOf(index)
    BY <1>4, <2>1, <2>2, KeyOfIs DEF KeyOfShape
  <2>4. SlotOfIndex' = i
    BY <1>1, <1>2, <2>3 DEF TableInv, Mapped, SlotOfIndex
  <2>5. /\ Occupied(SlotOfIndex)'
        /\ entries'[SlotOfIndex'].key = copyHistory'.key
        /\ entries'[SlotOfIndex'].value = exporter'.index
    BY <1>1, <1>2, <1>3, <2>3, <2>4 DEF Occupied
  <2> QED BY <1>1, <2>4, <2>5 DEF SessionStays, Parts
<1> QED BY <1>1, <1>3, <1>4 DEF Parts

\* What is copied of the session is its own.
LEMMA CopySettles ==
    ASSUME TableInv, SessionTypeOK, CopyIsSettled, TrackCopy, NEW part \in Parts, CopyTable(part), copyHistory'.calm
    PROVE  /\ ~Removing'
           /\ copyHistory'.key # NoKey => SessionStays'
           /\ ~copyHistory'.used => ~InUse' /\ ("map" \notin exporter'.todo => exporter'.map = -1)
PROOF
<1>1. /\ exporter.step = "copy" /\ exporter'.step = "copy"
      /\ exporter'.index = exporter.index /\ exporter'.slot = exporter.slot
      /\ exporter'.todo = exporter.todo \ {part}
      /\ exporter'.key = IF part = "key" THEN entries[exporter.slot].key ELSE exporter.key
      /\ exporter'.value = IF part = "value" THEN entries[exporter.slot].value ELSE exporter.value
      /\ exporter'.map = IF part = "map" THEN SlotOfIndex ELSE exporter.map
  BY CopyEffect DEF Copies
<1>2. entries' = entries /\ feature_index_to_entry_map' = feature_index_to_entry_map
  BY DEF CopyTable, tableVars, table
<1>3. /\ copyHistory'.key = copyHistory.key /\ copyHistory.calm /\ ~Removing'
      /\ ~copyHistory'.used => ~copyHistory.used /\ ~InUse'
  BY <1>1, TrackCopyIs DEF Copying
<1>4. /\ ~Removing
      /\ copyHistory.key # NoKey => SessionStays
      /\ ~copyHistory.used => ~InUse /\ ("map" \notin exporter.todo => exporter.map = -1)
  BY <1>1, <1>3 DEF CopyIsSettled
<1>5. ~copyHistory.used => SlotOfIndex = -1
  BY <1>1, <1>4, UnusedIsUnmapped DEF UnusedShape
<1>6. SlotOfIndex' = SlotOfIndex
  BY <1>1, <1>2 DEF SlotOfIndex
<1>7. copyHistory.key # NoKey => SessionStays'
  BY <1>1, <1>2, <1>3, <1>4, <1>6 DEF SessionStays, Occupied
<1> QED BY <1>1, <1>3, <1>4, <1>5, <1>7

LEMMA NextKeepsCopy ==
    ASSUME TableInv, TableInv', SessionTypeOK, CopyIsSettled, SessionNext
    PROVE  CopyIsSettled'
PROOF
<1> SUFFICES ASSUME exporter'.step = "copy", copyHistory'.calm
             PROVE  /\ ~Removing'
                    /\ copyHistory'.key # NoKey => SessionStays'
                    /\ ~copyHistory'.used => ~InUse' /\ ("map" \notin exporter'.todo => exporter'.map = -1)
  BY DEF CopyIsSettled
<1>1. TrackCopy
  BY DEF SessionNext
<1>2. [TableStep]_tableVars
  BY SessionIsTableStep
<1>3. CASE exporter' = exporter
  BY <1>1, <1>2, <1>3, CalmKeepsCopy
<1>4. CASE \E index \in Watched, slot \in Slots : Lock(index, slot)
  BY <1>1, <1>4, LockSettles
<1>5. CASE \E part \in Parts : CopyTable(part)
  BY <1>1, <1>5, CopySettles
<1>6. ~CopyUuids /\ ~PrintFlowData
  BY CopyUuidsEffect DEF Prints, PrintFlowData, Waiting
<1> QED BY <1>3, <1>4, <1>5, <1>6, ExporterSteps

\* The row that is printed is that of the session.
LEMMA NextKeepsRow ==
    ASSUME TableInv, SessionTypeOK, SessionTypeOK', CopyIsSettled, SettledIsExported, SessionNext
    PROVE  SettledIsExported'
PROOF
<1> SUFFICES ASSUME exporter'.step = "print", copyHistory'.calm
             PROVE  /\ copyHistory'.key # NoKey =>
                          /\ exporter'.map # -1
                          /\ Printed' => exporter'.row = [key |-> copyHistory'.key, value |-> exporter'.index]
                    /\ ~copyHistory'.used => exporter'.map = -1
  BY DEF SettledIsExported
<1>1. TrackCopy
  BY DEF SessionNext
<1>2. copyHistory' = copyHistory
  <2>1. ~Copying' /\ exporter' # Waiting
    BY DEF Copying, Waiting
  <2> QED BY <1>1, <2>1, TrackCopyIs
<1>3. CASE exporter' = exporter
  BY <1>2, <1>3 DEF SettledIsExported, Printed
<1>4. ~(\E index \in Watched, slot \in Slots : Lock(index, slot)) /\ ~PrintFlowData
  BY LockEffect DEF Copies, PrintFlowData, Waiting
<1>5. ~(\E part \in Parts : CopyTable(part))
  BY CopyEffect DEF Copies
<1>6. CASE CopyUuids
  <2>1. /\ exporter \in Copies /\ exporter.step = "copy" /\ exporter.todo = {}
        /\ exporter'.index = exporter.index /\ exporter'.slot = exporter.slot /\ exporter'.map = exporter.map
        /\ exporter'.row = [key |-> exporter.key, value |-> exporter.value]
    BY <1>6, CopyUuidsEffect DEF Copies
  <2>2. /\ copyHistory.key # NoKey => SessionStays
        /\ ~copyHistory.used => exporter.map = -1
    BY <1>2, <2>1 DEF CopyIsSettled
  <2>3. ASSUME copyHistory.key # NoKey
        PROVE  /\ exporter.map \in Slots
               /\ exporter.map = exporter.slot => exporter.key = copyHistory.key /\ exporter.value = exporter.index
    BY <2>1, <2>2, <2>3 DEF SessionStays
  <2>4. -1 \notin Slots
    BY SizeAssumption DEF Slots
  <2> QED BY <1>2, <2>1, <2>2, <2>3, <2>4 DEF Printed
<1> QED BY <1>3, <1>4, <1>5, <1>6, ExporterSteps

------------------------------------------------------------------------------
(* The session table: theorems *)

LEMMA InitExport == SessionInit => ExportInv
PROOF
<1> SUFFICES ASSUME SessionInit
             PROVE  ExportInv
  OBVIOUS
<1>1. /\ pending = None /\ exporter = Waiting
      /\ copyHistory = [key |-> NoKey, calm |-> TRUE, used |-> FALSE]
  BY DEF SessionInit
<1>2. SessionTypeOK
  <2>1. copyHistory \in [key : Keys \cup {NoKey}, calm : BOOLEAN, used : BOOLEAN]
    BY <1>1
  <2> QED BY <1>1, <2>1 DEF SessionTypeOK
<1>3. exporter.step = "wait"
  BY <1>1 DEF Waiting
<1> QED BY <1>2, <1>3 DEF ExportInv, CopyIsSettled, SettledIsExported

\* The invariants of the writer's side and of the copy hold together.
LEMMA ExportInvariant == SessionSpec => [](TableInv /\ ExportInv)
PROOF
<1>1. SessionInit => TableInv /\ ExportInv
  BY InitTable, InitExport DEF SessionInit
<1>2. TableInv /\ ExportInv /\ [SessionNext]_sessionVars => TableInv' /\ ExportInv'
  <2> SUFFICES ASSUME TableInv, ExportInv, [SessionNext]_sessionVars
               PROVE  TableInv' /\ ExportInv'
    OBVIOUS
  <2>1. TableInv'
    BY SessionIsTableStep, StepKeepsTable DEF ExportInv
  <2>2. CASE SessionNext
    <3>1. SessionTypeOK'
      BY <2>2, SessionKeepsTypes DEF ExportInv
    <3> QED BY <2>1, <2>2, <3>1, NextKeepsCopy, NextKeepsRow DEF ExportInv
  <2>3. CASE UNCHANGED sessionVars
    BY <2>1, <2>3 DEF sessionVars, tableVars, table, ExportInv, SessionTypeOK, CopyIsSettled,
                      SettledIsExported, SessionStays, SlotOfIndex, Printed, Removing, Adding, InUse, KeyOf,
                      Moving, Writing, Occupied
  <2> QED BY <2>1, <2>2, <2>3
<1> QED BY <1>1, <1>2, PTL DEF SessionSpec

\* feature_export_thread and add_flow keep the types of what they share: the copy
\* holds keys, ids and slots whatever flowdb_thread stores meanwhile.
THEOREM SessionTableTypeCorrect == SessionSpec => []SessionTypeOK
PROOF
<1>1. TableInv /\ ExportInv => SessionTypeOK
  BY DEF ExportInv
<1> QED BY <1>1, ExportInvariant, PTL

\* The session table stays in order as the flow table does, while
\* session_hashtable_remove_by_index moves entries and ids get new sessions.
THEOREM SessionTableInOrder == SessionSpec => [](ProbesUnbroken /\ MapExact /\ RemovalsEnd)
PROOF
<1>1. TableInv /\ ExportInv => ProbesUnbroken /\ MapExact /\ RemovalsEnd
  BY TableIsInOrder
<1> QED BY <1>1, ExportInvariant, PTL

\* The session table implements a dictionary as well: a session is added and removed
\* in one step each, and no other session changes, whatever entries move.
THEOREM SessionTableImplementsDictionary == SessionSpec => ImplementsDictionary
PROOF
<1>1. SessionInit => D!Init
  BY InitDict DEF SessionInit
<1>2. TableInv /\ ExportInv /\ TableInv' /\ [SessionNext]_sessionVars => [D!Next]_Dict
  BY SessionIsTableStep, StepImplementsDictionary DEF ExportInv
<1> QED BY <1>1, <1>2, ExportInvariant, PTL DEF SessionSpec, ImplementsDictionary, D!Spec

\* Unless a removal runs during session_hashtable_copy, every session that was in
\* the table is exported as itself, and no row is printed for an index that was
\* not in use.
THEOREM SettledSessionsAreExported == SessionSpec => []SettledIsExported
PROOF
<1>1. TableInv /\ ExportInv => SettledIsExported
  BY DEF ExportInv
<1> QED BY <1>1, ExportInvariant, PTL

=============================================================================
