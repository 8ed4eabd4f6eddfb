--------------------------- MODULE Features_proofs ---------------------------
(***************************************************************************)
(* Theorems about Features, for every size of words and of values: the     *)
(* low word of a feature's value is right whatever fails, and the value is *)
(* exact as long as no read fails and no overflow goes unseen.             *)
(***************************************************************************)
EXTENDS Features, TLAPS

------------------------------------------------------------------------------
(* Remainders *)

\* A number is a multiple of the modulus and its remainder.
LEMMA Division ==
    ASSUME NEW m \in Nat \ {0}, NEW a \in Int
    PROVE  /\ a % m \in 0 .. m - 1
           /\ \E q \in Int : a = q * m + (a % m)
PROOF
<1>1. a \div m \in Int
  BY Z3
<1>2. a = (a \div m) * m + (a % m)
  BY Z3
<1>3. a % m \in 0 .. m - 1
  BY Z3
<1> QED BY <1>1, <1>2, <1>3

\* There is only one way to write a number so.
LEMMA RemainderIsUnique ==
    ASSUME NEW m \in Nat \ {0}, NEW p \in Int, NEW q \in Int, NEW r \in 0 .. m - 1, NEW s \in 0 .. m - 1,
           p * m + r = q * m + s
    PROVE  r = s
PROOF
<1>1. (p - q) * m = s - r
  BY Z3
<1>2. CASE p - q >= 1
  <2>1. (p - q) * m >= m
     BY <1>2, Z3
  <2> QED BY <2>1, <1>1
<1>3. CASE p - q <= -1
  <2>1. (p - q) * m <= -m
     BY <1>3, Z3
  <2> QED BY <2>1, <1>1
<1>4. CASE p = q
  BY <1>4, <1>1
<1> QED BY <1>2, <1>3, <1>4

\* Numbers that are a multiple of the modulus apart have the same remainder.
LEMMA Congruent ==
    ASSUME NEW m \in Nat \ {0}, NEW a \in Int, NEW b \in Int, NEW k \in Int, a = b + k * m
    PROVE  a % m = b % m
PROOF
<1>1. PICK p \in Int : a = p * m + (a % m)
  BY Division
<1>2. PICK q \in Int : b = q * m + (b % m)
  BY Division
<1>3. a % m \in 0 .. m - 1 /\ b % m \in 0 .. m - 1
  BY Division
<1> DEFINE r == a % m
           s == b % m
<1>4. r \in 0 .. m - 1 /\ s \in 0 .. m - 1 /\ a = p * m + r /\ b = q * m + s
  BY <1>1, <1>2, <1>3
<1> HIDE DEF r, s
<1>5. p * m + r = (q + k) * m + s
  BY <1>4, Z3
<1>6. r = s
  <2>1. q + k \in Int
    OBVIOUS
  <2> QED BY <1>4, <1>5, <2>1, RemainderIsUnique
<1> QED BY <1>6 DEF r, s

\* And the other way round.
LEMMA SameRemainder ==
    ASSUME NEW m \in Nat \ {0}, NEW a \in Int, NEW b \in Int, a % m = b % m
    PROVE  \E k \in Int : a = b + k * m
PROOF
<1>1. PICK p \in Int : a = p * m + (a % m)
  BY Division
<1>2. PICK q \in Int : b = q * m + (b % m)
  BY Division
<1>3. a % m \in Int
  BY Division
<1> DEFINE r == a % m
<1>4. r \in Int /\ a = p * m + r /\ b = q * m + r
  BY <1>1, <1>2, <1>3
<1> HIDE DEF r
<1>5. a = b + (p - q) * m
  BY <1>4, Z3
<1> QED BY <1>5

\* A number that is smaller than the modulus is its own remainder.
LEMMA SmallRemainder ==
    ASSUME NEW m \in Nat \ {0}, NEW a \in 0 .. m - 1
    PROVE  a % m = a
PROOF BY Z3

\* What the constants' assumptions say of them.
LEMMA Sizes ==
    /\ WordSize \in Nat \ {0}
    /\ LongSize \in Nat \ {0}
    /\ WordSize < LongSize
    /\ \E c \in Int : LongSize = c * WordSize
PROOF
<1>1. WordSize \in Nat \ {0} /\ LongSize \in Nat \ {0} /\ WordSize < LongSize
  BY WordAssumption, LongAssumption
<1>2. PICK q \in Int : LongSize = q * WordSize + (LongSize % WordSize)
  <2>1. LongSize \in Int
    BY <1>1
  <2> QED BY <1>1, <2>1, Division, Zenon
<1>3. LongSize = q * WordSize
  <2>1. LongSize % WordSize = 0
    BY LongAssumption
  <2>2. q * WordSize \in Int
    BY <1>1, Z3
  <2> QED BY <1>2, <2>1, <2>2
<1> QED BY <1>1, <1>3

\* Words and values are small numbers.
LEMMA SmallNumbers ==
    ASSUME NEW a \in Int
    PROVE  /\ Word(a) \in 0 .. WordSize - 1
           /\ Long(a) \in 0 .. LongSize - 1
           /\ Word(a) \in Int /\ Long(a) \in Int
           /\ \E q \in Int : a = Word(a) + q * WordSize
           /\ \E q \in Int : a = Long(a) + q * LongSize
PROOF
<1>1. a % WordSize \in 0 .. WordSize - 1 /\ a % LongSize \in 0 .. LongSize - 1
  BY Division, Sizes
<1>2. PICK p \in Int : a = p * WordSize + (a % WordSize)
  BY Division, Sizes
<1>3. PICK q \in Int : a = q * LongSize + (a % LongSize)
  BY Division, Sizes
<1> DEFINE r == a % WordSize
           s == a % LongSize
<1>4. r \in Int /\ s \in Int /\ a = p * WordSize + r /\ a = q * LongSize + s
  BY <1>1, <1>2, <1>3, Sizes
<1> HIDE DEF r, s
<1>5. a = r + p * WordSize /\ a = s + q * LongSize
  <2>1. p * WordSize \in Int /\ q * LongSize \in Int
    BY Sizes
  <2> QED BY <1>4, <2>1
<1> QED BY <1>1, <1>4, <1>5, Sizes DEF r, s, Word, Long

\* The low word of a value is that of the number before it was cut to 64 bits.
LEMMA WordOfLong ==
    ASSUME NEW a \in Int
    PROVE  Word(Long(a)) = Word(a)
PROOF
<1>1. PICK q \in Int : a = Long(a) + q * LongSize
  BY SmallNumbers
<1>2. PICK c \in Int : LongSize = c * WordSize
  BY Sizes
<1>3. a = Long(a) + (q * c) * WordSize
  <2>1. q * LongSize = (q * c) * WordSize
    BY <1>2, Sizes, Z3
  <2> QED BY <1>1, <2>1
<1>4. q * c \in Int
  BY Z3
<1> QED BY <1>3, <1>4, SmallNumbers, Sizes, Congruent DEF Word

\* The difference of two words is the low word of the difference: uint32_t
\* subtraction does not see how often the register overflowed.
LEMMA WordDifference ==
    ASSUME NEW d \in Int, NEW l \in Int
    PROVE  Word(Word(d) - Word(l)) = Word(d - l)
PROOF
<1>1. PICK p \in Int : d = Word(d) + p * WordSize
  BY SmallNumbers
<1>2. PICK q \in Int : l = Word(l) + q * WordSize
  BY SmallNumbers
<1> DEFINE x == Word(d)
           y == Word(l)
<1>3. x \in Int /\ y \in Int /\ d = x + p * WordSize /\ l = y + q * WordSize
  BY <1>1, <1>2, SmallNumbers
<1> HIDE DEF x, y
<1>4. d - l = (x - y) + (p - q) * WordSize
  BY <1>3, Sizes, Z3
<1>5. (d - l) % WordSize = (x - y) % WordSize
  <2>1. d - l \in Int /\ x - y \in Int /\ p - q \in Int
    BY <1>3
  <2> QED BY <1>4, <2>1, Sizes, Congruent
<1> QED BY <1>5 DEF x, y, Word

\* The low word of what was counted from one total to another.
WordSince(total, since) == Word(total - since)

\* Adding the difference of two readings to a value whose low word was right at
\* the older one makes it right at the newer one.
LEMMA AddDifferenceModuloWord ==
    ASSUME NEW v \in Int, NEW d \in Int, NEW l \in Int, NEW s \in Int,
           Word(v) = WordSince(l, s)
    PROVE  Word(Long(v + Word(Word(d) - Word(l)))) = WordSince(d, s)
PROOF
<1> USE DEF WordSince
<1> DEFINE e == Word(Word(d) - Word(l))
<1>1. e = Word(d - l)
  BY WordDifference
<1>2. d - l \in Int /\ l - s \in Int
  OBVIOUS
<1>3. e \in Int
  BY <1>1, <1>2, SmallNumbers
<1>4. PICK q \in Int : d - l = e + q * WordSize
  BY <1>1, <1>2, SmallNumbers
<1>5. PICK k \in Int : v = (l - s) + k * WordSize
  BY <1>2, Sizes, SameRemainder DEF Word
<1> HIDE DEF e
<1>6. v + e = (d - s) + (k - q) * WordSize
  BY <1>3, <1>4, <1>5, Sizes, Z3
<1>7. Word(v + e) = Word(d - s)
  <2>1. v + e \in Int /\ d - s \in Int /\ k - q \in Int
    BY <1>3
  <2> QED BY <1>6, <2>1, Sizes, Congruent DEF Word
<1>8. Word(Long(v + e)) = Word(v + e)
  <2>1. v + e \in Int
    BY <1>3
  <2> QED BY <2>1, WordOfLong
<1> QED BY <1>7, <1>8 DEF e

\* The same of a whole value, if less than a word was counted in between.
LEMMA AddDifferenceExactly ==
    ASSUME NEW v \in Int, NEW d \in Int, NEW l \in Int, NEW s \in Int,
           v = Long(l - s), Long(d - l) < WordSize
    PROVE  Long(v + Word(Word(d) - Word(l))) = Long(d - s)
PROOF
<1> DEFINE e == Word(Word(d) - Word(l))
<1>1. d - l \in Int /\ l - s \in Int
  OBVIOUS
<1>2. e = Long(d - l)
  <2>1. e = Word(d - l)
    BY WordDifference
  <2>2. Word(Long(d - l)) = Word(d - l)
    BY <1>1, WordOfLong
  <2>3. Long(d - l) \in 0 .. WordSize - 1
    BY <1>1, SmallNumbers, Sizes
  <2>4. Word(Long(d - l)) = Long(d - l)
    BY <2>3, Sizes, SmallRemainder DEF Word
  <2> QED BY <2>1, <2>2, <2>4
<1>3. e \in Int
  BY <1>1, <1>2, SmallNumbers
<1>4. PICK p \in Int : d - l = e + p * LongSize
  BY <1>1, <1>2, SmallNumbers
<1>5. PICK q \in Int : l - s = v + q * LongSize
  BY <1>1, SmallNumbers
<1> HIDE DEF e
<1>6. d - s = (v + e) + (p + q) * LongSize
  BY <1>3, <1>4, <1>5, Sizes, Z3
<1>7. Long(d - s) = Long(v + e)
  <2> DEFINE a == d - s
             b == v + e
             k == p + q
  <2>1. a \in Int /\ b \in Int /\ k \in Int /\ a = b + k * LongSize
    BY <1>3, <1>6
  <2>2. LongSize \in Nat \ {0}
    BY Sizes
  <2> HIDE DEF a, b, k
  <2>3. a % LongSize = b % LongSize
    BY <2>1, <2>2, Congruent
  <2> QED BY <2>3 DEF Long, a, b
<1> QED BY <1>7 DEF e

------------------------------------------------------------------------------
(* The inductive invariant *)

Totals == 0 .. LongSize - 1

TypeOK ==
    /\ register \in Totals /\ shadow \in Totals
    /\ data_plane_values \in Totals /\ last_data_plane_value \in Totals
    /\ values \in Totals /\ cleared \in Totals
    /\ exporter \in [step : {"prepare", "sync", "read", "process"}]
                    \cup [step : {"store"}, value : Totals, since : Totals]
    /\ exact \in BOOLEAN

\* The value that process_feature has loaded was right when it was loaded, and
\* stays so, even if the one in memory is set to 0.
LoadedModuloWord ==
    At("store") => Word(exporter.value) = Word(last_data_plane_value - exporter.since)

LoadedExact ==
    exact /\ At("store") => exporter.value = Long(last_data_plane_value - exporter.since)

\* What an exact value rests on: less than a word passes between two readings.
Close ==
    exact =>
        /\ ~At("prepare") => Long(register - shadow) < WordSize
        /\ ~At("read") => data_plane_values = shadow
        /\ At("read") => Long(shadow - data_plane_values) < WordSize
        /\ At("process") \/ At("store") =>
               Long(data_plane_values - last_data_plane_value) < WordSize

ModuloInv == TypeOK /\ CorrectModuloWord /\ LoadedModuloWord
ExactInv  == TypeOK /\ ValueExact /\ LoadedExact /\ Close

------------------------------------------------------------------------------
(* Type correctness *)

\* Nothing is counted and nothing is on its way when the threads start.
LEMMA Zeros == 0 \in Totals /\ Word(0) = 0 /\ Long(0) = 0
PROOF
<1>1. 0 \in 0 .. WordSize - 1 /\ 0 \in 0 .. LongSize - 1
  BY Sizes
<1>2. 0 % WordSize = 0 /\ 0 % LongSize = 0
  BY <1>1, Sizes, SmallRemainder
<1> QED BY <1>1, <1>2 DEF Totals, Word, Long

LEMMA TotalsAreIntegers ==
    ASSUME NEW a \in Totals
    PROVE  a \in Int
PROOF BY Sizes DEF Totals

LEMMA InitType == Init => TypeOK
PROOF BY Zeros DEF Init, TypeOK, Totals

LEMMA NextType == TypeOK /\ [Next]_vars => TypeOK'
PROOF
<1> SUFFICES ASSUME TypeOK, [Next]_vars
             PROVE  TypeOK'
  OBVIOUS
<1> USE DEF TypeOK
<1>1. ASSUME NEW n \in Bursts, Count(n)
      PROVE  TypeOK'
  <2>1. register + n \in Int
    BY TotalsAreIntegers, BurstsAssumption, Sizes
  <2>2. register' \in Totals
    BY <1>1, <2>1, SmallNumbers DEF Count, Totals
  <2>3. exact' \in BOOLEAN
    BY <1>1, Zenon DEF Count
  <2> QED BY <1>1, <2>2, <2>3 DEF Count, buffers
<1>2. ASSUME NEW ok \in BOOLEAN, Sync(ok)
      PROVE  TypeOK'
  BY <1>2 DEF Sync, buffers
<1>3. ASSUME NEW ok \in BOOLEAN, Read(ok)
      PROVE  TypeOK'
  <2>1. exact' \in BOOLEAN
    BY <1>3, Zenon DEF Read
  <2> QED BY <1>3, <2>1 DEF Read
<1>4. CASE Load
  BY <1>4 DEF Load, buffers
<1>5. CASE Store
  <2>1. exporter.value \in Totals /\ exporter.since \in Totals
    BY <1>5 DEF Store, At
  <2>2. Difference \in Int
    <3>1. Word(data_plane_values) - Word(last_data_plane_value) \in Int
      BY TotalsAreIntegers, SmallNumbers
    <3> QED BY <3>1, SmallNumbers DEF Difference
  <2>3. values' \in Totals
    <3>1. exporter.value + Difference \in Int
      BY <2>1, <2>2, TotalsAreIntegers
    <3> QED BY <1>5, <3>1, SmallNumbers DEF Store, Totals
  <2> QED BY <1>5, <2>1, <2>3 DEF Store, buffers
<1>6. CASE Clear
  <2>1. Accounted \in Totals
    BY DEF Accounted
  <2> QED BY <1>6, <2>1, Zeros DEF Clear, buffers
<1>7. CASE Prepare
  BY <1>7, Zeros DEF Prepare
<1>8. CASE Restart
  BY <1>8, Zeros DEF Restart
<1>9. CASE UNCHANGED vars
  BY <1>9 DEF vars, buffers
<1> QED BY <1>1, <1>2, <1>3, <1>4, <1>5, <1>6, <1>7, <1>8, <1>9 DEF Next

\* Every number of Features stays in its range, and the exporter where
\* feature_export_thread can be.
THEOREM FeaturesTypeCorrect == Spec => []TypeOK
PROOF
<1>1. Init => TypeOK
  BY InitType
<1>2. TypeOK /\ [Next]_vars => TypeOK'
  BY NextType
<1> QED BY <1>1, <1>2, PTL DEF Spec

------------------------------------------------------------------------------
(* The low word of the value *)

LEMMA InitModulo == Init => ModuloInv
PROOF
<1> SUFFICES ASSUME Init
             PROVE  ModuloInv
  OBVIOUS
<1>1. TypeOK
  BY InitType
<1>2. Accounted = 0 /\ cleared = 0 /\ values = 0
  BY DEF Init, Accounted
<1>3. CorrectModuloWord
  BY <1>2 DEF CorrectModuloWord
<1>4. LoadedModuloWord
  BY DEF Init, LoadedModuloWord, At
<1> QED BY <1>1, <1>3, <1>4 DEF ModuloInv

LEMMA NextModulo == ModuloInv /\ [Next]_vars => ModuloInv'
PROOF
<1> SUFFICES ASSUME ModuloInv, [Next]_vars
             PROVE  ModuloInv'
  OBVIOUS
<1>t. TypeOK /\ TypeOK'
  BY NextType DEF ModuloInv
<1>c. Word(values) = Word(Accounted - cleared)
  BY DEF ModuloInv, CorrectModuloWord
<1>l. LoadedModuloWord
  BY DEF ModuloInv
<1> SUFFICES CorrectModuloWord' /\ LoadedModuloWord'
  BY <1>t DEF ModuloInv
<1> USE DEF CorrectModuloWord
<1>1. ASSUME NEW n \in Bursts, Count(n)
      PROVE  CorrectModuloWord' /\ LoadedModuloWord'
  BY <1>1, <1>c, <1>l DEF Count, buffers, Accounted, At, LoadedModuloWord
<1>2. ASSUME NEW ok \in BOOLEAN, Sync(ok)
      PROVE  CorrectModuloWord' /\ LoadedModuloWord'
  <2>1. Accounted' = Accounted /\ ~At("store")'
    BY <1>2 DEF Sync, buffers, Accounted, At
  <2> QED BY <1>2, <2>1, <1>c DEF Sync, LoadedModuloWord
<1>3. ASSUME NEW ok \in BOOLEAN, Read(ok)
      PROVE  CorrectModuloWord' /\ LoadedModuloWord'
  <2>1. Accounted' = Accounted /\ ~At("store")'
    BY <1>3 DEF Read, Accounted, At
  <2> QED BY <1>3, <2>1, <1>c DEF Read, LoadedModuloWord
<1>4. CASE Load
  <2>1. Accounted' = Accounted /\ Accounted = last_data_plane_value
    BY <1>4 DEF Load, buffers, Accounted, At
  <2>2. exporter'.value = values /\ exporter'.since = cleared
    BY <1>4 DEF Load
  <2> QED BY <1>4, <2>1, <2>2, <1>c DEF Load, buffers, LoadedModuloWord
<1>5. CASE Store
  <2>1. exporter.value \in Int /\ exporter.since \in Int
    BY <1>5, <1>t, TotalsAreIntegers DEF Store, At, TypeOK
  <2>2. data_plane_values \in Int /\ last_data_plane_value \in Int
    BY <1>t, TotalsAreIntegers DEF TypeOK
  <2>3. Word(exporter.value) = Word(last_data_plane_value - exporter.since)
    BY <1>5, <1>l DEF Store, LoadedModuloWord
  <2>4. Word(values') = Word(data_plane_values - exporter.since)
    <3>1. values' = Long(exporter.value + Word(Word(data_plane_values) - Word(last_data_plane_value)))
      BY <1>5 DEF Store, Difference
    <3>2. Word(exporter.value) = WordSince(last_data_plane_value, exporter.since)
      BY <2>3 DEF WordSince
    <3>3. Word(Long(exporter.value + Word(Word(data_plane_values) - Word(last_data_plane_value))))
            = WordSince(data_plane_values, exporter.since)
      BY <2>1, <2>2, <3>2, AddDifferenceModuloWord
    <3> QED BY <3>1, <3>3 DEF WordSince
  <2>5. Accounted' = data_plane_values /\ cleared' = exporter.since /\ ~At("store")'
    BY <1>5 DEF Store, buffers, Accounted, At
  <2> QED BY <2>4, <2>5 DEF LoadedModuloWord
<1>6. CASE Clear
  <2>1. Accounted' = Accounted /\ cleared' = Accounted /\ values' = 0
    BY <1>6 DEF Clear, buffers, Accounted, At
  <2>2. Accounted \in Int
    BY <1>t, TotalsAreIntegers DEF Accounted, TypeOK
  <2>3. Accounted' - cleared' = 0
    BY <2>1, <2>2
  <2>4. LoadedModuloWord'
    BY <1>6, <1>l DEF Clear, buffers, LoadedModuloWord, At
  <2> QED BY <2>1, <2>3, <2>4
<1>7. CASE Prepare \/ Restart
  <2>1. Accounted' = 0 /\ cleared' = 0 /\ values' = 0 /\ ~At("store")'
    BY <1>7 DEF Prepare, Restart, Accounted, At
  <2> QED BY <2>1 DEF LoadedModuloWord
<1>8. CASE UNCHANGED vars
  BY <1>8, <1>c, <1>l DEF vars, buffers, Accounted, At, LoadedModuloWord
<1> QED BY <1>1, <1>2, <1>3, <1>4, <1>5, <1>6, <1>7, <1>8 DEF Next

\* For words and values of any size: failed syncs and reads, overflows of the
\* register, a clear_registers between the load and the store of process_feature
\* and restarts of the controller leave the low word of the value right.
THEOREM LowWordCorrect == Spec => []CorrectModuloWord
PROOF
<1>1. Init => ModuloInv
  BY InitModulo
<1>2. ModuloInv /\ [Next]_vars => ModuloInv'
  BY NextModulo
<1>3. ModuloInv => CorrectModuloWord
  BY DEF ModuloInv
<1> QED BY <1>1, <1>2, <1>3, PTL DEF Spec

------------------------------------------------------------------------------
(* The whole value *)

LEMMA InitExact == Init => ExactInv
PROOF
<1> SUFFICES ASSUME Init
             PROVE  ExactInv
  OBVIOUS
<1>1. TypeOK
  BY InitType
<1>2. Accounted = 0 /\ cleared = 0 /\ values = 0
  BY DEF Init, Accounted
<1>3. ValueExact
  BY <1>2, Zeros DEF ValueExact
<1>4. LoadedExact /\ Close
  BY DEF Init, LoadedExact, Close, At
<1> QED BY <1>1, <1>3, <1>4 DEF ExactInv

LEMMA NextExact == ExactInv /\ [Next]_vars => ExactInv'
PROOF
<1> SUFFICES ASSUME ExactInv, [Next]_vars
             PROVE  ExactInv'
  OBVIOUS
<1>t. TypeOK /\ TypeOK'
  BY NextType DEF ExactInv
<1>e. ValueExact /\ LoadedExact /\ Close
  BY DEF ExactInv
<1>s. 0 < WordSize
  BY Sizes
<1> SUFFICES ASSUME exact'
             PROVE  ValueExact' /\ LoadedExact' /\ Close'
  BY <1>t DEF ExactInv, ValueExact, LoadedExact, Close
<1>1. ASSUME NEW n \in Bursts, Count(n)
      PROVE  ValueExact' /\ LoadedExact' /\ Close'
  <2>1. exact /\ Long(register + n - shadow) < WordSize
    BY <1>1, Zenon DEF Count
  <2>2. register' = Long(register + n)
    BY <1>1 DEF Count
  <2>3. Long(register' - shadow) = Long(register + n - shadow)
    <3> DEFINE a == register + n
    <3>1. a \in Int /\ shadow \in Int
      BY <1>t, TotalsAreIntegers, BurstsAssumption, Sizes DEF TypeOK
    <3>2. Long(a) \in Int
      BY <3>1, SmallNumbers
    <3>3. PICK q \in Int : a = Long(a) + q * LongSize
      BY <3>1, SmallNumbers
    <3> HIDE DEF a
    <3> DEFINE b == Long(a)
               c == a - shadow
               d == b - shadow
    <3>4. c \in Int /\ d \in Int /\ c = d + q * LongSize
      <4>1. q * LongSize \in Int
        BY Sizes, Z3
      <4> QED BY <3>1, <3>2, <3>3, <4>1
    <3>5. LongSize \in Nat \ {0}
      BY Sizes
    <3> HIDE DEF c, d
    <3>6. c % LongSize = d % LongSize
      BY <3>4, <3>5, Congruent
    <3>7. Long(Long(a) - shadow) = Long(a - shadow)
      BY <3>6 DEF Long, c, d
    <3>8. register + n - shadow = a - shadow
      BY <1>t, TotalsAreIntegers, BurstsAssumption, Sizes DEF TypeOK, a
    <3> QED BY <2>2, <3>7, <3>8 DEF a
  <2>4. ~At("prepare")' => Long(register' - shadow') < WordSize
    BY <1>1, <2>1, <2>3 DEF Count
  <2>5. UNCHANGED <<shadow, data_plane_values, last_data_plane_value, values, exporter, cleared>>
    BY <1>1 DEF Count, buffers
  <2>6. ValueExact' /\ LoadedExact'
    BY <2>1, <2>5, <1>e DEF ValueExact, LoadedExact, Accounted, At
  <2> QED BY <2>1, <2>4, <2>5, <2>6, <1>e DEF Close, At
<1>2. ASSUME NEW ok \in BOOLEAN, Sync(ok)
      PROVE  ValueExact' /\ LoadedExact' /\ Close'
  <2>1. exact /\ At("sync") /\ exporter' = [step |-> "read"]
    BY <1>2 DEF Sync
  <2>2. UNCHANGED <<register, data_plane_values, last_data_plane_value, values, cleared>>
    BY <1>2 DEF Sync, buffers
  <2>3. Long(register - shadow) < WordSize /\ data_plane_values = shadow
    BY <2>1, <1>e DEF Close, At
  <2>4. /\ Long(register' - shadow') < WordSize
        /\ Long(shadow' - data_plane_values') < WordSize
    <3>1. Long(register - register) < WordSize /\ Long(shadow - shadow) < WordSize
      <4>1. register - register = 0 /\ shadow - shadow = 0
        BY <1>t, TotalsAreIntegers DEF TypeOK
      <4> QED BY <4>1, <1>s, Zeros
    <3> QED BY <1>2, <2>2, <2>3, <3>1 DEF Sync
  <2>5. ValueExact' /\ LoadedExact'
    BY <2>1, <2>2, <1>e DEF ValueExact, LoadedExact, Accounted, At
  <2> QED BY <2>1, <2>4, <2>5 DEF Close, At
<1>3. ASSUME NEW ok \in BOOLEAN, Read(ok)
      PROVE  ValueExact' /\ LoadedExact' /\ Close'
  <2>1. exact /\ ok
    BY <1>3, Zenon DEF Read
  <2>2. /\ At("read") /\ exporter' = [step |-> "process"]
        /\ data_plane_values' = shadow /\ last_data_plane_value' = data_plane_values
        /\ UNCHANGED <<register, shadow, values, cleared>>
    BY <1>3, <2>1 DEF Read
  <2>3. Long(register - shadow) < WordSize /\ Long(shadow - data_plane_values) < WordSize
    BY <2>1, <2>2, <1>e DEF Close, At
  <2>4. ValueExact' /\ LoadedExact'
    BY <2>1, <2>2, <1>e DEF ValueExact, LoadedExact, Accounted, At
  <2> QED BY <2>2, <2>3, <2>4 DEF Close, At
<1>4. CASE Load
  <2>1. /\ exact /\ At("process")
        /\ exporter' = [step |-> "store", value |-> values, since |-> cleared]
        /\ UNCHANGED <<register, shadow, data_plane_values, last_data_plane_value, values, cleared>>
    BY <1>4 DEF Load, buffers
  <2>2. values = Long(last_data_plane_value - cleared)
    BY <2>1, <1>e DEF ValueExact, Accounted
  <2>3. Close'
    BY <2>1, <1>e DEF Close, At
  <2> QED BY <2>1, <2>2, <2>3 DEF ValueExact, LoadedExact, Accounted, At
<1>5. CASE Store
  <2>1. /\ exact /\ At("store") /\ exporter' = [step |-> "sync"]
        /\ UNCHANGED <<register, shadow, data_plane_values, last_data_plane_value>>
    BY <1>5 DEF Store, buffers
  <2>2. exporter.value \in Int /\ exporter.since \in Int
    BY <1>5, <1>t, TotalsAreIntegers DEF Store, At, TypeOK
  <2>3. data_plane_values \in Int /\ last_data_plane_value \in Int
    BY <1>t, TotalsAreIntegers DEF TypeOK
  <2>4. /\ exporter.value = Long(last_data_plane_value - exporter.since)
        /\ Long(data_plane_values - last_data_plane_value) < WordSize
    BY <2>1, <1>e DEF LoadedExact, Close
  <2>5. values' = Long(data_plane_values - exporter.since)
    <3>1. values' = Long(exporter.value + Word(Word(data_plane_values) - Word(last_data_plane_value)))
      BY <1>5 DEF Store, Difference
    <3> DEFINE v == exporter.value
               s == exporter.since
    <3>2. v \in Int /\ s \in Int /\ v = Long(last_data_plane_value - s)
      BY <2>2, <2>4
    <3> HIDE DEF v, s
    <3>3. Long(v + Word(Word(data_plane_values) - Word(last_data_plane_value)))
            = Long(data_plane_values - s)
      BY <2>3, <2>4, <3>2, AddDifferenceExactly
    <3> QED BY <3>1, <3>3 DEF v, s
  <2>6. Accounted' = data_plane_values /\ cleared' = exporter.since
    BY <1>5, <2>1 DEF Store, Accounted, At
  <2>7. ValueExact' /\ LoadedExact'
    BY <2>1, <2>5, <2>6 DEF ValueExact, LoadedExact, At
  <2> QED BY <2>1, <2>7, <1>e DEF Close, At
<1>6. CASE Clear
  <2>1. exact /\ UNCHANGED <<register, shadow, data_plane_values, last_data_plane_value, exporter>>
    BY <1>6 DEF Clear, buffers
  <2>2. Accounted' = Accounted /\ cleared' = Accounted /\ values' = 0
    BY <1>6 DEF Clear, buffers, Accounted, At
  <2>3. Accounted \in Int
    BY <1>t, TotalsAreIntegers DEF Accounted, TypeOK
  <2>4. Accounted' - cleared' = 0
    BY <2>2, <2>3
  <2>5. ValueExact'
    BY <2>2, <2>4, Zeros DEF ValueExact
  <2>6. LoadedExact' /\ Close'
    BY <2>1, <1>e DEF LoadedExact, Close, At
  <2> QED BY <2>5, <2>6
<1>7. CASE Prepare
  <2>1. /\ register' = 0 /\ shadow' = 0 /\ data_plane_values' = 0 /\ last_data_plane_value' = 0
        /\ values' = 0 /\ cleared' = 0 /\ exporter' = [step |-> "sync"]
    BY <1>7 DEF Prepare
  <2> QED BY <2>1, <1>s, Zeros DEF ValueExact, LoadedExact, Close, Accounted, At
<1>8. CASE Restart
  <2>1. /\ shadow' = 0 /\ data_plane_values' = 0 /\ last_data_plane_value' = 0
        /\ values' = 0 /\ cleared' = 0 /\ exporter' = [step |-> "prepare"]
    BY <1>8 DEF Restart
  <2> QED BY <2>1, <1>s, Zeros DEF ValueExact, LoadedExact, Close, Accounted, At
<1>9. CASE UNCHANGED vars
  BY <1>9, <1>e DEF vars, buffers, ValueExact, LoadedExact, Close, Accounted, At
<1> QED BY <1>1, <1>2, <1>3, <1>4, <1>5, <1>6, <1>7, <1>8, <1>9 DEF Next

\* For words and values of any size: while no read fails and the register does
\* not run around between two syncs, the 64 bit value is exactly what the switch
\* counted since it was last set to 0.  The argument is that the two buffers are
\* always less than a word apart, so that uint32_t subtraction loses nothing.
THEOREM ValueCorrect == Spec => []ValueExact
PROOF
<1>1. Init => ExactInv
  BY InitExact
<1>2. ExactInv /\ [Next]_vars => ExactInv'
  BY NextExact
<1>3. ExactInv => ValueExact
  BY DEF ExactInv
<1> QED BY <1>1, <1>2, <1>3, PTL DEF Spec
=============================================================================
