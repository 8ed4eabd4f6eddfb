------------------------- MODULE BloomFilter_proofs -------------------------
(***************************************************************************)
(* Theorems about the counting bloom filter, for any number and width of   *)
(* filters, any hashes, ring size and width of the counters.               *)
(***************************************************************************)
EXTENDS BloomFilter, TLAPS

------------------------------------------------------------------------------
(* The inductive invariant *)

AllIndices == [Filters -> Indices]
Commands == [command : {"DP_ADD_BLOOM_FILTER", "DP_REMOVE_BLOOM_FILTER"}, indices : AllIndices]

Settings == [step : {"count", "look", "send"}, tuple : FiveTuples, i : 1 .. NUM_BLOOMFILTERS + 1,
             indices : AllIndices, send : BOOLEAN]
Rests    == [step : {"rest"}, indices : AllIndices]
Rounds   == [step : {"check", "lock", "send", "undo"}, index : Indices, i : Filters,
             indices : AllIndices, send : BOOLEAN]

TypeOK ==
    /\ entries \in [Filters -> [Indices -> 0 .. Modulus - 1]]
    /\ held \subseteq Filters
    /\ flowdb \in {Idle} \cup Settings
    /\ maintenance \in Rests \cup Rounds
    /\ commands \in Seq(Commands)
    /\ refused \in BOOLEAN
    /\ bits \in [Filters -> [Indices -> BOOLEAN]]

\* flowdb_thread is behind the last filter exactly when it sends, and the
\* maintenance takes counts back only after the ring refused its command.
StepsFit ==
    /\ flowdb # Idle => (flowdb.step = "send" <=> flowdb.i = NUM_BLOOMFILTERS + 1)
    /\ maintenance.step = "undo" => refused

\* An addition of the bit is in the ring.
InRing(i, x) ==
    \E n \in 1 .. Len(commands) :
        commands[n].command = "DP_ADD_BLOOM_FILTER" /\ commands[n].indices[i] = x

\* flowdb_thread has come past the filter and will send the bit.  The indices of
\* the filters ahead are 0 and say nothing.
WillSend(i, x) == flowdb # Idle /\ flowdb.send /\ i < flowdb.i /\ flowdb.indices[i] = x

\* flowdb_thread has counted and will read the counter as 1.
WillLook(i, x) ==
    flowdb # Idle /\ flowdb.step = "look" /\ flowdb.i = i /\ hashes[flowdb.tuple][i] = x /\ entries[i][x] = 1

Accounted(i, x) == bits[i][x] \/ InRing(i, x) \/ WillSend(i, x) \/ WillLook(i, x)

BitsAccounted == ~refused => \A i \in Filters, x \in Indices : entries[i][x] # 0 => Accounted(i, x)

BloomInv == TypeOK /\ StepsFit /\ BitsAccounted

------------------------------------------------------------------------------
(* Types *)

LEMMA Constants ==
    /\ NUM_BLOOMFILTERS \in Nat \ {0} /\ BLOOMFILTER_WIDTH \in Nat \ {0} /\ Modulus \in Nat \ {0}
    /\ hashes \in [FiveTuples -> AllIndices]
    /\ NoIndices \in AllIndices
    /\ 1 \in Filters
    /\ 0 \in 0 .. Modulus - 1
PROOF BY FiltersAssumption, HashesAssumption, BoundsAssumption DEF AllIndices, NoIndices, Filters, Indices

\* A counter that goes up wraps around behind the last number of its width.
LEMMA CountedUp ==
    ASSUME NEW n \in 0 .. Modulus - 1
    PROVE  /\ (n + 1) % Modulus \in 0 .. Modulus - 1
           /\ n # Modulus - 1 => (n + 1) % Modulus = n + 1
           /\ n = Modulus - 1 => (n + 1) % Modulus = 0
PROOF BY BoundsAssumption

LEMMA InitTypes == Init => TypeOK /\ StepsFit /\ BitsAccounted
PROOF
<1> SUFFICES ASSUME Init PROVE TypeOK /\ StepsFit /\ BitsAccounted
  OBVIOUS
<1>1. TypeOK
  <2>1. entries \in [Filters -> [Indices -> 0 .. Modulus - 1]]
    BY Constants DEF Init
  <2>2. maintenance \in Rests
    BY Constants DEF Init, Rests, Resting
  <2>3. commands \in Seq(Commands)
    BY DEF Init
  <2>4. bits \in [Filters -> [Indices -> BOOLEAN]]
    BY Zenon DEF Init
  <2> QED BY <2>1, <2>2, <2>3, <2>4, Zenon DEF Init, TypeOK
<1>2. StepsFit
  BY DEF Init, StepsFit, Resting, Idle
<1>3. BitsAccounted
  BY DEF Init, BitsAccounted
<1> QED BY <1>1, <1>2, <1>3

\* A command goes behind the others, or the ring refuses it.
LEMMA PutIs ==
    ASSUME commands \in Seq(Commands), refused \in BOOLEAN, NEW command \in Commands, Put(command)
    PROVE  /\ commands' \in Seq(Commands)
           /\ refused' \in BOOLEAN
           /\ refused => refused'
           /\ Full => refused'
           /\ Len(commands') \in Nat
           /\ ~refused' => /\ Len(commands') = Len(commands) + 1
                           /\ commands'[Len(commands) + 1] = command
           /\ Len(commands) <= Len(commands')
           /\ \A n \in 1 .. Len(commands) : commands'[n] = commands[n]
PROOF
<1>1. CASE Full
  <2>1. commands' = commands
    BY <1>1 DEF Put
  <2>2. refused' = TRUE
    BY <1>1, Zenon DEF Put
  <2> QED BY <2>1, <2>2
<1>2. CASE ~Full
  <2>1. commands' = Append(commands, command) /\ refused' = refused
    BY <1>2 DEF Put
  <2> QED BY <2>1, <1>2
<1> QED BY <1>1, <1>2

LEMMA FlowDBIs ==
    ASSUME TypeOK, StepsFit, flowdb.step # "idle"
    PROVE  /\ flowdb \in Settings
           /\ flowdb.i \in 1 .. NUM_BLOOMFILTERS + 1
           /\ flowdb.tuple \in FiveTuples
           /\ flowdb.indices \in AllIndices
           /\ hashes[flowdb.tuple] \in AllIndices
           /\ flowdb.send \in BOOLEAN
           /\ flowdb # Idle
           /\ flowdb.step # "send" => flowdb.i \in Filters
PROOF
<1>1. flowdb # Idle /\ flowdb \in Settings
  BY DEF TypeOK, Idle
<1>2. flowdb.step # "send" => flowdb.i \in Filters
  BY <1>1, Constants DEF StepsFit, Settings, Filters
<1> QED BY <1>1, <1>2, Constants DEF Settings

LEMMA MaintenanceIs ==
    ASSUME TypeOK, maintenance.step # "rest"
    PROVE  /\ maintenance \in Rounds
           /\ maintenance.i \in Filters
           /\ maintenance.index \in Indices
           /\ maintenance.indices \in AllIndices
PROOF BY DEF TypeOK, Rounds, Rests

LEMMA ProceedIs ==
    ASSUME NEW m \in Rounds
    PROVE  /\ Proceed(m) \in Rests \cup Rounds
           /\ Proceed(m).step \notin {"undo", "lock"}
PROOF
<1>1. CASE m.i < NUM_BLOOMFILTERS
  <2>1. m.i + 1 \in Filters
    BY <1>1, Constants DEF Rounds, Filters
  <2>2. Proceed(m) = [m EXCEPT !.step = "check", !.i = m.i + 1]
    BY <1>1 DEF Proceed
  <2> QED BY <2>1, <2>2 DEF Rounds
<1>2. CASE ~(m.i < NUM_BLOOMFILTERS) /\ m.send
  BY <1>2 DEF Proceed, Rounds, Rests
<1>3. CASE ~(m.i < NUM_BLOOMFILTERS) /\ ~m.send
  BY <1>3 DEF Proceed, Resting, Rounds, Rests
<1> QED BY <1>1, <1>2, <1>3


\* Every step keeps the types and the order of the steps.
LEMMA NextTypes == TypeOK /\ StepsFit /\ [Next]_vars => TypeOK' /\ StepsFit'
PROOF
<1> SUFFICES ASSUME TypeOK, StepsFit, [Next]_vars PROVE TypeOK' /\ StepsFit'
  OBVIOUS
<1> USE Constants
<1>1. ASSUME NEW tuple \in FiveTuples, SetIrrelevant(tuple) PROVE TypeOK' /\ StepsFit'
  <2>1. flowdb' \in Settings
    BY <1>1 DEF SetIrrelevant, Settings
  <2>2. flowdb'.step = "count" /\ flowdb'.i = 1 /\ 1 # NUM_BLOOMFILTERS + 1
    BY <1>1 DEF SetIrrelevant
  <2>3. TypeOK'
    BY <1>1, <2>1, Zenon DEF SetIrrelevant, TypeOK
  <2>4. StepsFit'
    BY <1>1, <2>2 DEF SetIrrelevant, StepsFit
  <2> QED BY <2>3, <2>4
<1>2. ASSUME NEW tuple \in FiveTuples, SetRelevant(tuple) PROVE TypeOK' /\ StepsFit'
  <2> DEFINE zero == {i \in Filters : entries[i][hashes[tuple][i]] = 0}
             chosen == [i \in Filters |-> IF i \in zero THEN hashes[tuple][i] ELSE 0]
  <2>1. chosen \in AllIndices
    BY DEF AllIndices, Indices
  <2>2. [command |-> "DP_REMOVE_BLOOM_FILTER", indices |-> chosen] \in Commands
    BY <2>1 DEF Commands
  <2>3. Put([command |-> "DP_REMOVE_BLOOM_FILTER", indices |-> chosen])
    BY <1>2 DEF SetRelevant
  <2>4. commands' \in Seq(Commands) /\ refused' \in BOOLEAN /\ (refused => refused')
    BY <2>2, <2>3, PutIs DEF TypeOK
  <2>5. TypeOK'
    BY <1>2, <2>4, Zenon DEF SetRelevant, TypeOK
  <2>6. StepsFit'
    BY <1>2, <2>4 DEF SetRelevant, StepsFit
  <2> QED BY <2>5, <2>6
<1>3. CASE Count
  <2>1. flowdb \in Settings /\ flowdb.i \in Filters /\ flowdb # Idle /\ hashes[flowdb.tuple] \in AllIndices
    BY <1>3, FlowDBIs DEF Count
  <2> DEFINE i == flowdb.i
             x == hashes[flowdb.tuple][flowdb.i]
  <2>2. x \in Indices
    BY <2>1 DEF AllIndices
  <2>3. entries' \in [Filters -> [Indices -> 0 .. Modulus - 1]]
    <3>1. (entries[i][x] + 1) % Modulus \in 0 .. Modulus - 1
      BY <2>1, <2>2, CountedUp DEF TypeOK
    <3>2. entries' = [entries EXCEPT ![i][x] = (entries[i][x] + 1) % Modulus]
      BY <1>3, <2>1, <2>2 DEF Count, Increment, TypeOK
    <3> HIDE DEF i, x
    <3> QED BY <3>1, <3>2 DEF TypeOK
  <2>4. flowdb' = [flowdb EXCEPT !.step = "look"] /\ flowdb.step = "count"
    BY <1>3 DEF Count
  <2>5. flowdb' \in Settings
    BY <2>1, <2>4 DEF Settings
  <2>6. TypeOK'
    BY <1>3, <2>3, <2>5, Zenon DEF Count, TypeOK
  <2>7. StepsFit'
    <3>1. flowdb'.step = "look" /\ flowdb'.i = flowdb.i /\ flowdb.i # NUM_BLOOMFILTERS + 1
      BY <2>1, <2>4 DEF Settings, Filters
    <3> QED BY <1>3, <3>1 DEF Count, StepsFit
  <2> QED BY <2>6, <2>7
<1>4. CASE Look
  <2> DEFINE i == flowdb.i
             x == hashes[flowdb.tuple][i]
             new == entries[i][x] = 1
             s == NextFilter("count", i)
             indices == [flowdb.indices EXCEPT ![i] = IF new THEN x ELSE @]
             send == flowdb.send \/ new
  <2>1. flowdb \in Settings /\ i \in Filters /\ flowdb # Idle /\ hashes[flowdb.tuple] \in AllIndices
    BY <1>4, FlowDBIs DEF Look
  <2>2. x \in Indices
    BY <2>1 DEF AllIndices
  <2>3. indices \in AllIndices
    BY <2>1, <2>2 DEF AllIndices, Settings
  <2>4. send \in BOOLEAN
    BY <2>1, Zenon DEF Settings
  <2>5. s \in {"count", "send"} /\ i + 1 \in 1 .. NUM_BLOOMFILTERS + 1 /\ (s = "send" <=> i + 1 = NUM_BLOOMFILTERS + 1)
    BY <2>1 DEF NextFilter, Filters
  <2>6. flowdb' = [flowdb EXCEPT !.step = s, !.i = i + 1, !.indices = indices, !.send = send]
    BY <1>4, <2>1 DEF Look, Settings
  <2> HIDE DEF i, x, new, s, indices, send
  <2>7. flowdb' \in Settings /\ flowdb'.step = s /\ flowdb'.i = i + 1
    BY <2>1, <2>3, <2>4, <2>5, <2>6 DEF Settings
  <2>8. TypeOK'
    BY <1>4, <2>7, Zenon DEF Look, TypeOK
  <2>9. StepsFit'
    BY <1>4, <2>5, <2>7 DEF Look, StepsFit
  <2> QED BY <2>8, <2>9
<1>5. CASE SendAdd
  <2>1. flowdb \in Settings
    BY <1>5, FlowDBIs DEF SendAdd
  <2>2. commands' \in Seq(Commands) /\ refused' \in BOOLEAN /\ (refused => refused')
    <3>1. CASE flowdb.send
      <4>1. [command |-> "DP_ADD_BLOOM_FILTER", indices |-> flowdb.indices] \in Commands
        BY <2>1 DEF Commands, Settings
      <4> QED BY <1>5, <3>1, <4>1, PutIs DEF SendAdd, TypeOK
    <3>2. CASE ~flowdb.send
      BY <1>5, <3>2 DEF SendAdd, TypeOK
    <3> QED BY <3>1, <3>2
  <2>3. TypeOK'
    BY <1>5, <2>2, Zenon DEF SendAdd, TypeOK
  <2>4. StepsFit'
    BY <1>5, <2>2 DEF SendAdd, StepsFit
  <2> QED BY <2>3, <2>4
<1>6. ASSUME NEW x \in Indices, StartRound(x) PROVE TypeOK' /\ StepsFit'
  <2>1. maintenance \in Rests
    BY <1>6 DEF StartRound, TypeOK, Rounds
  <2>2. maintenance' \in Rounds
    BY <1>6, <2>1 DEF StartRound, Rests, Rounds
  <2>3. TypeOK'
    BY <1>6, <2>2, Zenon DEF StartRound, TypeOK
  <2>4. StepsFit'
    BY <1>6 DEF StartRound, StepsFit
  <2> QED BY <2>3, <2>4
<1>7. CASE PassOver
  <2>1. maintenance \in Rounds
    BY <1>7, MaintenanceIs DEF PassOver
  <2>2. maintenance' \in Rests \cup Rounds /\ maintenance'.step # "undo"
    BY <1>7, <2>1, ProceedIs DEF PassOver
  <2>3. TypeOK'
    BY <1>7, <2>2, Zenon DEF PassOver, TypeOK
  <2>4. StepsFit'
    BY <1>7, <2>2 DEF PassOver, StepsFit
  <2> QED BY <2>3, <2>4
<1>8. CASE Pick
  <2>1. maintenance \in Rounds
    BY <1>8, MaintenanceIs DEF Pick
  <2>2. maintenance' \in Rounds /\ maintenance'.step # "undo"
    BY <1>8, <2>1 DEF Pick, Rounds
  <2>3. TypeOK'
    BY <1>8, <2>2, Zenon DEF Pick, TypeOK
  <2>4. StepsFit'
    BY <1>8, <2>2 DEF Pick, StepsFit
  <2> QED BY <2>3, <2>4
<1>9. CASE CountDown
  <2> DEFINE i == maintenance.i
             x == maintenance.index
             last == [maintenance EXCEPT !.indices[i] = x, !.send = TRUE]
  <2>1. maintenance \in Rounds /\ i \in Filters /\ x \in Indices
    BY <1>9, MaintenanceIs DEF CountDown
  <2>2. last \in Rounds
    BY <2>1 DEF Rounds, AllIndices
  <2>3. maintenance' \in {Proceed(maintenance), Proceed(last)}
    BY <1>9 DEF CountDown
  <2>4. maintenance' \in Rests \cup Rounds /\ maintenance'.step # "undo"
    <3> HIDE DEF last
    <3> QED BY <2>1, <2>2, <2>3, ProceedIs
  <2>5. entries' \in [Filters -> [Indices -> 0 .. Modulus - 1]]
    <3>1. CASE entries[i][x] = 0
      BY <1>9, <3>1 DEF CountDown, TypeOK
    <3>2. CASE entries[i][x] # 0
      <4>1. entries[i][x] - 1 \in 0 .. Modulus - 1
        BY <2>1, <3>2 DEF TypeOK
      <4>2. entries' = [entries EXCEPT ![i][x] = entries[i][x] - 1]
        BY <1>9, <2>1, <3>2 DEF CountDown, Decrement, TypeOK
      <4> HIDE DEF i, x
      <4> QED BY <2>1, <4>1, <4>2 DEF TypeOK
    <3> QED BY <3>1, <3>2
  <2>6. held' \subseteq Filters
    BY <1>9, <2>1 DEF CountDown, TypeOK
  <2>7. TypeOK'
    BY <1>9, <2>4, <2>5, <2>6, Zenon DEF CountDown, TypeOK
  <2>8. StepsFit'
    BY <1>9, <2>4 DEF CountDown, StepsFit
  <2> QED BY <2>7, <2>8
<1>10. CASE SendRemove
  <2>1. maintenance \in Rounds /\ maintenance.indices \in AllIndices
    BY <1>10, MaintenanceIs DEF SendRemove
  <2>2. [command |-> "DP_REMOVE_BLOOM_FILTER", indices |-> maintenance.indices] \in Commands
    BY <2>1 DEF Commands
  <2>3. /\ commands' \in Seq(Commands) /\ refused' \in BOOLEAN
        /\ refused => refused'
        /\ Full => refused'
    BY <1>10, <2>2, PutIs DEF SendRemove, TypeOK
  <2>4. maintenance' \in Rests \cup Rounds /\ (maintenance'.step = "undo" => refused')
    <3>1. CASE Full
      BY <1>10, <2>1, <2>3, <3>1 DEF SendRemove, Rounds
    <3>2. CASE ~Full
      BY <1>10, <2>1, <3>2 DEF SendRemove, Resting, Rests
    <3> QED BY <3>1, <3>2
  <2>5. TypeOK'
    BY <1>10, <2>3, <2>4, Zenon DEF SendRemove, TypeOK
  <2>6. StepsFit'
    BY <1>10, <2>4 DEF SendRemove, StepsFit
  <2> QED BY <2>5, <2>6
<1>11. CASE Undo
  <2> DEFINE i == maintenance.i
             x == maintenance.indices[i]
  <2>1. maintenance \in Rounds /\ i \in Filters /\ maintenance.indices \in AllIndices
    BY <1>11, MaintenanceIs DEF Undo
  <2>2. x \in Indices
    BY <2>1 DEF AllIndices
  <2>3. entries' \in [Filters -> [Indices -> 0 .. Modulus - 1]]
    <3>1. (entries[i][x] + 1) % Modulus \in 0 .. Modulus - 1
      BY <2>1, <2>2, CountedUp DEF TypeOK
    <3>2. entries' = [entries EXCEPT ![i][x] = (entries[i][x] + 1) % Modulus]
      BY <1>11, <2>1, <2>2 DEF Undo, Increment, TypeOK
    <3> HIDE DEF i, x
    <3> QED BY <3>1, <3>2 DEF TypeOK
  <2>4. maintenance' \in Rests \cup Rounds
    <3>1. CASE i < NUM_BLOOMFILTERS
      <4>1. i + 1 \in Filters
        BY <2>1, <3>1 DEF Filters
      <4>2. maintenance' = [maintenance EXCEPT !.i = i + 1]
        BY <1>11, <3>1 DEF Undo
      <4> QED BY <2>1, <4>1, <4>2 DEF Rounds
    <3>2. CASE ~(i < NUM_BLOOMFILTERS)
      BY <1>11, <2>1, <3>2 DEF Undo, Resting, Rests
    <3> QED BY <3>1, <3>2
  <2>5. TypeOK'
    BY <1>11, <2>3, <2>4, Zenon DEF Undo, TypeOK
  <2>6. StepsFit'
    BY <1>11 DEF Undo, StepsFit
  <2> QED BY <2>5, <2>6
<1>12. CASE WriteBits
  <2>1. commands' \in Seq(Commands) /\ Head(commands) \in Commands
    BY <1>12 DEF WriteBits, TypeOK
  <2>2. bits' \in [Filters -> [Indices -> BOOLEAN]]
    <3>1. \A j \in Filters : [bits[j] EXCEPT ![Head(commands).indices[j]] = TRUE] \in [Indices -> BOOLEAN]
      BY DEF TypeOK
    <3> QED BY <1>12, <3>1, Zenon DEF WriteBits, TypeOK
  <2>3. TypeOK'
    BY <1>12, <2>1, <2>2, Zenon DEF WriteBits, TypeOK
  <2>4. StepsFit'
    BY <1>12 DEF WriteBits, StepsFit
  <2> QED BY <2>3, <2>4
<1>13. CASE UNCHANGED vars
  <2>1. TypeOK'
    BY <1>13, Zenon DEF vars, TypeOK
  <2>2. StepsFit'
    BY <1>13 DEF vars, StepsFit
  <2> QED BY <2>1, <2>2
<1> QED BY <1>1, <1>2, <1>3, <1>4, <1>5, <1>6, <1>7, <1>8, <1>9, <1>10, <1>11, <1>12, <1>13, Zenon
          DEF Next, FlowDBContinues, MaintenanceContinues

------------------------------------------------------------------------------
(* No bit is lost *)

\* A command in the ring stays there when another one is put behind it.
LEMMA RingKeeps ==
    ASSUME TypeOK, NEW command \in Commands, Put(command), NEW i, NEW x, InRing(i, x)
    PROVE  InRing(i, x)'
PROOF
<1>1. PICK n \in 1 .. Len(commands) : commands[n].command = "DP_ADD_BLOOM_FILTER" /\ commands[n].indices[i] = x
  BY DEF InRing
<1>2. Len(commands) \in Nat /\ Len(commands') \in Nat /\ Len(commands) <= Len(commands') /\ commands'[n] = commands[n]
  BY PutIs DEF TypeOK
<1>3. n \in 1 .. Len(commands')
  BY <1>2
<1> QED BY <1>1, <1>2, <1>3 DEF InRing

\* Between the decrement of a counter by the maintenance and the second look of
\* bloom_filter_set_irrelevant no bit is lost.
LEMMA NextAccounts == BloomInv /\ [Next]_vars => BitsAccounted'
PROOF
<1> SUFFICES ASSUME BloomInv, [Next]_vars, ~refused',
                    NEW j \in Filters, NEW y \in Indices, entries'[j][y] # 0
             PROVE  Accounted(j, y)'
  BY DEF BitsAccounted
<1>0. TypeOK /\ StepsFit /\ BitsAccounted /\ TypeOK'
  BY NextTypes DEF BloomInv
<1>a. ~refused
  <2>1. ASSUME NEW command, Put(command) PROVE refused => refused'
    BY <2>1 DEF Put
  <2> QED BY <2>1 DEF Next, vars, SetIrrelevant, SetRelevant, FlowDBContinues, MaintenanceContinues, Count, Look,
             SendAdd, StartRound, PassOver, Pick, CountDown, SendRemove, Undo, WriteBits
<1>b. entries[j][y] # 0 => Accounted(j, y)
  BY <1>0, <1>a DEF BitsAccounted
\* What concerns neither the bits nor the ring nor flowdb_thread.
<1>c. ASSUME UNCHANGED <<bits, commands, flowdb>>, entries[j][y] # 0, WillLook(j, y) => entries'[j][y] = 1
      PROVE  Accounted(j, y)'
  BY <1>b, <1>c DEF Accounted, InRing, WillSend, WillLook
<1>1. ASSUME NEW tuple \in FiveTuples, SetIrrelevant(tuple) PROVE Accounted(j, y)'
  BY <1>1, <1>b DEF SetIrrelevant, Accounted, InRing, WillSend, WillLook
<1>2. ASSUME NEW tuple \in FiveTuples, SetRelevant(tuple) PROVE Accounted(j, y)'
  <2> DEFINE zero == {i \in Filters : entries[i][hashes[tuple][i]] = 0}
             chosen == [i \in Filters |-> IF i \in zero THEN hashes[tuple][i] ELSE 0]
  <2>1. chosen \in AllIndices
    BY Constants DEF AllIndices, Indices
  <2>2. [command |-> "DP_REMOVE_BLOOM_FILTER", indices |-> chosen] \in Commands
    BY <2>1 DEF Commands
  <2>3. Put([command |-> "DP_REMOVE_BLOOM_FILTER", indices |-> chosen])
    BY <1>2 DEF SetRelevant
  <2>4. InRing(j, y) => InRing(j, y)'
    BY <1>0, <2>2, <2>3, RingKeeps
  <2> QED BY <1>2, <1>b, <2>4 DEF SetRelevant, Accounted, WillSend, WillLook
<1>3. CASE Count
  <2> DEFINE i == flowdb.i
             x == hashes[flowdb.tuple][flowdb.i]
  <2>1. flowdb \in Settings /\ i \in Filters /\ flowdb # Idle /\ hashes[flowdb.tuple] \in AllIndices
    BY <1>0, <1>3, FlowDBIs DEF Count
  <2>2. x \in Indices
    BY <2>1 DEF AllIndices
  <2>3. entries' = [entries EXCEPT ![i][x] = (entries[i][x] + 1) % Modulus]
    BY <1>0, <1>3, <2>1, <2>2 DEF Count, Increment, TypeOK
  <2>4. /\ flowdb' # Idle /\ flowdb'.step = "look"
        /\ flowdb'.i = i /\ flowdb'.tuple = flowdb.tuple
        /\ flowdb'.send = flowdb.send /\ flowdb'.indices = flowdb.indices
    BY <1>3, <2>1 DEF Count, Settings, Idle
  <2>5. CASE entries[j][y] # 0
    <3>1. ~WillLook(j, y)
      BY <1>3 DEF Count, WillLook
    <3> QED BY <1>3, <1>b, <2>4, <2>5, <3>1 DEF Count, Accounted, InRing, WillSend
  <2>6. CASE entries[j][y] = 0
    <3>1. i = j /\ x = y
      BY <1>0, <2>1, <2>2, <2>3, <2>6 DEF TypeOK
    <3>2. entries'[j][y] = (0 + 1) % Modulus
      BY <1>0, <2>1, <2>2, <2>3, <2>6, <3>1 DEF TypeOK
    <3>3. entries'[j][y] = 1
      <4>1. 0 \in 0 .. Modulus - 1 /\ Modulus \in Nat
        BY Constants
      <4> QED BY <3>2, <4>1, CountedUp
    <3> QED BY <2>4, <3>1, <3>3 DEF Accounted, WillLook
  <2> QED BY <2>5, <2>6
<1>4. CASE Look
  <2> DEFINE i == flowdb.i
             x == hashes[flowdb.tuple][i]
             new == entries[i][x] = 1
             indices == [flowdb.indices EXCEPT ![i] = IF new THEN x ELSE @]
             send == flowdb.send \/ new
  <2>1. flowdb \in Settings /\ i \in Filters /\ flowdb # Idle /\ flowdb.indices \in AllIndices
    BY <1>0, <1>4, FlowDBIs DEF Look
  <2>2. /\ flowdb'.i = i + 1
        /\ flowdb'.indices = indices
        /\ flowdb'.send = send
    BY <1>4, <2>1 DEF Look, Settings
  <2>3. flowdb' # Idle
    <3>1. flowdb'.step \in {"count", "send"}
      BY <1>4, <2>1 DEF Look, NextFilter, Settings
    <3> QED BY <3>1 DEF Idle
  <2>4. entries'[j][y] = entries[j][y]
    BY <1>4 DEF Look
  <2>5. CASE bits[j][y] \/ InRing(j, y)
    BY <1>4, <2>5 DEF Look, Accounted, InRing
  <2>6. CASE WillSend(j, y)
    <3>1. j < i /\ flowdb.send /\ flowdb.indices[j] = y
      BY <2>6 DEF WillSend
    <3>2. j < i + 1 /\ j # i
      BY <2>1, <3>1 DEF Filters
    <3>3. indices[j] = y
      BY <2>1, <3>1, <3>2, Zenon DEF AllIndices
    <3>4. flowdb'.send
      BY <2>2, <3>1
    <3> QED BY <2>2, <2>3, <3>2, <3>3, <3>4 DEF Accounted, WillSend
  <2>7. CASE WillLook(j, y)
    <3>1. j = i /\ x = y /\ new
      BY <2>7 DEF WillLook
    <3>2. j < i + 1
      BY <2>1, <3>1 DEF Filters
    <3>3. indices[j] = y
      BY <2>1, <3>1, Zenon DEF AllIndices
    <3>4. flowdb'.send
      BY <2>2, <3>1
    <3> QED BY <2>2, <2>3, <3>2, <3>3, <3>4 DEF Accounted, WillSend
  <2> QED BY <1>b, <2>4, <2>5, <2>6, <2>7 DEF Accounted
<1>5. CASE SendAdd
  <2>1. flowdb \in Settings /\ flowdb.indices \in AllIndices /\ flowdb # Idle /\ flowdb.step = "send"
    BY <1>0, <1>5, FlowDBIs DEF SendAdd
  <2>2. entries[j][y] # 0 /\ ~WillLook(j, y)
    BY <1>5 DEF SendAdd, WillLook
  <2>3. CASE flowdb.send
    <3> DEFINE command == [command |-> "DP_ADD_BLOOM_FILTER", indices |-> flowdb.indices]
    <3>1. command \in Commands
      BY <2>1 DEF Commands
    <3>2. Put(command)
      BY <1>5, <2>3 DEF SendAdd
    <3>3. /\ Len(commands) \in Nat /\ Len(commands') = Len(commands) + 1
          /\ commands'[Len(commands) + 1] = command
      BY <1>0, <3>1, <3>2, PutIs DEF TypeOK
    <3>4. WillSend(j, y) => InRing(j, y)'
      <4>1. Len(commands) + 1 \in 1 .. Len(commands')
        BY <3>3
      <4> QED BY <3>3, <4>1 DEF WillSend, InRing
    <3>5. InRing(j, y) => InRing(j, y)'
      BY <1>0, <3>1, <3>2, RingKeeps
    <3> QED BY <1>5, <1>b, <2>2, <3>4, <3>5 DEF SendAdd, Accounted
  <2>4. CASE ~flowdb.send
    BY <1>5, <1>b, <2>2, <2>4 DEF SendAdd, Accounted, WillSend, InRing
  <2> QED BY <2>3, <2>4
<1>6. ASSUME NEW x \in Indices, StartRound(x) PROVE Accounted(j, y)'
  BY <1>6, <1>c DEF StartRound, WillLook
<1>7. CASE PassOver
  BY <1>7, <1>c DEF PassOver, WillLook
<1>8. CASE Pick
  BY <1>8, <1>c DEF Pick, WillLook
<1>9. CASE CountDown
  <2> DEFINE i == maintenance.i
             x == maintenance.index
  <2>1. i \in Filters /\ x \in Indices
    BY <1>0, <1>9, MaintenanceIs DEF CountDown
  <2>2. entries' \in {entries, [entries EXCEPT ![i][x] = entries[i][x] - 1]}
    BY <1>0, <1>9, <2>1 DEF CountDown, Decrement, TypeOK
  <2>3. entries'[j][y] = entries[j][y] \/ (entries'[j][y] = entries[j][y] - 1 /\ entries[j][y] # 1)
    <3>1. CASE entries' = entries
      BY <3>1
    <3>2. CASE entries' = [entries EXCEPT ![i][x] = entries[i][x] - 1]
      <4> HIDE DEF i, x
      <4>1. CASE i = j /\ x = y
        <5>1. entries'[j][y] = entries[j][y] - 1
          BY <1>0, <2>1, <3>2, <4>1 DEF TypeOK
        <5> QED BY <5>1
      <4>2. CASE ~(i = j /\ x = y)
        <5>1. entries'[j][y] = entries[j][y]
          BY <1>0, <2>1, <3>2, <4>2 DEF TypeOK
        <5> QED BY <5>1
      <4> QED BY <4>1, <4>2
    <3> QED BY <2>2, <3>1, <3>2
  <2>4. entries[j][y] # 0
    BY <1>0, <1>9, <2>1, <2>3 DEF CountDown, Decrement, TypeOK
  <2>5. WillLook(j, y) => entries'[j][y] = 1
    BY <2>3 DEF WillLook
  <2> QED BY <1>9, <1>c, <2>4, <2>5 DEF CountDown
<1>10. CASE SendRemove
  <2>1. [command |-> "DP_REMOVE_BLOOM_FILTER", indices |-> maintenance.indices] \in Commands
    BY <1>0, <1>10, MaintenanceIs DEF SendRemove, Commands
  <2>2. InRing(j, y) => InRing(j, y)'
    BY <1>0, <1>10, <2>1, RingKeeps DEF SendRemove
  <2> QED BY <1>10, <1>b, <2>2 DEF SendRemove, Accounted, WillSend, WillLook
<1>11. CASE Undo
  BY <1>0, <1>11, <1>a DEF Undo, StepsFit
<1>12. CASE WriteBits
  <2>1. entries[j][y] # 0
    BY <1>12 DEF WriteBits
  <2>2. commands \in Seq(Commands) /\ commands # << >> /\ commands' = Tail(commands)
    BY <1>0, <1>12 DEF WriteBits, TypeOK
  <2>3. bits[j][y] => bits'[j][y]
    BY <1>0, <1>12 DEF WriteBits, TypeOK
  <2>4. InRing(j, y) => bits'[j][y] \/ InRing(j, y)'
    <3> SUFFICES ASSUME InRing(j, y) PROVE bits'[j][y] \/ InRing(j, y)'
      OBVIOUS
    <3>1. PICK n \in 1 .. Len(commands) : commands[n].command = "DP_ADD_BLOOM_FILTER" /\ commands[n].indices[j] = y
      BY DEF InRing
    <3>2. CASE n = 1
      <4>1. Head(commands).command = "DP_ADD_BLOOM_FILTER" /\ Head(commands).indices[j] = y
        BY <2>2, <3>1, <3>2
      <4> QED BY <1>0, <1>12, <4>1 DEF WriteBits, TypeOK
    <3>3. CASE n # 1
      <4>1. n - 1 \in 1 .. Len(commands') /\ commands'[n - 1] = commands[n]
        BY <2>2, <3>3
      <4> QED BY <3>1, <4>1 DEF InRing
    <3> QED BY <3>2, <3>3
  <2> QED BY <1>12, <1>b, <2>1, <2>3, <2>4 DEF WriteBits, Accounted, WillSend, WillLook
<1>13. CASE UNCHANGED vars
  BY <1>13, <1>c DEF vars, WillLook
<1> QED BY <1>1, <1>2, <1>3, <1>4, <1>5, <1>6, <1>7, <1>8, <1>9, <1>10, <1>11, <1>12, <1>13, Zenon
          DEF Next, FlowDBContinues, MaintenanceContinues

LEMMA BloomInvariant == Spec => []BloomInv
PROOF
<1>1. Init => BloomInv
  BY InitTypes DEF BloomInv
<1>2. BloomInv /\ [Next]_vars => BloomInv'
  BY NextTypes, NextAccounts DEF BloomInv
<1> QED BY <1>1, <1>2, PTL DEF Spec

\* The counters stay within their 16 bits, the threads' commands name an index of
\* every filter, and all else keeps its type.
THEOREM BloomFilterTypeCorrect == Spec => []TypeOK
PROOF
<1>1. BloomInv => TypeOK
  BY DEF BloomInv
<1> QED BY <1>1, BloomInvariant, PTL

\* As long as the ring refused no command, the bit of every counter that is not 0
\* is in the switch or on its way: the counter that bloom_filter_set_irrelevant
\* reads again after it released the lock may have been decremented meanwhile by
\* bloom_filter_maintenance, and still no bit is lost, for any number of filters.
THEOREM CountedBitsAreWritten == Spec => []CountedIsWritten
PROOF
<1>1. BloomInv => CountedIsWritten
  BY DEF BloomInv, BitsAccounted, CountedIsWritten, Accounted, InRing, WillSend, WillLook, OnItsWay
<1> QED BY <1>1, BloomInvariant, PTL

------------------------------------------------------------------------------
(* No lock is lost *)

\* No counter comes to the largest number of its width, from which it would wrap
\* around to 0.
BelowLimit == \A i \in Filters, x \in Indices : entries[i][x] < Modulus - 1

\* The maintenance chooses a counter without the lock.  Nobody else counts down,
\* so it is still not 0 when the maintenance has the lock.
PickedIsCounted ==
    maintenance.step = "lock" => entries[maintenance.i][maintenance.index] # 0

LockInv == held = {} /\ PickedIsCounted

LEMMA NextReleases == BloomInv /\ BelowLimit /\ LockInv /\ [Next]_vars => LockInv'
PROOF
<1> SUFFICES ASSUME BloomInv, BelowLimit, LockInv, [Next]_vars PROVE LockInv'
  OBVIOUS
<1>0. TypeOK /\ StepsFit
  BY DEF BloomInv
<1>a. ASSUME UNCHANGED <<entries, held, maintenance>> PROVE LockInv'
  BY <1>a DEF LockInv, PickedIsCounted
<1>1. ASSUME NEW tuple \in FiveTuples, SetIrrelevant(tuple) \/ SetRelevant(tuple) PROVE LockInv'
  BY <1>1, <1>a DEF SetIrrelevant, SetRelevant
<1>2. CASE Count
  <2> DEFINE i == flowdb.i
             x == hashes[flowdb.tuple][flowdb.i]
  <2>1. i \in Filters /\ hashes[flowdb.tuple] \in AllIndices
    BY <1>0, <1>2, FlowDBIs DEF Count
  <2>2. x \in Indices
    BY <2>1 DEF AllIndices
  <2>3. entries' = [entries EXCEPT ![i][x] = (entries[i][x] + 1) % Modulus]
    BY <1>0, <1>2, <2>1, <2>2 DEF Count, Increment, TypeOK
  <2>4. entries[i][x] \in 0 .. Modulus - 1 /\ entries[i][x] # Modulus - 1
    BY <1>0, <2>1, <2>2, Constants DEF BelowLimit, TypeOK
  <2>5. (entries[i][x] + 1) % Modulus # 0
    BY <2>4, CountedUp, Constants
  <2>6. ASSUME maintenance.step = "lock" PROVE entries'[maintenance.i][maintenance.index] # 0
    <3>1. maintenance.i \in Filters /\ maintenance.index \in Indices
      BY <1>0, <2>6, MaintenanceIs
    <3>2. entries[maintenance.i][maintenance.index] # 0
      BY <2>6 DEF LockInv, PickedIsCounted
    <3> HIDE DEF i, x
    <3> QED BY <1>0, <2>1, <2>2, <2>3, <2>5, <3>1, <3>2 DEF TypeOK
  <2> QED BY <1>2, <2>6 DEF Count, LockInv, PickedIsCounted
<1>3. CASE Look \/ SendAdd \/ WriteBits
  BY <1>3, <1>a DEF Look, SendAdd, WriteBits
<1>4. ASSUME NEW x \in Indices, StartRound(x) PROVE LockInv'
  BY <1>4 DEF StartRound, LockInv, PickedIsCounted
<1>5. CASE PassOver
  <2>1. maintenance \in Rounds
    BY <1>0, <1>5, MaintenanceIs DEF PassOver
  <2> QED BY <1>5, <2>1, ProceedIs DEF PassOver, LockInv, PickedIsCounted
<1>6. CASE Pick
  <2>1. maintenance \in Rounds
    BY <1>0, <1>6, MaintenanceIs DEF Pick
  <2> QED BY <1>6, <2>1 DEF Pick, Rounds, LockInv, PickedIsCounted
<1>7. CASE CountDown
  <2> DEFINE i == maintenance.i
             x == maintenance.index
             last == [maintenance EXCEPT !.indices[i] = x, !.send = TRUE]
  <2>1. maintenance \in Rounds /\ i \in Filters /\ x \in Indices
    BY <1>0, <1>7, MaintenanceIs DEF CountDown
  <2>2. last \in Rounds
    BY <2>1 DEF Rounds, AllIndices
  <2>3. maintenance' \in {Proceed(maintenance), Proceed(last)}
    BY <1>7 DEF CountDown
  <2>4. maintenance'.step # "lock"
    <3> HIDE DEF last
    <3> QED BY <2>1, <2>2, <2>3, ProceedIs
  <2>5. held' = held
    BY <1>7 DEF CountDown, LockInv, PickedIsCounted
  <2> QED BY <2>4, <2>5 DEF LockInv, PickedIsCounted
<1>8. CASE SendRemove
  <2>1. maintenance \in Rounds
    BY <1>0, <1>8, MaintenanceIs DEF SendRemove
  <2>2. maintenance'.step # "lock"
    BY <1>8, <2>1 DEF SendRemove, Rounds, Resting
  <2> QED BY <1>8, <2>2 DEF SendRemove, LockInv, PickedIsCounted
<1>9. CASE Undo
  <2>1. maintenance \in Rounds
    BY <1>0, <1>9, MaintenanceIs DEF Undo
  <2>2. maintenance'.step # "lock"
    BY <1>9, <2>1 DEF Undo, Rounds, Resting
  <2> QED BY <1>9, <2>2 DEF Undo, LockInv, PickedIsCounted
<1>10. CASE UNCHANGED vars
  BY <1>10, <1>a DEF vars
<1> QED BY <1>1, <1>2, <1>3, <1>4, <1>5, <1>6, <1>7, <1>8, <1>9, <1>10, Zenon
          DEF Next, FlowDBContinues, MaintenanceContinues

\* The branch of bloom_filter_maintenance that finds a counter at 0 under the lock
\* and keeps the lock for ever is never taken as long as no counter comes to the
\* largest number of its width.
THEOREM LocksAreNotLost == Spec /\ []BelowLimit => [](held = {})
PROOF
<1>1. Init => LockInv
  BY DEF Init, LockInv, PickedIsCounted, Resting
<1>2. BloomInv /\ BelowLimit /\ LockInv /\ [Next]_vars => LockInv'
  BY NextReleases
<1>3. LockInv => held = {}
  BY DEF LockInv
<1> QED BY <1>1, <1>2, <1>3, BloomInvariant, PTL DEF Spec

=============================================================================
