----------------------------- MODULE ProbeTable -----------------------------
(***************************************************************************)
(* The writer's side of the flow table (datastructures/flow_hashtable.c)   *)
(* and the session table (session_hashtable.c), which is a copy of it:     *)
(* open addressing with linear probing and backward shift deletion,        *)
(* written by flowdb_thread and read by other threads without a lock.      *)
(* Modules FlowTable and SessionTable add the readers.                     *)
(*                                                                         *)
(* Only the writer changes the table, so what it reads needs no steps of   *)
(* its own; a store to a field that a reader can see is one step.  The     *)
(* memory barriers order the stores to occupied against the others, which  *)
(* the compiler may permute among themselves: they happen in any order.    *)
(*                                                                         *)
(* The key is a struct and its copy (flow_hashtable.c:71, 150) is several  *)
(* stores, which are one step here: a key that a reader sees half written  *)
(* is outside the model.                                                   *)
(***************************************************************************)
EXTENDS Integers, FiniteSets

CONSTANTS Keys,         \* five tuples, or clients
          Values,       \* flow ids, or session ids
          Size,         \* FLOW_HASHTABLE_SIZE, SESSION_HASHTABLE_SIZE
          MurmurHash3,  \* the hash functions to consider: the keys are unknown
          NoKey,        \* the key of an entry that was never used
          StoreGroups   \* the stores to an entry and to the map, of which the
                        \* table's readers tell only the groups apart

ASSUME SizeAssumption == Size \in Nat \ {0}
ASSUME HashAssumption == MurmurHash3 \subseteq [Keys -> Nat]
ASSUME ValuesAssumption == 0 \notin Values
ASSUME KeysAssumption == NoKey \notin Keys
ASSUME StoreGroupsAssumption == UNION StoreGroups = {"key", "value", "hash", "map"}

VARIABLES entries,                      \* the array of entries
          feature_index_to_entry_map,   \* the slot of every value, or -1
          num_entries,
          murmur,                       \* the hash of every key, never changed
          writer                        \* what flowdb_thread is doing

table  == <<entries, feature_index_to_entry_map, num_entries>>
tableVars == <<table, murmur, writer>>

Slots == 0 .. Size - 1

Unused == [occupied |-> FALSE, hash |-> 0, key |-> NoKey, value |-> 0]
WriterIdle == [step |-> "idle"]

HASH2INDEX(hash) == hash % Size
Occupied(i) == entries[i].occupied
Distance(i, home) == (i - home) % Size

------------------------------------------------------------------------------
(* Probing, as the writer does it *)

\* The slot at a distance from the home of a key.
SlotOf(key, d) == HASH2INDEX(murmur[key] + d)

Holds(i, key) == Occupied(i) /\ entries[i].hash = murmur[key] /\ entries[i].key = key

\* Whether the search for a key ends at a distance from its home: it finds the
\* key or a free slot.
ProbeStops(key, d) == ~Occupied(SlotOf(key, d)) \/ Holds(SlotOf(key, d), key)

\* Where the search for a key ends.
ProbeEnd(key) ==
    SlotOf(key, CHOOSE d \in Slots : ProbeStops(key, d) /\ \A e \in 0 .. d - 1 : ~ProbeStops(key, e))

\* The search for an absent key in a full table does not end.
Found(key) == (\E d \in Slots : ProbeStops(key, d)) /\ Occupied(ProbeEnd(key))

\* The comparison of slot numbers without the modulus.
CanMoveUnwrapped(i, empty) ==
    LET home == HASH2INDEX(entries[i].hash)
    IN  i # home /\ i - home > empty - home

\* Every entry that is not at home is moved.
CanMoveAlways(i, empty) == i # HASH2INDEX(entries[i].hash)

\* CAN_MOVE_ITEM_TO_CURRENT_EMPTY, for an entry that is not at home.
CanMove(i, empty) ==
    LET home == HASH2INDEX(entries[i].hash)
    IN  i # home /\ Distance(i, home) > Distance(empty, home)

\* Where the loop of remove_by_index comes to next: an entry to move, or a free
\* slot, at which it ends.  The empty slot itself is free.
ShiftStops(empty, i) == ~Occupied(i) \/ CanMove(i, empty)

ShiftEnd(empty) ==
    LET At(d) == (empty + d) % Size
    IN  At(CHOOSE d \in 1 .. Size : ShiftStops(empty, At(d)) /\ \A e \in 1 .. d - 1 : ~ShiftStops(empty, At(e)))

------------------------------------------------------------------------------
(* flowdb_thread *)

TableInit ==
    /\ entries = [i \in Slots |-> Unused]
    /\ feature_index_to_entry_map = [value \in Values |-> -1]
    /\ num_entries = 0
    /\ murmur \in MurmurHash3
    /\ writer = WriterIdle

\* flow_hashtable_add, for a value that is not in use; a key that is found is
\* left alone.
Add(key, value) ==
    /\ writer = WriterIdle
    /\ num_entries # Size
    /\ feature_index_to_entry_map[value] = -1
    /\ ~Found(key)
    /\ writer' = [step |-> "write", into |-> ProbeEnd(key), from |-> -1, start |-> -1, todo |-> StoreGroups,
                  item |-> [occupied |-> FALSE, hash |-> murmur[key], key |-> key, value |-> value]]
    /\ UNCHANGED table

\* No barrier: occupied is visible with the first store.
StoreUnordered(fields) ==
    /\ writer.step = "write"
    /\ fields \in writer.todo
    /\ writer' = [writer EXCEPT !.todo = @ \ {fields}]
    /\ entries' = [entries EXCEPT ![writer.into] =
          [f \in DOMAIN @ |-> IF f \in fields THEN writer.item[f] ELSE IF f = "occupied" THEN TRUE ELSE @[f]]]
    /\ feature_index_to_entry_map' =
          IF "map" \in fields THEN [feature_index_to_entry_map EXCEPT ![writer.item.value] = writer.into]
                              ELSE feature_index_to_entry_map
    /\ UNCHANGED num_entries

\* A moved entry keeps its old slot in the map.
StoreUnmapped(fields) ==
    /\ writer.step = "write"
    /\ fields \in writer.todo
    /\ writer' = [writer EXCEPT !.todo = @ \ {fields}]
    /\ entries' = [entries EXCEPT ![writer.into] =
          [f \in DOMAIN @ |-> IF f \in fields THEN writer.item[f] ELSE @[f]]]
    /\ feature_index_to_entry_map' =
          IF "map" \in fields /\ writer.from = -1
            THEN [feature_index_to_entry_map EXCEPT ![writer.item.value] = writer.into]
            ELSE feature_index_to_entry_map
    /\ UNCHANGED num_entries

\* The stores between two barriers, to an entry and to the map.
Store(fields) ==
    /\ writer.step = "write"
    /\ fields \in writer.todo
    /\ writer' = [writer EXCEPT !.todo = @ \ {fields}]
    /\ entries' = [entries EXCEPT ![writer.into] =
          [f \in DOMAIN @ |-> IF f \in fields THEN writer.item[f] ELSE @[f]]]
    /\ feature_index_to_entry_map' =
          IF "map" \in fields THEN [feature_index_to_entry_map EXCEPT ![writer.item.value] = writer.into]
                              ELSE feature_index_to_entry_map
    /\ UNCHANGED num_entries

\* The store to occupied behind the barrier ends flow_hashtable_add, and one
\* move of remove_by_index.
Publish ==
    /\ writer.step = "write"
    /\ writer.todo = {}
    /\ entries' = [entries EXCEPT ![writer.into].occupied = TRUE]
    /\ IF writer.from = -1 THEN /\ writer' = WriterIdle
                                /\ num_entries' = num_entries + 1
                           ELSE /\ writer' = [step |-> "shift", empty |-> writer.from, start |-> writer.start]
                                /\ UNCHANGED num_entries
    /\ UNCHANGED feature_index_to_entry_map

\* The value keeps its slot in the map.
RemoveByIndexUnmapped(i) ==
    /\ entries' = [entries EXCEPT ![i].occupied = FALSE]
    /\ num_entries' = num_entries - 1
    /\ writer' = [step |-> "shift", empty |-> i, start |-> i]
    /\ UNCHANGED feature_index_to_entry_map

Cleared == {fields \in StoreGroups : fields \cap {"hash", "map"} # {}}

\* remove_by_index up to its loop: the entry is free at once, then its hash and
\* its place in the map are cleared.
RemoveByIndex(i) ==
    /\ entries' = [entries EXCEPT ![i].occupied = FALSE]
    /\ num_entries' = num_entries - 1
    /\ writer' = [step |-> "clear", empty |-> i, start |-> i, todo |-> Cleared]
    /\ UNCHANGED feature_index_to_entry_map

\* flow_hashtable_remove
Remove(key) ==
    /\ writer = WriterIdle
    /\ Found(key)
    /\ RemoveByIndex(ProbeEnd(key))

\* flow_hashtable_remove_by_value
RemoveByValue(value) ==
    /\ writer = WriterIdle
    /\ feature_index_to_entry_map[value] # -1
    /\ RemoveByIndex(feature_index_to_entry_map[value])

Clear(fields) ==
    /\ writer.step = "clear"
    /\ fields \in writer.todo
    /\ writer' = IF writer.todo = {fields} THEN [step |-> "shift", empty |-> writer.empty, start |-> writer.start]
                                           ELSE [writer EXCEPT !.todo = @ \ {fields}]
    /\ entries' = IF "hash" \in fields THEN [entries EXCEPT ![writer.empty].hash = 0] ELSE entries
    /\ feature_index_to_entry_map' =
          IF "map" \in fields THEN [feature_index_to_entry_map EXCEPT ![entries[writer.empty].value] = -1]
                              ELSE feature_index_to_entry_map
    /\ UNCHANGED num_entries

\* One move of the loop in remove_by_index: the entry is taken from its slot,
\* then stored into the empty slot.
TakeNext ==
    /\ writer.step = "shift"
    /\ LET i == ShiftEnd(writer.empty)
       IN  /\ Occupied(i)
           /\ entries' = [entries EXCEPT ![i].occupied = FALSE]
           /\ writer' = [step |-> "write", into |-> writer.empty, from |-> i, start |-> writer.start, todo |-> StoreGroups,
                         item |-> [entries[i] EXCEPT !.occupied = FALSE]]
    /\ UNCHANGED <<feature_index_to_entry_map, num_entries>>

EndShift ==
    /\ writer.step = "shift"
    /\ ~Occupied(ShiftEnd(writer.empty))
    /\ writer' = WriterIdle
    /\ UNCHANGED table

WriterContinues ==
    /\ \/ \E fields \in StoreGroups : Store(fields) \/ Clear(fields)
       \/ Publish
       \/ TakeNext
       \/ EndShift
    /\ UNCHANGED murmur

StartRemove ==
    /\ \/ \E key \in Keys : Remove(key)
       \/ \E value \in Values : RemoveByValue(value)
    /\ UNCHANGED murmur

StartAdd(key, value) == Add(key, value) /\ UNCHANGED murmur

------------------------------------------------------------------------------
(* A key is in the table when an occupied entry holds it, or while its entry  *)
(* is being moved.                                                            *)

Moving == writer.step = "write" /\ writer.from # -1
Adding == writer.step = "write" /\ writer.from = -1

Members == {entries[i].key : i \in {j \in Slots : Occupied(j)}}
               \cup IF Moving THEN {writer.item.key} ELSE {}
Newcomer == IF Adding THEN {writer.item.key} ELSE {}

------------------------------------------------------------------------------
(* Properties *)

\* "This ensures that for a given key k with hash h at index h+i, all entries
\* from h to h+i are occupied" (flow_hashtable.c:131), whatever sequence of
\* additions and removals came before, across the end of the array too.
ProbesUnbroken ==
    writer = WriterIdle =>
        \A i \in Slots : Occupied(i) =>
            LET home == HASH2INDEX(entries[i].hash)
            IN  \A d \in 0 .. Distance(i, home) : Occupied((home + d) % Size)

\* Between two operations the map from values to slots names exactly the
\* occupied entries, although every move of a removal changes it.
MapExact ==
    writer = WriterIdle =>
        /\ \A value \in Values, i \in Slots :
              feature_index_to_entry_map[value] = i <=> Occupied(i) /\ entries[i].value = value
        /\ num_entries = Cardinality({i \in Slots : Occupied(i)})

\* The array implements the dictionary: flow_hashtable_add and both removals
\* change exactly the entry they are about, and moving entries loses none.
Dict ==
    [key \in Keys |->
        IF \E i \in Slots : Occupied(i) /\ entries[i].key = key
          THEN entries[CHOOSE i \in Slots : Occupied(i) /\ entries[i].key = key].value
          ELSE IF Moving /\ writer.item.key = key THEN writer.item.value ELSE 0]

D == INSTANCE Dictionary WITH dict <- Dict, NoValue <- 0
ImplementsDictionary == D!Spec

\* "This loop will terminate, as we have at least one unoccupied entry in the
\* hashtable" (flow_hashtable.c:135): from move to move a removal comes further
\* away from the slot where it started and never around to it, so it makes fewer
\* moves than there are slots, even when the table was full.
RemovalsEnd == Moving => Distance(writer.from, writer.start) > Distance(writer.into, writer.start)
=============================================================================
