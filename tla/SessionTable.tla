----------------------------- MODULE SessionTable -----------------------------
(***************************************************************************)
(* The session table with its reader: feature_export_thread copies it and  *)
(* the uuids of the sessions (export/export_features.c) and prints a row   *)
(* for every session of the copy.  The lock it holds meanwhile is that of  *)
(* the uuids only: flowdb_thread goes on changing the table.               *)
(*                                                                         *)
(* The model follows the row of one index and one slot, both arbitrary.    *)
(* memcpy copies in any order.  A key that is stored during its copy may   *)
(* be copied in part; the properties are about rows whose key is whole.    *)
(*                                                                         *)
(* Of the uuids only the lock is modelled: a row has none unless the       *)
(* program is built with EXPORT_NUMPY (config.h:105, commented out), and   *)
(* nothing else reads them.                                                *)
(***************************************************************************)
EXTENDS ProbeTable

CONSTANT Watched    \* the indices whose rows are followed

\* SESSION_HASHTABLE_SIZE is a multiple of the number of ids: with an id left
\* the table is not full.
ASSUME IdsAssumption == IsFiniteSet(Values) /\ Cardinality(Values) <= Size
ASSUME WatchedAssumption == Watched \subseteq Values

VARIABLES pending,          \* the session that add_flow is about to add
          exporter,         \* feature_export_thread
          copyHistory       \* the session of the watched index when the copy began,
                            \* whether a removal ran during it, and whether the
                            \* index was in use at any time

sessionVars == <<tableVars, pending, exporter, copyHistory>>

None == [key |-> NoKey, value |-> 0]
Waiting == [step |-> "wait"]

SessionInit ==
    /\ TableInit
    /\ pending = None
    /\ exporter = Waiting
    /\ copyHistory = [key |-> NoKey, calm |-> TRUE, used |-> FALSE]

\* uuid_mapping_lock: held by feature_export_thread.
Locked == exporter.step = "copy"

------------------------------------------------------------------------------
(* flowdb_thread *)

\* add_flow for a client without a session: a free id gets a new uuid, under the lock.
MkUuid(key, value) ==
    /\ writer = WriterIdle
    /\ pending = None
    /\ ~Found(key)
    /\ feature_index_to_entry_map[value] = -1
    /\ ~Locked
    /\ pending' = [key |-> key, value |-> value]
    /\ UNCHANGED <<tableVars, exporter>>

\* session_hashtable_add_or_increase_flow_count
AddSession ==
    /\ pending # None
    /\ StartAdd(pending.key, pending.value)
    /\ pending' = None
    /\ UNCHANGED exporter

\* session_hashtable_remove_or_decrease_flow_count, for the last flow.
RemoveSession(key) ==
    /\ pending = None
    /\ Remove(key)
    /\ UNCHANGED <<murmur, pending, exporter>>

Continue == WriterContinues /\ UNCHANGED <<pending, exporter>>

------------------------------------------------------------------------------
(* feature_export_thread *)

Lock(index, slot) ==
    /\ exporter = Waiting
    /\ exporter' = [step |-> "copy", index |-> index, slot |-> slot, todo |-> {"key", "value", "map"},
                    key |-> NoKey, value |-> 0, map |-> -1]
    /\ UNCHANGED <<tableVars, pending>>

\* session_hashtable_copy
CopyTable(part) ==
    /\ exporter.step = "copy"
    /\ part \in exporter.todo
    /\ exporter' = [exporter EXCEPT
          !.todo = @ \ {part},
          ![part] = IF part = "map" THEN feature_index_to_entry_map[exporter.index]
                                    ELSE entries[exporter.slot][part]]
    /\ UNCHANGED <<tableVars, pending>>

\* The copy of the uuids, after which the lock is free and the row is what was copied.
CopyUuids ==
    /\ exporter.step = "copy"
    /\ exporter.todo = {}
    /\ exporter' = [step |-> "print", index |-> exporter.index, slot |-> exporter.slot, map |-> exporter.map,
                    row |-> [key |-> exporter.key, value |-> exporter.value]]
    /\ UNCHANGED <<tableVars, pending>>

PrintFlowData ==
    /\ exporter.step = "print"
    /\ exporter' = Waiting
    /\ UNCHANGED <<tableVars, pending>>

------------------------------------------------------------------------------
(* What happens during a copy *)

\* The key of a value's session.
KeyOf(value) ==
    IF \E i \in Slots : Occupied(i) /\ entries[i].value = value
      THEN entries[CHOOSE i \in Slots : Occupied(i) /\ entries[i].value = value].key
      ELSE IF Moving /\ writer.item.value = value THEN writer.item.key ELSE NoKey

\* Whether the watched index has a session, or is about to get one.
InUse == LET value == exporter.index
         IN  KeyOf(value) # NoKey \/ pending.value = value \/ (Adding /\ writer.item.value = value)

Removing == ~(writer = WriterIdle \/ Adding)

Copying == exporter.step = "copy"

TrackCopy ==
    copyHistory' =
        IF Copying' THEN [key  |-> IF Copying THEN copyHistory.key ELSE KeyOf(exporter'.index),
                          calm |-> copyHistory.calm /\ ~Removing',
                          used |-> copyHistory.used \/ InUse']
        ELSE IF exporter' # Waiting THEN copyHistory ELSE [key |-> NoKey, calm |-> TRUE, used |-> FALSE]

SessionNext ==
    /\ \/ \E key \in Keys, value \in Values : MkUuid(key, value)
       \/ AddSession
       \/ \E key \in Keys : RemoveSession(key)
       \/ Continue
       \/ \E index \in Watched, slot \in Slots : Lock(index, slot)
       \/ \E part \in {"key", "value", "map"} : CopyTable(part)
       \/ CopyUuids
       \/ PrintFlowData
    /\ TrackCopy

SessionSpec == SessionInit /\ [][SessionNext]_sessionVars

------------------------------------------------------------------------------
(* Properties *)

\* The row of the watched index and slot is printed when the copy of the map
\* names the slot.
Printed == exporter.step = "print" /\ exporter.map = exporter.slot

\* A "threadsafe copy" (export_features.c:150), as far as it goes: unless a
\* removal moves entries during the copy, every session that was in the table is
\* exported with its own key and id, and no row is printed for an index that was
\* not in use, however the additions of other sessions interleave with it.
SettledIsExported ==
    exporter.step = "print" /\ copyHistory.calm =>
        /\ copyHistory.key # NoKey =>
              /\ exporter.map # -1
              /\ Printed => exporter.row = [key |-> copyHistory.key, value |-> exporter.index]
        /\ ~copyHistory.used => exporter.map = -1
=============================================================================
