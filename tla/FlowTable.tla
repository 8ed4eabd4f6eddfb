------------------------------ MODULE FlowTable ------------------------------
(***************************************************************************)
(* The flow table with its reader: packet_thread asks flow_hashtable_get   *)
(* whether a flow is known, without a lock.  A lookup reads occupied, hash *)
(* and key of an entry in this order.  The memcmp of the key (line 98) is  *)
(* one step: that a half written key, whose hash happens to be that of the *)
(* key sought, is taken for it is outside the model.                       *)
(***************************************************************************)
EXTENDS ProbeTable

CONSTANT Sought     \* the keys packet_thread looks up

ASSUME SoughtAssumption == Sought \subseteq Keys

VARIABLES reader,   \* the lookup of packet_thread
          history   \* what happened during that lookup

vars == <<tableVars, reader, history>>

ReaderIdle == [pc |-> "idle"]

Init ==
    /\ TableInit
    /\ reader = ReaderIdle
    /\ history = [always |-> FALSE, ever |-> FALSE, shifted |-> FALSE]

WriterStep ==
    /\ \/ WriterContinues
       \/ StartRemove
       \/ \E key \in Keys, value \in Values : StartAdd(key, value)
    /\ UNCHANGED reader

------------------------------------------------------------------------------
(* packet_thread: is_known calls flow_hashtable_get *)

StartLookup(key) ==
    /\ reader = ReaderIdle
    /\ reader' = [pc |-> "occupied", key |-> key, index |-> SlotOf(key, 0)]

\* The next entry of the probe sequence.
NextEntry == [reader EXCEPT !.pc = "occupied", !.index = (@ + 1) % Size]

ReadOccupied ==
    /\ reader.pc = "occupied"
    /\ reader' = [reader EXCEPT !.pc = IF Occupied(reader.index) THEN "hash" ELSE "absent"]

\* A lookup that looks at the home of the key only.
ReadHashOnce ==
    /\ reader.pc = "hash"
    /\ reader' = [reader EXCEPT !.pc = IF entries[reader.index].hash = murmur[reader.key] THEN "key" ELSE "absent"]

ReadHash ==
    /\ reader.pc = "hash"
    /\ reader' = IF entries[reader.index].hash = murmur[reader.key] THEN [reader EXCEPT !.pc = "key"]
                                                                   ELSE NextEntry

\* A matching hash is taken for a matching key.
ReadKeyUnchecked ==
    /\ reader.pc = "key"
    /\ reader' = [reader EXCEPT !.pc = "found"]

ReadKey ==
    /\ reader.pc = "key"
    /\ reader' = IF entries[reader.index].key = reader.key THEN [reader EXCEPT !.pc = "found"]
                                                          ELSE NextEntry

Return ==
    /\ reader.pc \in {"found", "absent"}
    /\ reader' = ReaderIdle

ReaderContinues ==
    /\ ReadOccupied \/ ReadHash \/ ReadKey \/ Return
    /\ UNCHANGED tableVars

ReaderStep ==
    \/ ReaderContinues
    \/ (\E key \in Sought : StartLookup(key)) /\ UNCHANGED tableVars

------------------------------------------------------------------------------
(* What happens during a lookup *)

\* Whether the key of the current lookup was always, or ever, in the table
\* since it began, and whether a removal ran at the same time.
Track ==
    LET fresh == reader = ReaderIdle
    IN  history' =
          IF reader' = ReaderIdle THEN [always |-> FALSE, ever |-> FALSE, shifted |-> FALSE]
          ELSE IF reader.pc \in {"found", "absent"} THEN history
          ELSE [always  |-> (fresh \/ history.always) /\ reader'.key \in Members',
                ever    |-> (~fresh /\ history.ever) \/ reader'.key \in Members' \cup Newcomer',
                shifted |-> (~fresh /\ history.shifted) \/ ~(writer' = WriterIdle \/ Adding')]

Next == (WriterStep \/ ReaderStep) /\ Track

Spec == Init /\ [][Next]_vars

------------------------------------------------------------------------------
(* Properties *)

\* A lookup without the lock still never finds a key that is not there: a key
\* that it finds was in the table, or on its way into it, while it ran.
FoundWasThere == reader.pc = "found" => history.ever

\* Only removals can hide a key from a lookup, by the entries they move; additions
\* never do.  A lookup during which any removal ran is left out, also one that moved
\* nothing.
OnlyShiftsHide == reader.pc = "absent" /\ ~history.shifted => ~history.always
=============================================================================
