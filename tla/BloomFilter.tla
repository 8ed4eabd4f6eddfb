----------------------------- MODULE BloomFilter -----------------------------
(***************************************************************************)
(* The counting bloom filter of irrelevant UDP flows                       *)
(* (datastructures/bloom_filter.c) and the bits the switch keeps of it.    *)
(* flowdb_thread counts five tuples in, bloom_filter_maintenance counts at *)
(* random down, and dataplane_thread writes the switch's bits.             *)
(*                                                                         *)
(* The pipes have filters of their own; this is one of them.  A critical   *)
(* section is one step for which the lock has to be free; what is read     *)
(* outside of one has a step of its own.  That the switch clears a bit     *)
(* when it looks at it (clr_bitc) is left to module PacketHandler.         *)
(***************************************************************************)
EXTENDS Integers, Sequences, FiniteSets

CONSTANTS FiveTuples,
          NUM_BLOOMFILTERS,
          BLOOMFILTER_WIDTH,
          hashes,       \* get_hashes: the index of a five tuple in every filter
          RingSize,     \* DATAPLANE_RINGBUFFER_SIZE
          Modulus,      \* of a counter: 2^16
          MarkBound     \* bound on the counters, for TLC

Filters == 1 .. NUM_BLOOMFILTERS
Indices == 0 .. BLOOMFILTER_WIDTH - 1

ASSUME FiltersAssumption == NUM_BLOOMFILTERS \in Nat \ {0} /\ BLOOMFILTER_WIDTH \in Nat \ {0}
ASSUME HashesAssumption == hashes \in [FiveTuples -> [Filters -> Indices]]
ASSUME BoundsAssumption == RingSize \in Nat /\ Modulus \in Nat \ {0} /\ MarkBound \in Nat

VARIABLES entries,      \* the counters
          held,         \* the filters whose lock is taken and never given back
          flowdb,       \* bloom_filter_set_irrelevant in flowdb_thread
          maintenance,  \* bloom_filter_maintenance
          commands,     \* the data plane ring
          refused,      \* has the ring refused a command?
          bits          \* the bits that were written to the switch

vars == <<entries, held, flowdb, maintenance, commands, refused, bits>>

\* A command's indices before they are set: 0, which is a valid index.
NoIndices == [i \in Filters |-> 0]

Idle == [step |-> "idle"]
Resting(indices) == [step |-> "rest", indices |-> indices]

Init ==
    /\ entries = [i \in Filters |-> [x \in Indices |-> 0]]
    /\ held = {}
    /\ flowdb = Idle
    /\ maintenance = Resting(NoIndices)
    /\ commands = << >>
    /\ refused = FALSE
    /\ bits = [i \in Filters |-> [x \in Indices |-> FALSE]]

Full == Len(commands) = RingSize

Put(command) ==
    /\ commands' = IF Full THEN commands ELSE Append(commands, command)
    /\ refused' = (refused \/ Full)

Increment(i, x) == entries' = [entries EXCEPT ![i][x] = (@ + 1) % Modulus]
Decrement(i, x) == entries' = [entries EXCEPT ![i][x] = @ - 1]

------------------------------------------------------------------------------
(* flowdb_thread *)

\* bloom_filter_set_irrelevant, for every filter in turn.
SetIrrelevant(tuple) ==
    /\ flowdb = Idle
    /\ \A i \in Filters : entries[i][hashes[tuple][i]] < MarkBound
    /\ flowdb' = [step |-> "count", tuple |-> tuple, i |-> 1, indices |-> NoIndices, send |-> FALSE]
    /\ UNCHANGED <<entries, held, maintenance, commands, refused, bits>>

Count ==
    /\ flowdb.step = "count"
    /\ flowdb.i \notin held
    /\ Increment(flowdb.i, hashes[flowdb.tuple][flowdb.i])
    /\ flowdb' = [flowdb EXCEPT !.step = "look"]
    /\ UNCHANGED <<held, maintenance, commands, refused, bits>>

NextFilter(state, i) == IF i = NUM_BLOOMFILTERS THEN "send" ELSE state

\* The counter is compared with the value from before it was increased.
LookLate ==
    /\ flowdb.step = "look"
    /\ LET i == flowdb.i
           x == hashes[flowdb.tuple][i]
           new == entries[i][x] = 0
       IN  flowdb' = [flowdb EXCEPT !.step = NextFilter("count", i), !.i = i + 1,
                                    !.indices[i] = IF new THEN x ELSE @, !.send = @ \/ new]
    /\ UNCHANGED <<entries, held, maintenance, commands, refused, bits>>

\* The counter is read again after the unlock.
Look ==
    /\ flowdb.step = "look"
    /\ LET i == flowdb.i
           x == hashes[flowdb.tuple][i]
           new == entries[i][x] = 1
       IN  flowdb' = [flowdb EXCEPT !.step = NextFilter("count", i), !.i = i + 1,
                                    !.indices[i] = IF new THEN x ELSE @, !.send = @ \/ new]
    /\ UNCHANGED <<entries, held, maintenance, commands, refused, bits>>

SendAdd ==
    /\ flowdb.step = "send"
    /\ IF flowdb.send THEN Put([command |-> "DP_ADD_BLOOM_FILTER", indices |-> flowdb.indices])
                      ELSE UNCHANGED <<commands, refused>>
    /\ flowdb' = Idle
    /\ UNCHANGED <<entries, held, maintenance, bits>>

\* bloom_filter_set_relevant
SetRelevant(tuple) ==
    /\ flowdb = Idle
    /\ LET zero == {i \in Filters : entries[i][hashes[tuple][i]] = 0}
       IN  /\ zero # {}
           /\ Put([command |-> "DP_REMOVE_BLOOM_FILTER",
                   indices |-> [i \in Filters |-> IF i \in zero THEN hashes[tuple][i] ELSE 0]])
    /\ UNCHANGED <<entries, held, flowdb, maintenance, bits>>

------------------------------------------------------------------------------
(* bloom_filter_maintenance.  Its command lives as long as the thread, so the *)
(* indices of an earlier round stay in it.  Every counter may be passed over, *)
(* so a round may begin at any index.                                         *)

StartRound(x) ==
    /\ maintenance.step = "rest"
    /\ maintenance' = [step |-> "check", index |-> x, i |-> 1, indices |-> maintenance.indices, send |-> FALSE]
    /\ UNCHANGED <<entries, held, flowdb, commands, refused, bits>>

\* On to the next filter, or behind the last one to the command, if there is one.
Proceed(m) ==
    IF m.i < NUM_BLOOMFILTERS THEN [m EXCEPT !.step = "check", !.i = @ + 1]
    ELSE IF m.send THEN [m EXCEPT !.step = "send"]
    ELSE Resting(m.indices)

\* The random number, and the look at the counter without the lock.
PassOver ==
    /\ maintenance.step = "check"
    /\ maintenance' = Proceed(maintenance)
    /\ UNCHANGED <<entries, held, flowdb, commands, refused, bits>>

\* Under the bound, a counter that Undo could take beyond it is passed over.
Pick ==
    /\ maintenance.step = "check"
    /\ entries[maintenance.i][maintenance.index] # 0
    /\ \/ entries[maintenance.i][maintenance.index] > 1
       \/ \A i \in Filters : entries[i][maintenance.indices[i]] < MarkBound
    /\ maintenance' = [maintenance EXCEPT !.step = "lock"]
    /\ UNCHANGED <<entries, held, flowdb, commands, refused, bits>>

\* Only one branch gives the lock back.
CountDownLocked ==
    LET i == maintenance.i
        x == maintenance.index
    IN  /\ maintenance.step = "lock"
        /\ i \notin held
        /\ Decrement(i, x)
        /\ held' = IF entries[i][x] > 1 THEN held ELSE held \cup {i}
        /\ maintenance' = Proceed(IF entries[i][x] = 1
              THEN [maintenance EXCEPT !.indices[i] = x, !.send = TRUE] ELSE maintenance)
        /\ UNCHANGED <<flowdb, commands, refused, bits>>

\* A counter that is 0 under the lock has no branch of its own: the lock is
\* never given back.
CountDown ==
    LET i == maintenance.i
        x == maintenance.index
    IN  /\ maintenance.step = "lock"
        /\ i \notin held
        /\ IF entries[i][x] = 0
             THEN /\ held' = held \cup {i}
                  /\ maintenance' = Proceed(maintenance)
                  /\ UNCHANGED entries
             ELSE /\ Decrement(i, x)
                  /\ maintenance' = Proceed(IF entries[i][x] = 1
                        THEN [maintenance EXCEPT !.indices[i] = x, !.send = TRUE] ELSE maintenance)
                  /\ UNCHANGED held
        /\ UNCHANGED <<flowdb, commands, refused, bits>>

SendRemove ==
    /\ maintenance.step = "send"
    /\ Put([command |-> "DP_REMOVE_BLOOM_FILTER", indices |-> maintenance.indices])
    /\ maintenance' = IF Full THEN [maintenance EXCEPT !.step = "undo", !.i = 1]
                              ELSE Resting(maintenance.indices)
    /\ UNCHANGED <<entries, held, flowdb, bits>>

\* The ring refused the command: the counters of all its indices go up again, with
\* them those of filters that it passed over, whose indices are what an earlier
\* command left.  In the code that command may have been another pipe's; here the
\* indices left are always of this pipe's commands.
Undo ==
    LET i == maintenance.i
    IN  /\ maintenance.step = "undo"
        /\ i \notin held
        /\ Increment(i, maintenance.indices[i])
        /\ maintenance' = IF i < NUM_BLOOMFILTERS THEN [maintenance EXCEPT !.i = @ + 1]
                                                  ELSE Resting(maintenance.indices)
        /\ UNCHANGED <<held, flowdb, commands, refused, bits>>

------------------------------------------------------------------------------
(* dataplane_thread: a removal is counted and otherwise ignored. *)

WriteBits ==
    /\ commands # << >>
    /\ commands' = Tail(commands)
    /\ bits' = IF Head(commands).command = "DP_ADD_BLOOM_FILTER"
                 THEN [i \in Filters |-> [bits[i] EXCEPT ![Head(commands).indices[i]] = TRUE]]
                 ELSE bits
    /\ UNCHANGED <<entries, held, flowdb, maintenance, refused>>

FlowDBContinues == Count \/ Look \/ SendAdd
MaintenanceContinues == PassOver \/ Pick \/ CountDown \/ SendRemove \/ Undo

Next ==
    \/ \E tuple \in FiveTuples : SetIrrelevant(tuple) \/ SetRelevant(tuple)
    \/ FlowDBContinues
    \/ \E x \in Indices : StartRound(x)
    \/ MaintenanceContinues
    \/ WriteBits

Spec == Init /\ [][Next]_vars

\* The three threads run for ever.
FairSpec ==
    /\ Spec
    /\ WF_vars(FlowDBContinues)
    /\ WF_vars(MaintenanceContinues)
    /\ WF_vars(WriteBits)

------------------------------------------------------------------------------
(* Properties *)

\* An addition of this bit is in the ring, or flowdb_thread is about to send it.
OnItsWay(i, x) ==
    \/ \E n \in 1 .. Len(commands) :
          commands[n].command = "DP_ADD_BLOOM_FILTER" /\ commands[n].indices[i] = x
    \/ flowdb # Idle /\ flowdb.send /\ flowdb.indices[i] = x
    \/ flowdb.step = "look" /\ flowdb.i = i /\ hashes[flowdb.tuple][i] = x /\ entries[i][x] = 1

\* The bit of a counter that is not 0 was written to the switch, or is on its
\* way: although bloom_filter_set_irrelevant reads the counter again after it
\* released the lock, a decrement in between loses no bit.  Unless a command was
\* refused.
CountedIsWritten ==
    ~refused => \A i \in Filters, x \in Indices : entries[i][x] # 0 => bits[i][x] \/ OnItsWay(i, x)

\* As long as no counter wraps around, no lock is lost, so flowdb_thread and the
\* maintenance never wait for ever.
LocksAreReleased ==
    /\ flowdb # Idle ~> flowdb = Idle
    /\ maintenance.step # "rest" ~> maintenance.step = "rest"
==============================================================================
