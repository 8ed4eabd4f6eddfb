------------------------------ MODULE Lifecycle ------------------------------
(***************************************************************************)
(* The life of a flow through all threads: packet_thread announces it and  *)
(* reports its FIN, flowdb_thread executes the commands of the packet      *)
(* ring, dataplane_thread installs its entry, the switch counts its        *)
(* packets, and feature_export_thread ages it (process_and_age_feature in  *)
(* dataplane/features.c) and sends PKT_TIMEOUT_FLOW when its packet count  *)
(* stands still.                                                           *)
(*                                                                         *)
(* Module Controller has the two threads in the middle; this module adds   *)
(* what drives them.  Time is the age of the last update of an index, and  *)
(* passes when feature_export_thread begins a round, at most once a        *)
(* second.  The commands for the bloom filter, which take room in both     *)
(* rings, are left to modules PacketHandler and Controller.  Of the two    *)
(* buffers with the packet counts the model has where they differ, and     *)
(* which one is newer: module Features has their arithmetic.               *)
(***************************************************************************)
EXTENDS Controller

CONSTANTS PacketRingSize,   \* PACKET_RINGBUFFER_SIZE
          TcpFlows,         \* the five tuples of TCP, whose end the controller sees
          FLOW_TIMEOUT,     \* seconds
          Uptimes           \* how long the machine may be up when the controller starts

ASSUME PacketRingAssumption == PacketRingSize \in Nat \ {0} /\ TcpFlows \subseteq FiveTuples
ASSUME TimeoutAssumption == FLOW_TIMEOUT \in Nat \ {0} /\ Uptimes \subseteq Nat

\* At least one port is forwarded (port_config.h), so that there is an index.
ASSUME ForwardingAssumption == \E port \in Ports : DEVPORT_MAPPING[port] # -1

\* PKT_TIMEOUT_FLOW carries a session id, which is a flow id only without
\* sessions (IdsInLockstep).
ASSUME NoSessionsAssumption == ~UseSessions

VARIABLES packet_ring,
          egress_feature_to_session_id, \* the session counted at an index, or -1
          session_id_egress_offset,     \* that of the key of a session's entry, else 0
          last_flow_update,     \* age of the last update of an index, or Unset
          uptime,               \* seconds since the machine started
          differ,               \* the indices at which the two buffers differ
          swapped,              \* is the newer buffer the one called the last?
          exporter,             \* feature_export_thread: the index it is at
          fresh,                \* the indices counted and not read since
          silent                \* seconds since a read found that an index's session
                                \* was counted; ForLong if none did

mapVars == <<egress_feature_to_session_id, session_id_egress_offset>>
buffers == <<differ, swapped>>
agingVars == <<last_flow_update, uptime, buffers, exporter>>
allVars == <<vars, packet_ring, mapVars, agingVars, fresh, silent>>

\* The indices at which a session may be counted.
Indices == {i \in Ids : \E port \in Ports : DEVPORT_MAPPING[port] # -1 /\
                           dev_port_to_pipe(DEVPORT_MAPPING[port]) = flow_id_to_pipe(i)}
Unset == -1     \* last_flow_update[i] == 0
Waiting == [step |-> "wait"]

\* Ages beyond the timeout are all alike.
ForLong == FLOW_TIMEOUT + 1
Later(age, seconds) == IF age + seconds > FLOW_TIMEOUT THEN ForLong ELSE age + seconds

Mapped(i) == egress_feature_to_session_id[i] # -1

LifecycleInit ==
    /\ Init
    /\ packet_ring = << >>
    /\ egress_feature_to_session_id = [i \in Indices |-> -1]
    /\ session_id_egress_offset = [key \in SessionKeys |-> 0]
    /\ last_flow_update = [i \in Indices |-> Unset]
    /\ uptime \in Uptimes
    /\ differ = {}
    /\ swapped = FALSE
    /\ fresh = {}
    /\ exporter = Waiting
    /\ silent = [i \in Indices |-> ForLong]

------------------------------------------------------------------------------
(* packet_thread, which sees the packets of a flow without an entry, possibly *)
(* late, and every FIN                                                        *)

\* packet_ringbuffer_put: is the item put?
PacketRoom == Len(packet_ring) < PacketRingSize

PutPacket(item) == packet_ring' = IF PacketRoom THEN Append(packet_ring, item) ELSE packet_ring

\* The puts of process_packet, for a FIN and for another packet of a relevant
\* flow.  Nobody looks at their results.
ProcessPacket(tuple, port, command) ==
    /\ port \in Arrivals[tuple]
    /\ command = "PKT_REMOVE_FLOW" => tuple \in TcpFlows
    /\ PutPacket([command |-> command, tuple |-> tuple, port |-> port])
    /\ UNCHANGED <<vars, mapVars, agingVars, fresh, silent>>

------------------------------------------------------------------------------
(* flowdb_thread *)

\* Where the session of an entry is counted.
EgressIndex(key) == session_hashtable[key] + session_id_egress_offset[key]

\* session_hashtable_add_or_increase_flow_count: a new session is stored at the
\* index where it is counted.
MapNew(port) ==
    LET New == {key \in SessionKeys : session_hashtable[key] = 0 /\ session_hashtable'[key] # 0}
    IN  /\ session_id_egress_offset' =
              [key \in SessionKeys |-> IF key \in New THEN EgressOffset(port) ELSE session_id_egress_offset[key]]
        /\ egress_feature_to_session_id' =
              [i \in Indices |-> IF \E key \in New : session_hashtable'[key] = i - EgressOffset(port)
                                   THEN i - EgressOffset(port) ELSE egress_feature_to_session_id[i]]

\* session_hashtable_remove_by_index: the index of the removed session is
\* emptied, whoever was stored there, then every entry that moves stores its
\* session again, those in moved as the last at their index.
MapEnded(moved) ==
    LET Ended == {key \in SessionKeys : session_hashtable[key] # 0 /\ session_hashtable'[key] = 0}
        MovedTo(i) == {key \in moved : EgressIndex(key) = i}
    IN  /\ Ended = {} => moved = {}
        /\ \A key \in moved : session_hashtable'[key] # 0 /\ MovedTo(EgressIndex(key)) = {key}
        /\ egress_feature_to_session_id' =
              [i \in Indices |->
                  IF MovedTo(i) # {} THEN session_hashtable[CHOOSE key \in moved : EgressIndex(key) = i]
                  ELSE IF \E key \in Ended : EgressIndex(key) = i THEN -1
                  ELSE egress_feature_to_session_id[i]]
        /\ session_id_egress_offset' =
              [key \in SessionKeys |-> IF key \in Ended THEN 0 ELSE session_id_egress_offset[key]]

\* add_flow returns early.
CannotAdd(tuple, port) ==
    \/ DEVPORT_MAPPING[port] = -1
    \/ flow_id_heap[dev_port_to_pipe(port)] = {}
    \/ Known(tuple)

TakeAdd(tuple, port) ==
    \/ AddFlow(tuple, port) \/ AddFlowWithoutSession(tuple, port)
    \/ CannotAdd(tuple, port) /\ UNCHANGED <<flowVars, ringVars>>

TakeRemove(tuple, port) ==
    \/ \E offset \in Garbage : RemoveFlowByFiveTuple(tuple, port, offset)
    \/ ~Known(tuple) /\ UNCHANGED <<flowVars, ringVars>>

TakeTimeout(flow_id) ==
    \/ \E tuple \in FiveTuples : flow_hashtable[tuple].value = flow_id /\ RemoveFlowByFlowId(tuple)
    \/ (\A tuple \in FiveTuples : flow_hashtable[tuple].value # flow_id) /\ UNCHANGED <<flowVars, ringVars>>

\* The loop of flowdb_thread: the next command of the packet ring.
Take ==
    /\ handler = Idle
    /\ packet_ring # << >>
    /\ packet_ring' = Tail(packet_ring)
    /\ LET item == Head(packet_ring)
       IN  CASE item.command = "PKT_ADD_FLOW"     -> TakeAdd(item.tuple, item.port) /\ MapNew(item.port)
             [] item.command = "PKT_REMOVE_FLOW"  -> TakeRemove(item.tuple, item.port) /\ UNCHANGED mapVars
             [] item.command = "PKT_TIMEOUT_FLOW" -> TakeTimeout(item.flow_id) /\ UNCHANGED mapVars

\* The rest of a removal.
Proceed ==
    /\ \/ SendRemove /\ UNCHANGED mapVars
       \/ CleanupFlow /\ \E moved \in SUBSET SessionKeys : MapEnded(moved)
    /\ UNCHANGED packet_ring

FlowDBThread ==
    /\ Take \/ Proceed
    /\ silent' = [i \in Indices |-> IF egress_feature_to_session_id'[i] = -1 THEN ForLong ELSE silent[i]]
    /\ UNCHANGED <<dataPlaneVars, agingVars, fresh>>

DataPlaneThread ==
    /\ DataPlaneStep
    /\ UNCHANGED <<flowVars, packet_ring, mapVars, agingVars, fresh, silent>>

------------------------------------------------------------------------------
(* The switch counts a packet at the egress index of its flow's session *)

Count(i) ==
    /\ \E h \in Installed : i \in CountedAt(classification[h])
    /\ fresh' = fresh \cup {i}
    /\ UNCHANGED <<vars, packet_ring, mapVars, agingVars, silent>>

------------------------------------------------------------------------------
(* feature_export_thread *)

\* read_features up to process_and_age_feature, a second later: found is what the
\* sync brought from the switch.  The buffers are swapped before a read can fail,
\* so that a failed read finds the differences of the one before, and the next one
\* compares with the older of the two.
ReadFeatures(found, ok) ==
    /\ exporter = Waiting
    /\ exporter' = [step |-> "age", index |-> CHOOSE i \in Indices : \A j \in Indices : i <= j]
    /\ uptime' = Later(uptime, 1)
    /\ last_flow_update' = [i \in Indices |-> IF last_flow_update[i] = Unset THEN Unset
                                                            ELSE Later(last_flow_update[i], 1)]
    /\ differ' = IF ok THEN found \cup (IF swapped THEN differ ELSE {}) ELSE differ
    /\ swapped' = (~ok /\ ~swapped)
    /\ fresh' = IF ok THEN fresh \ found ELSE fresh
    /\ silent' = [i \in Indices |-> IF ok /\ i \in found /\ Mapped(i) THEN 0 ELSE Later(silent[i], 1)]
    /\ UNCHANGED <<vars, packet_ring, mapVars>>

StartRound == ReadFeatures(fresh, TRUE)

\* The sync fails, and brings only a part, or the read does.
StartFailedRound ==
    \/ ReadFeatures(fresh, FALSE)
    \/ \E found \in SUBSET fresh : found # fresh /\ ReadFeatures(found, TRUE)

NextIndex ==
    exporter' = IF \E j \in Indices : j > exporter.index
                  THEN [step |-> "age", index |-> CHOOSE j \in Indices :
                           j > exporter.index /\ \A k \in Indices : k > exporter.index => j <= k]
                  ELSE Waiting

\* An index whose count changed, or that has just got a session, is up to date.
Age ==
    LET i == exporter.index
    IN  /\ exporter.step = "age"
        /\ IF i \in differ \/ (last_flow_update[i] = Unset /\ Mapped(i))
             THEN /\ last_flow_update' = [last_flow_update EXCEPT ![i] = 0]
                  /\ NextIndex
             ELSE /\ exporter' = [exporter EXCEPT !.step = "expire"]
                  /\ UNCHANGED last_flow_update
        /\ UNCHANGED <<vars, packet_ring, mapVars, uptime, buffers, fresh, silent>>

\* The comparison is <=: an age of FLOW_TIMEOUT seconds is enough.
ExpiredEarly(i) ==
    CASE uptime < FLOW_TIMEOUT -> TRUE
      [] uptime >= FLOW_TIMEOUT -> last_flow_update[i] = Unset \/ last_flow_update[i] >= FLOW_TIMEOUT

\* last_flow_update[i] < now - FLOW_TIMEOUT, as unsigned numbers: the difference
\* is huge in the first FLOW_TIMEOUT seconds, and 0 in the next one.
Expired(i) ==
    CASE uptime < FLOW_TIMEOUT -> TRUE
      [] uptime = FLOW_TIMEOUT -> FALSE
      [] uptime > FLOW_TIMEOUT -> last_flow_update[i] = Unset \/ last_flow_update[i] > FLOW_TIMEOUT

\* The timeout carries the egress index instead of the session's id.
ExpireIndex ==
    LET i == exporter.index
    IN  /\ exporter.step = "expire"
        /\ IF Expired(i) /\ Mapped(i)
             THEN /\ PutPacket([command |-> "PKT_TIMEOUT_FLOW", flow_id |-> i])
                  /\ last_flow_update' = IF PacketRoom THEN [last_flow_update EXCEPT ![i] = Unset]
                                                       ELSE last_flow_update
             ELSE UNCHANGED <<packet_ring, last_flow_update>>
        /\ NextIndex
        /\ UNCHANGED <<vars, mapVars, uptime, buffers, fresh, silent>>

\* The map is read again: the index may have got or lost its session since Age.
Expire ==
    LET i == exporter.index
    IN  /\ exporter.step = "expire"
        /\ IF Expired(i) /\ Mapped(i)
             THEN /\ PutPacket([command |-> "PKT_TIMEOUT_FLOW", flow_id |-> egress_feature_to_session_id[i]])
                  /\ last_flow_update' = IF PacketRoom THEN [last_flow_update EXCEPT ![i] = Unset]
                                                       ELSE last_flow_update
             ELSE UNCHANGED <<packet_ring, last_flow_update>>
        /\ NextIndex
        /\ UNCHANGED <<vars, mapVars, uptime, buffers, fresh, silent>>

ExportThread == StartRound \/ StartFailedRound \/ Age \/ Expire

------------------------------------------------------------------------------
Traffic ==
    \/ \E tuple \in FiveTuples, port \in Ports, command \in {"PKT_ADD_FLOW", "PKT_REMOVE_FLOW"} :
          ProcessPacket(tuple, port, command)
    \/ \E i \in Indices : Count(i)

LifecycleNext == Traffic \/ FlowDBThread \/ DataPlaneThread \/ ExportThread

\* The three threads poll for ever; nobody has to send packets.
LifecycleSpec ==
    /\ LifecycleInit /\ [][LifecycleNext]_allVars
    /\ WF_allVars(FlowDBThread)
    /\ WF_allVars(DataPlaneThread)
    /\ WF_allVars(ExportThread)

------------------------------------------------------------------------------
(* Properties *)

\* "Flow age timeout if features don't change" (config.h:76).  A timeout is only
\* sent when no read of the last FLOW_TIMEOUT seconds found that the index's
\* session was counted, however the ages are set, kept and inherited.  (A session
\* that no read has seen counting yet may inherit any age from its index.)
\* The exception is the wrapped subtraction while the machine is up for less
\* than FLOW_TIMEOUT seconds.
TimeoutsAreDue ==
    [][\A i \in Indices :
          /\ exporter.step = "expire" /\ exporter.index = i /\ exporter' # exporter
          /\ Len(packet_ring') > Len(packet_ring)
          => silent[i] = ForLong \/ uptime < FLOW_TIMEOUT]_allVars

\* Once the packets stop and reads succeed, aging takes every flow out of the flow
\* table and of the switch, all ids become free, and nothing is left to do but to
\* look: lost FINs and timeouts, reused ids, stale timeouts and the buffers that
\* failed reads left swapped do no lasting harm.  Only a command that the data
\* plane ring refused may leave a session behind.  (Reads that fail every other
\* time would keep an idle flow for ever: they find the same difference again and
\* again.)
IdleFlowsEnd ==
    <>[][~Traffic /\ ~StartFailedRound]_allVars =>
        <>[](~dropped => /\ packet_ring = << >> /\ commands = << >>
                         /\ \A tuple \in FiveTuples : ~Known(tuple) /\ ~IsInstalled(tuple)
                         /\ \A i \in Indices : ~Mapped(i))
=============================================================================
