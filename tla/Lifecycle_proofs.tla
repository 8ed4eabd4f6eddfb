-------------------------- MODULE Lifecycle_proofs --------------------------
(***************************************************************************)
(* All threads together: what packet_thread and feature_export_thread add  *)
(* leaves the flow database and the data plane thread within module        *)
(* Controller, whose theorems therefore hold for the whole controller; and *)
(* a flow times out only when it has been silent for long enough.          *)
(***************************************************************************)
EXTENDS Lifecycle, Controller_proofs

------------------------------------------------------------------------------
(* Types *)

\* packet_command_t, without the commands for the bloom filter.
PacketItem ==
    [command : {"PKT_ADD_FLOW", "PKT_REMOVE_FLOW"}, tuple : FiveTuples, port : Ports]
        \cup [command : {"PKT_TIMEOUT_FLOW"}, flow_id : Ids]

PacketRingOK == packet_ring \in Seq(PacketItem)
MapOK == egress_feature_to_session_id \in [Indices -> Ids \cup {-1}]

\* A round of feature_export_thread.
Round == [step : {"age", "expire"}, index : Indices]

AgingOK ==
    /\ fresh \subseteq Indices
    /\ differ \subseteq Indices
    /\ swapped \in BOOLEAN
    /\ exporter \in Round \cup {Waiting}
    /\ last_flow_update \in [Indices -> (0 .. ForLong) \cup {Unset}]
    /\ silent \in [Indices -> 0 .. ForLong]
    /\ uptime \in Nat

LifecycleTypeOK == TypeOK /\ PacketRingOK /\ MapOK /\ AgingOK

\* Ids start at four, and some are indices.
LEMMA IndexFacts ==
    /\ Indices \subseteq Ids /\ Indices \subseteq Nat /\ Indices # {}
    /\ \A i \in Indices : i >= 4
PROOF
<1>1. Indices \subseteq Ids
  BY DEF Indices
<1>2. \A pipe \in Pipes : \A id \in IdsOf(pipe) : id \in Nat /\ id >= 4
  <2> SUFFICES ASSUME NEW pipe \in Pipes, NEW id \in IdsOf(pipe)
               PROVE  id \in Nat /\ id >= 4
    OBVIOUS
  <2>1. PICK index \in 0 .. HeapSize - 1 : id = (index + 1) * 4 + pipe
    BY DEF IdsOf
  <2>2. pipe \in Nat /\ index \in Nat
    BY PipesAssumption, HeapSizeAssumption DEF Pipes
  <2> QED BY <2>1, <2>2
<1>3. Indices # {}
  <2>1. PICK port \in Ports : DEVPORT_MAPPING[port] # -1
    BY ForwardingAssumption
  <2>2. DEVPORT_MAPPING[port] \in Ports
    BY <2>1, PortsAssumption
  <2>3. PICK pipe \in Pipes : pipe = dev_port_to_pipe(DEVPORT_MAPPING[port])
    BY <2>2, PortPipe
  <2>4. PICK id : id = (0 + 1) * 4 + pipe
    OBVIOUS
  <2>5. id \in IdsOf(pipe)
    BY <2>4, HeapSizeAssumption DEF IdsOf
  <2>6. flow_id_to_pipe(id) = pipe /\ id \in Ids
    BY <2>5, IdFacts DEF flow_id_to_pipe, Ids
  <2> QED BY <2>1, <2>3, <2>6 DEF Indices
<1> QED BY <1>1, <1>2, <1>3 DEF Ids

\* A put leaves items in the packet ring.
LEMMA PutPacketType ==
    ASSUME PacketRingOK, NEW item \in PacketItem, PutPacket(item)
    PROVE  PacketRingOK'
PROOF BY DEF PacketRingOK, PutPacket

\* Taking the oldest item leaves items in the packet ring.
LEMMA TakeType ==
    ASSUME PacketRingOK, Take
    PROVE  PacketRingOK' /\ Head(packet_ring) \in PacketItem
PROOF BY DEF PacketRingOK, Take

\* Every step of flowdb_thread is one of module Controller, or changes nothing
\* there.
LEMMA TakeIsControllerStep ==
    ASSUME PacketRingOK, Take, UNCHANGED dataPlaneVars
    PROVE  [Next]_vars
PROOF
<1>1. PICK item \in PacketItem : item = Head(packet_ring)
  BY TakeType
<1>2. CASE item.command = "PKT_ADD_FLOW"
  <2>1. TakeAdd(item.tuple, item.port)
    BY <1>1, <1>2 DEF Take
  <2>2. item.tuple \in FiveTuples /\ item.port \in Ports
    BY <1>2 DEF PacketItem
  <2> QED BY <2>1, <2>2 DEF TakeAdd, Next, FlowDBStep, vars
<1>3. CASE item.command = "PKT_REMOVE_FLOW"
  <2>1. TakeRemove(item.tuple, item.port)
    BY <1>1, <1>3 DEF Take
  <2>2. item.tuple \in FiveTuples /\ item.port \in Ports
    BY <1>3 DEF PacketItem
  <2> QED BY <2>1, <2>2 DEF TakeRemove, Next, FlowDBStep, vars
<1>4. CASE item.command = "PKT_TIMEOUT_FLOW"
  <2>1. TakeTimeout(item.flow_id)
    BY <1>1, <1>4 DEF Take
  <2> QED BY <2>1 DEF TakeTimeout, Next, FlowDBStep, vars
<1> QED BY <1>2, <1>3, <1>4 DEF PacketItem

\* Every step of the controller is one of module Controller, or changes nothing
\* there.
LEMMA StepIsControllerStep ==
    ASSUME PacketRingOK, [LifecycleNext]_allVars
    PROVE  [Next]_vars
PROOF
<1>1. CASE Traffic
  BY <1>1 DEF Traffic, ProcessPacket, Count
<1>2. CASE FlowDBThread
  <2>1. UNCHANGED dataPlaneVars /\ (Take \/ SendRemove \/ CleanupFlow)
    BY <1>2 DEF FlowDBThread, Proceed
  <2> QED BY <2>1, TakeIsControllerStep DEF Next, FlowDBStep
<1>3. CASE DataPlaneThread
  BY <1>3 DEF DataPlaneThread, Next
<1>4. CASE ExportThread
  BY <1>4 DEF ExportThread, StartRound, StartFailedRound, ReadFeatures, Age, Expire
<1>5. CASE UNCHANGED allVars
  BY <1>5 DEF allVars
<1> QED BY <1>1, <1>2, <1>3, <1>4, <1>5 DEF LifecycleNext

\* The map holds ids of sessions: of a new one,
LEMMA MapNewType ==
    ASSUME TypeOK', MapOK, NEW port \in Ports, MapNew(port)
    PROVE  MapOK'
PROOF
<1> DEFINE map == egress_feature_to_session_id
           off == EgressOffset(port)
           New == {key \in SessionKeys : session_hashtable[key] = 0 /\ session_hashtable'[key] # 0}
<1>1. map' = [i \in Indices |-> IF \E key \in New : session_hashtable'[key] = i - off THEN i - off ELSE map[i]]
  BY DEF MapNew
<1>2. ASSUME NEW i \in Indices, NEW key \in New, session_hashtable'[key] = i - off
      PROVE  i - off \in Ids
  BY <1>2 DEF TypeOK
<1>3. \A i \in Indices : map'[i] \in Ids \cup {-1}
  BY <1>1, <1>2 DEF MapOK
<1>4. DOMAIN map' = Indices
  BY <1>1
<1> QED BY <1>1, <1>3, <1>4 DEF MapOK

\* and of those that are left.
LEMMA MapEndedType ==
    ASSUME TypeOK, TypeOK', MapOK, NEW moved \in SUBSET SessionKeys, MapEnded(moved),
           \A key \in SessionKeys : session_hashtable'[key] # 0 => session_hashtable[key] # 0
    PROVE  MapOK'
PROOF
<1> DEFINE map == egress_feature_to_session_id
           Choice(i) == CHOOSE key \in moved : EgressIndex(key) = i
<1>1. /\ DOMAIN map' = Indices
      /\ map' = [i \in Indices |-> map'[i]]
      /\ \A key \in moved : session_hashtable'[key] # 0
  BY DEF MapEnded
<1>2. ASSUME NEW i \in Indices
      PROVE  \/ map'[i] \in {-1, map[i]}
             \/ (\E key \in moved : EgressIndex(key) = i) /\ map'[i] = session_hashtable[Choice(i)]
  BY DEF MapEnded
<1>3. ASSUME NEW key \in moved
      PROVE  session_hashtable[key] \in Ids
  <2>1. key \in SessionKeys /\ session_hashtable[key] # 0
    BY <1>1
  <2> QED BY <2>1 DEF TypeOK
<1>4. ASSUME NEW i \in Indices
      PROVE  map'[i] \in Ids \cup {-1}
  <2>1. CASE map'[i] \in {-1, map[i]}
    BY <2>1 DEF MapOK
  <2>2. CASE (\E key \in moved : EgressIndex(key) = i) /\ map'[i] = session_hashtable[Choice(i)]
    <3>1. Choice(i) \in moved
      BY <2>2
    <3> QED BY <1>3, <2>2, <3>1
  <2> QED BY <1>2, <2>1, <2>2
<1> HIDE DEF map
<1>5. map' \in [Indices -> Ids \cup {-1}]
  BY <1>1, <1>4
<1> QED BY <1>5 DEF MapOK, map

\* The ring holds items, and the map sessions.
LEMMA StepKeepsPacketRing ==
    ASSUME LifecycleTypeOK, TypeOK', [LifecycleNext]_allVars
    PROVE  PacketRingOK' /\ MapOK'
PROOF
<1> USE DEF LifecycleTypeOK
<1>1. CASE Traffic
  <2>1. MapOK'
    BY <1>1 DEF Traffic, ProcessPacket, Count, MapOK, mapVars
  <2>2. ASSUME NEW tuple \in FiveTuples, NEW port \in Ports, NEW command \in {"PKT_ADD_FLOW", "PKT_REMOVE_FLOW"},
               ProcessPacket(tuple, port, command)
        PROVE  PacketRingOK'
    <3>1. [command |-> command, tuple |-> tuple, port |-> port] \in PacketItem
      BY DEF PacketItem
    <3> QED BY <2>2, <3>1, PutPacketType DEF ProcessPacket
  <2>3. ASSUME NEW i \in Indices, Count(i)
        PROVE  PacketRingOK'
    BY <2>3 DEF Count, PacketRingOK
  <2> QED BY <1>1, <2>1, <2>2, <2>3 DEF Traffic
<1>2. CASE FlowDBThread
  <2>1. PacketRingOK'
    BY <1>2, TakeType DEF FlowDBThread, Proceed, PacketRingOK
  <2>2. ASSUME Take PROVE MapOK'
    <3>1. PICK item \in PacketItem : item = Head(packet_ring)
      BY <2>2, TakeType
    <3>2. CASE item.command \in {"PKT_REMOVE_FLOW", "PKT_TIMEOUT_FLOW"}
      BY <2>2, <3>1, <3>2 DEF Take, MapOK, mapVars
    <3>3. CASE item.command = "PKT_ADD_FLOW"
      <4>1. item.port \in Ports
        BY <3>3 DEF PacketItem
      <4>2. MapNew(item.port)
        BY <2>2, <3>1, <3>3 DEF Take
      <4> QED BY <4>1, <4>2, MapNewType
    <3> QED BY <3>2, <3>3 DEF PacketItem
  <2>3. ASSUME Proceed PROVE MapOK'
    <3>1. CASE SendRemove /\ UNCHANGED mapVars
      BY <3>1 DEF MapOK, mapVars
    <3>2. ASSUME CleanupFlow, NEW moved \in SUBSET SessionKeys, MapEnded(moved)
          PROVE  MapOK'
      <4>1. \A key \in SessionKeys : session_hashtable'[key] # 0 => session_hashtable[key] # 0
        BY <3>2 DEF CleanupFlow, RemoveSession, KeepSession, TypeOK
      <4> QED BY <3>2, <4>1, MapEndedType
    <3> QED BY <2>3, <3>1, <3>2 DEF Proceed
  <2> QED BY <1>2, <2>1, <2>2, <2>3 DEF FlowDBThread
<1>3. CASE DataPlaneThread
  BY <1>3 DEF DataPlaneThread, PacketRingOK, MapOK, mapVars
<1>4. CASE ExportThread
  <2>1. MapOK'
    BY <1>4 DEF ExportThread, StartRound, StartFailedRound, ReadFeatures, Age, Expire, MapOK, mapVars
  <2>2. ASSUME StartRound \/ StartFailedRound \/ Age PROVE PacketRingOK'
    BY <2>2 DEF StartRound, StartFailedRound, ReadFeatures, Age, PacketRingOK
  <2>3. ASSUME Expire PROVE PacketRingOK'
    <3> DEFINE i == exporter.index
               item == [command |-> "PKT_TIMEOUT_FLOW", flow_id |-> egress_feature_to_session_id[i]]
    <3>1. CASE Mapped(i) /\ PutPacket(item)
      <4>1. i \in Indices
        BY <2>3 DEF Expire, AgingOK, Round, Waiting
      <4>2. egress_feature_to_session_id[i] \in Ids
        BY <3>1, <4>1 DEF Mapped, MapOK
      <4>3. item \in PacketItem
        BY <4>2 DEF PacketItem
      <4> QED BY <3>1, <4>3, PutPacketType
    <3>2. CASE UNCHANGED packet_ring
      BY <3>2 DEF PacketRingOK
    <3> QED BY <2>3, <3>1, <3>2 DEF Expire
  <2> QED BY <1>4, <2>1, <2>2, <2>3 DEF ExportThread
<1>5. CASE UNCHANGED allVars
  BY <1>5 DEF allVars, mapVars, PacketRingOK, MapOK
<1> QED BY <1>1, <1>2, <1>3, <1>4, <1>5 DEF LifecycleNext

\* Time passes.
LEMMA LaterType ==
    \A age \in Nat : /\ Later(age, 1) \in Nat
                     /\ Later(age, 1) \in 0 .. ForLong
                     /\ age = ForLong => Later(age, 1) = ForLong
PROOF BY TimeoutAssumption DEF Later, ForLong

LEMMA LaterMonotone ==
    ASSUME NEW a \in Nat, NEW b \in Nat, a <= b
    PROVE  Later(a, 1) <= Later(b, 1)
PROOF BY TimeoutAssumption DEF Later, ForLong

\* The first index, and the next one.
LEMMA FirstIndex ==
    LET first == CHOOSE i \in Indices : \A j \in Indices : i <= j
    IN  first \in Indices /\ \A j \in Indices : first <= j
PROOF
<1>1. \E i \in Indices : \A j \in Indices : i <= j
  BY IndexFacts, LeastNumber
<1> QED BY <1>1

LEMMA NextIndexFacts ==
    ASSUME exporter \in Round, NextIndex
    PROVE  /\ exporter' \in Round \cup {Waiting}
           /\ exporter' # Waiting =>
                /\ exporter'.step = "age"
                /\ exporter'.index > exporter.index
                /\ \A k \in Indices : k > exporter.index => exporter'.index <= k
           /\ exporter' = Waiting => \A k \in Indices : ~(k > exporter.index)
PROOF
<1> DEFINE S == {j \in Indices : j > exporter.index}
<1>1. CASE \E j \in Indices : j > exporter.index
  <2>1. S # {} /\ S \subseteq Nat
    BY <1>1, IndexFacts
  <2>2. PICK j \in S : \A k \in S : j <= k
    BY <2>1, LeastNumber
  <2>3. \E l \in Indices : l > exporter.index /\ \A k \in Indices : k > exporter.index => l <= k
    BY <2>2
  <2>4. PICK l : /\ l = CHOOSE m \in Indices : m > exporter.index /\ \A k \in Indices : k > exporter.index => m <= k
                 /\ l \in Indices /\ l > exporter.index /\ \A k \in Indices : k > exporter.index => l <= k
    BY <2>3
  <2>5. exporter' = [step |-> "age", index |-> l]
    BY <1>1, <2>4 DEF NextIndex
  <2>6. exporter' \in Round /\ exporter'.step = "age" /\ exporter'.index = l
    BY <2>4, <2>5 DEF Round
  <2>7. exporter' # Waiting
    BY <2>6 DEF Waiting
  <2> QED BY <2>4, <2>6, <2>7
<1>2. CASE ~ \E j \in Indices : j > exporter.index
  BY <1>2 DEF NextIndex
<1> QED BY <1>1, <1>2

\* Every step keeps the types of aging.
LEMMA StepKeepsAging ==
    ASSUME LifecycleTypeOK, [LifecycleNext]_allVars
    PROVE  AgingOK'
PROOF
<1>1. CASE Traffic
  BY <1>1 DEF Traffic, ProcessPacket, Count, LifecycleTypeOK, AgingOK, agingVars, buffers
<1>2. CASE FlowDBThread
  <2>1. \A i \in Indices : silent'[i] \in 0 .. ForLong
    BY <1>2, LaterType, TimeoutAssumption DEF FlowDBThread, LifecycleTypeOK, AgingOK, ForLong
  <2>2. silent' \in [Indices -> 0 .. ForLong]
    BY <1>2, <2>1 DEF FlowDBThread
  <2> QED BY <1>2, <2>2 DEF FlowDBThread, LifecycleTypeOK, AgingOK, agingVars, buffers
<1>3. CASE DataPlaneThread
  BY <1>3 DEF DataPlaneThread, LifecycleTypeOK, AgingOK, agingVars, buffers
<1>4. ASSUME NEW found \in SUBSET fresh, NEW ok \in BOOLEAN, ReadFeatures(found, ok)
      PROVE  AgingOK'
  <2>1. exporter' \in Round
    <3> DEFINE first == CHOOSE i \in Indices : \A j \in Indices : i <= j
    <3>1. first \in Indices
      BY FirstIndex
    <3>2. exporter' = [step |-> "age", index |-> first]
      BY <1>4 DEF ReadFeatures
    <3> HIDE DEF first
    <3> QED BY <3>1, <3>2 DEF Round
  <2>2. ForLong \in Nat /\ 0 .. ForLong \subseteq Nat /\ 0 \in 0 .. ForLong
    BY TimeoutAssumption DEF ForLong
  <2>3. ASSUME NEW i \in Indices
        PROVE  /\ last_flow_update'[i] \in (0 .. ForLong) \cup {Unset}
               /\ silent'[i] \in 0 .. ForLong
    <3>1. last_flow_update[i] \in (0 .. ForLong) \cup {Unset} /\ silent[i] \in 0 .. ForLong
      BY DEF LifecycleTypeOK, AgingOK
    <3>2. last_flow_update'[i] = IF last_flow_update[i] = Unset THEN Unset ELSE Later(last_flow_update[i], 1)
      BY <1>4 DEF ReadFeatures
    <3>3. silent'[i] = 0 \/ silent'[i] = Later(silent[i], 1)
      BY <1>4 DEF ReadFeatures
    <3>4. silent[i] \in Nat /\ (last_flow_update[i] # Unset => last_flow_update[i] \in Nat)
      BY <2>2, <3>1
    <3>5. Later(silent[i], 1) \in 0 .. ForLong
      BY <3>4, LaterType
    <3>6. last_flow_update[i] # Unset => Later(last_flow_update[i], 1) \in 0 .. ForLong
      BY <3>4, LaterType
    <3> QED BY <2>2, <3>2, <3>3, <3>5, <3>6
  <2>4. /\ last_flow_update' \in [Indices -> (0 .. ForLong) \cup {Unset}]
        /\ silent' \in [Indices -> 0 .. ForLong]
    BY <1>4, <2>3 DEF ReadFeatures
  <2>5. uptime' \in Nat
    BY <1>4, LaterType DEF ReadFeatures, LifecycleTypeOK, AgingOK
  <2>6. differ' \subseteq Indices /\ fresh' \subseteq Indices
    BY <1>4 DEF ReadFeatures, LifecycleTypeOK, AgingOK
  <2>7. swapped' \in BOOLEAN
    BY <1>4 DEF ReadFeatures
  <2> QED BY <2>1, <2>4, <2>5, <2>6, <2>7 DEF AgingOK
<1>5. CASE Age \/ Expire
  <2>1. exporter \in Round /\ exporter.index \in Indices
    BY <1>5 DEF Age, Expire, LifecycleTypeOK, AgingOK, Waiting, Round
  <2>2. exporter' \in Round \cup {Waiting}
    <3>1. CASE NextIndex
      BY <2>1, <3>1, NextIndexFacts
    <3>2. CASE exporter' = [exporter EXCEPT !.step = "expire"]
      BY <2>1, <3>2 DEF Round
    <3> QED BY <1>5, <3>1, <3>2 DEF Age, Expire
  <2>3. ForLong \in Nat
    BY TimeoutAssumption DEF ForLong
  <2>4. last_flow_update \in [Indices -> (0 .. ForLong) \cup {Unset}]
    BY DEF LifecycleTypeOK, AgingOK
  <2>5. \/ last_flow_update' = [last_flow_update EXCEPT ![exporter.index] = 0]
        \/ last_flow_update' = [last_flow_update EXCEPT ![exporter.index] = Unset]
        \/ last_flow_update' = last_flow_update
    BY <1>5 DEF Age, Expire
  <2>6. last_flow_update' \in [Indices -> (0 .. ForLong) \cup {Unset}]
    <3>1. 0 \in (0 .. ForLong) \cup {Unset} /\ Unset \in (0 .. ForLong) \cup {Unset}
      BY <2>3
    <3> QED BY <2>4, <2>5, <3>1
  <2> QED BY <1>5, <2>2, <2>6 DEF Age, Expire, buffers, LifecycleTypeOK, AgingOK
<1>6. CASE UNCHANGED allVars
  BY <1>6 DEF allVars, agingVars, buffers, LifecycleTypeOK, AgingOK
<1>7. ASSUME StartRound \/ StartFailedRound PROVE AgingOK'
  BY <1>4, <1>7 DEF StartRound, StartFailedRound
<1> QED BY <1>1, <1>2, <1>3, <1>5, <1>6, <1>7 DEF LifecycleNext, ExportThread

\* Every step keeps all types.
LEMMA StepKeepsTypes ==
    ASSUME LifecycleTypeOK, [LifecycleNext]_allVars
    PROVE  LifecycleTypeOK' /\ [Next]_vars
PROOF
<1>1. [Next]_vars
  BY StepIsControllerStep DEF LifecycleTypeOK
<1>2. TypeOK'
  BY <1>1, NextType DEF LifecycleTypeOK
<1> QED BY <1>1, <1>2, StepKeepsPacketRing, StepKeepsAging DEF LifecycleTypeOK

LEMMA InitTypes == LifecycleInit => LifecycleTypeOK /\ Init
PROOF
<1> SUFFICES ASSUME LifecycleInit
             PROVE  LifecycleTypeOK /\ Init
  OBVIOUS
<1>1. Init
  BY DEF LifecycleInit
<1>2. PacketRingOK /\ MapOK
  BY DEF LifecycleInit, PacketRingOK, MapOK
<1>3. ForLong \in Nat
  BY TimeoutAssumption DEF ForLong
<1>4. swapped \in BOOLEAN /\ exporter \in Round \cup {Waiting} /\ uptime \in Nat
  BY TimeoutAssumption DEF LifecycleInit
<1>5. fresh \subseteq Indices /\ differ \subseteq Indices
  BY DEF LifecycleInit
<1>6. /\ last_flow_update \in [Indices -> (0 .. ForLong) \cup {Unset}]
      /\ silent \in [Indices -> 0 .. ForLong]
  BY <1>3 DEF LifecycleInit
<1>7. AgingOK
  BY <1>4, <1>5, <1>6 DEF AgingOK
<1> QED BY <1>1, <1>2, <1>7, InitType DEF LifecycleTypeOK

\* The types of the controller's state hold in every reachable state: among
\* others, a PKT_TIMEOUT_FLOW always carries an id.
THEOREM LifecycleTypeCorrect == LifecycleSpec => []LifecycleTypeOK
PROOF
<1>1. LifecycleTypeOK /\ [LifecycleNext]_allVars => LifecycleTypeOK'
  BY StepKeepsTypes
<1> QED BY <1>1, InitTypes, PTL DEF LifecycleSpec

\* Whatever packet_thread and feature_export_thread do, flowdb_thread and
\* dataplane_thread do what module Controller says.
THEOREM LifecycleImplementsController == LifecycleSpec => Spec
PROOF
<1>1. LifecycleTypeOK /\ [LifecycleNext]_allVars => [Next]_vars
  BY StepKeepsTypes
<1>2. LifecycleInit => Init
  BY DEF LifecycleInit
<1> QED BY <1>1, <1>2, LifecycleTypeCorrect, PTL DEF LifecycleSpec, Spec

\* With all threads at work no id is lost, and, until a command is refused, a
\* timeout names its flow.  If the packets of a flow arrive on one pipe, ids stay
\* on their pipe and, unless two pipes forward to the same one, no two flows share
\* registers, and, if there is room, the switch follows the flow table and rejects
\* nothing.
THEOREM ControllerKeepsItsPromises ==
    /\ LifecycleSpec => [](IdsConserved /\ IdsInLockstep)
    /\ StableArrivals => (LifecycleSpec => [](IdShowsPipe /\ CountersNotShared))
    /\ StableArrivals /\ TablesHaveRoom =>
          (LifecycleSpec => [](NothingRejected /\ RemovalHitsItsFlow /\ SwitchFollowsFlowTable))
PROOF
<1>1. LifecycleSpec => [](IdsConserved /\ IdsInLockstep)
  BY LifecycleImplementsController, IdsNeverLost, TimeoutsNameTheirFlow, PTL
<1>2. ASSUME StableArrivals
      PROVE  LifecycleSpec => [](IdShowsPipe /\ CountersNotShared)
  <2>1. Setting
    BY <1>2, NoSessionsAssumption DEF Setting
  <2>2. (Spec => []IdShowsPipe) /\ (Spec => []CountersNotShared)
    BY <1>2, <2>1, IdsStayOnTheirPipe, CountersAreNotShared
  <2> QED BY <2>2, LifecycleImplementsController, PTL
<1>3. ASSUME StableArrivals, TablesHaveRoom
      PROVE  LifecycleSpec => [](NothingRejected /\ RemovalHitsItsFlow /\ SwitchFollowsFlowTable)
  <2>1. Setting
    BY <1>3, NoSessionsAssumption DEF Setting
  <2>2. (Spec => []NothingRejected) /\ (Spec => []RemovalHitsItsFlow) /\ (Spec => []SwitchFollowsFlowTable)
    BY <1>3, <2>1, SwitchRejectsNothing, RemovalsHitTheirFlow, SwitchFollows
  <2> QED BY <2>2, LifecycleImplementsController, PTL
<1> QED BY <1>1, <1>2, <1>3

------------------------------------------------------------------------------
(* Timeouts are due *)

\* The current round found that the counts of an index differ, and has yet to age
\* it.
Pending(i) == exporter # Waiting /\ i \in differ /\ i >= exporter.index

\* Why a session that was counted lately does not time out: its index is younger
\* than the count that a read found last, or the round will make it so before it
\* looks whether the index expired.  An index without an age is skipped, unless it
\* had no session when it was aged.
SilenceInv ==
    /\ \A i \in Indices : ~Mapped(i) => silent[i] = ForLong
    /\ \A i \in Indices :
          \/ silent[i] = ForLong
          \/ last_flow_update[i] = Unset
          \/ last_flow_update[i] <= silent[i]
          \/ Pending(i)
    /\ exporter.step = "expire" =>
          /\ exporter.index \notin differ
          /\ last_flow_update[exporter.index] = Unset => silent[exporter.index] = ForLong

\* Waiting is no step of a round.
LEMMA RoundFacts ==
    \A round \in Round : round # Waiting /\ round.index \in Indices
PROOF BY DEF Round, Waiting

\* flowdb_thread only ends sessions, for which silence is no matter.
LEMMA FlowDBKeepsSilence ==
    ASSUME LifecycleTypeOK, SilenceInv, FlowDBThread
    PROVE  SilenceInv'
PROOF
<1>1. \A i \in Indices : silent'[i] = IF egress_feature_to_session_id'[i] = -1 THEN ForLong ELSE silent[i]
  BY DEF FlowDBThread
<1>2. exporter' = exporter /\ last_flow_update' = last_flow_update /\ differ' = differ
  BY DEF FlowDBThread, agingVars, buffers
<1>3. \A i \in Indices : ~Mapped(i)' => silent'[i] = ForLong
  BY <1>1 DEF Mapped
<1>4. \A i \in Indices : silent'[i] = ForLong \/ silent'[i] = silent[i]
  BY <1>1
<1>5. \A i \in Indices : \/ silent'[i] = ForLong
                         \/ last_flow_update'[i] = Unset
                         \/ last_flow_update'[i] <= silent'[i]
                         \/ Pending(i)'
  BY <1>2, <1>4 DEF SilenceInv, Pending
<1>6. ASSUME exporter'.step = "expire"
      PROVE  /\ exporter'.index \notin differ'
             /\ last_flow_update'[exporter'.index] = Unset => silent'[exporter'.index] = ForLong
  <2>1. exporter.step = "expire" /\ exporter.index \in Indices
    BY <1>2, <1>6, RoundFacts DEF LifecycleTypeOK, AgingOK, Waiting
  <2> QED BY <1>2, <1>4, <2>1 DEF SilenceInv
<1> QED BY <1>3, <1>5, <1>6 DEF SilenceInv

\* A new round: what it found counted is pending, and all else grows older alike.
LEMMA StartKeepsSilence ==
    ASSUME LifecycleTypeOK, SilenceInv, NEW found \in SUBSET fresh, NEW ok \in BOOLEAN, ReadFeatures(found, ok)
    PROVE  SilenceInv'
PROOF
<1> DEFINE first == CHOOSE i \in Indices : \A j \in Indices : i <= j
           News(i) == ok /\ i \in found /\ Mapped(i)
<1>1. /\ exporter = Waiting
      /\ exporter' = [step |-> "age", index |-> first]
      /\ \A i \in Indices :
            last_flow_update'[i] = IF last_flow_update[i] = Unset THEN Unset ELSE Later(last_flow_update[i], 1)
      /\ \A i \in Indices : silent'[i] = IF News(i) THEN 0 ELSE Later(silent[i], 1)
      /\ ok => found \subseteq differ'
      /\ egress_feature_to_session_id' = egress_feature_to_session_id
  BY DEF ReadFeatures, mapVars
<1>2. first \in Indices /\ \A j \in Indices : first <= j
  BY FirstIndex
<1> HIDE DEF first
<1>3. exporter' # Waiting /\ exporter'.step = "age" /\ exporter'.index = first
  BY <1>1 DEF Waiting
<1>4. ASSUME NEW i \in Indices
      PROVE  /\ ~Mapped(i)' => silent'[i] = ForLong
             /\ \/ silent'[i] = ForLong
                \/ last_flow_update'[i] = Unset
                \/ last_flow_update'[i] <= silent'[i]
                \/ Pending(i)'
  <2>1. silent[i] \in Nat /\ (last_flow_update[i] # Unset => last_flow_update[i] \in Nat)
    <3>1. silent[i] \in 0 .. ForLong /\ last_flow_update[i] \in (0 .. ForLong) \cup {Unset}
      BY DEF LifecycleTypeOK, AgingOK
    <3>2. ForLong \in Nat
      BY TimeoutAssumption DEF ForLong
    <3> QED BY <3>1, <3>2
  <2>2. CASE News(i)
    <3>1. Mapped(i)'
      BY <1>1, <2>2 DEF Mapped
    <3>2. Pending(i)'
      BY <1>1, <1>2, <1>3, <2>2, IndexFacts DEF Pending
    <3> QED BY <3>1, <3>2
  <2>3. CASE ~News(i)
    <3>1. silent'[i] = Later(silent[i], 1)
      BY <1>1, <2>3
    <3>2. silent[i] = ForLong => silent'[i] = ForLong
      BY <2>1, <3>1, LaterType
    <3>3. ~Mapped(i)' => silent'[i] = ForLong
      BY <1>1, <3>2 DEF Mapped, SilenceInv
    <3>4. ~Pending(i)
      BY <1>1 DEF Pending
    <3>5. CASE silent[i] = ForLong \/ last_flow_update[i] = Unset
      BY <1>1, <3>2, <3>3, <3>5
    <3>6. CASE last_flow_update[i] # Unset /\ last_flow_update[i] <= silent[i]
      <4>1. last_flow_update'[i] = Later(last_flow_update[i], 1)
        BY <1>1, <3>6
      <4>2. last_flow_update'[i] <= silent'[i]
        BY <2>1, <3>1, <3>6, <4>1, LaterMonotone
      <4> QED BY <3>3, <4>2
    <3> QED BY <3>4, <3>5, <3>6 DEF SilenceInv
  <2> QED BY <2>2, <2>3
<1> QED BY <1>3, <1>4 DEF SilenceInv

\* The round goes on to the next index: what is pending there stays pending.
LEMMA NextIndexKeepsPending ==
    ASSUME exporter \in Round, NextIndex, differ' = differ, NEW i \in Indices, i # exporter.index, Pending(i)
    PROVE  Pending(i)'
PROOF
<1>1. exporter.index \in Nat /\ i \in Nat
  BY RoundFacts, IndexFacts
<1>2. i > exporter.index /\ i \in differ
  BY <1>1 DEF Pending
<1>3. exporter' # Waiting
  BY <1>2, NextIndexFacts
<1>4. exporter' \in Round /\ exporter'.index <= i
  BY <1>2, <1>3, NextIndexFacts
<1>5. exporter'.index \in Nat
  BY <1>4, RoundFacts, IndexFacts
<1> QED BY <1>1, <1>2, <1>3, <1>4, <1>5 DEF Pending

LEMMA AgeKeepsSilence ==
    ASSUME LifecycleTypeOK, SilenceInv, Age \/ Expire
    PROVE  SilenceInv'
PROOF
<1> DEFINE i == exporter.index
<1>1. exporter \in Round /\ i \in Indices
  BY RoundFacts DEF Age, Expire, LifecycleTypeOK, AgingOK, Waiting
<1>2. silent' = silent /\ egress_feature_to_session_id' = egress_feature_to_session_id /\ differ' = differ
  BY DEF Age, Expire, mapVars, buffers
<1>3. silent[i] \in Nat /\ last_flow_update \in [Indices -> (0 .. ForLong) \cup {Unset}]
  <2>1. silent[i] \in 0 .. ForLong
    BY <1>1 DEF LifecycleTypeOK, AgingOK
  <2>2. ForLong \in Nat
    BY TimeoutAssumption DEF ForLong
  <2> QED BY <2>1, <2>2 DEF LifecycleTypeOK, AgingOK
<1>4. \A k \in Indices : ~Mapped(k)' => silent'[k] = ForLong
  BY <1>2 DEF Mapped, SilenceInv
<1>5. \A k \in Indices : k # i => last_flow_update'[k] = last_flow_update[k]
  <2>1. \/ last_flow_update' = [last_flow_update EXCEPT ![i] = 0]
        \/ last_flow_update' = [last_flow_update EXCEPT ![i] = Unset]
        \/ last_flow_update' = last_flow_update
    BY DEF Age, Expire
  <2> QED BY <1>3, <2>1
<1>6. CASE NextIndex
  <2>1. exporter'.step # "expire"
    BY <1>1, <1>6, NextIndexFacts DEF Waiting
  <2>2. ASSUME NEW k \in Indices, k # i
        PROVE  \/ silent'[k] = ForLong
               \/ last_flow_update'[k] = Unset
               \/ last_flow_update'[k] <= silent'[k]
               \/ Pending(k)'
    BY <1>1, <1>2, <1>5, <1>6, <2>2, NextIndexKeepsPending DEF SilenceInv
  <2>3. \/ silent'[i] = ForLong
        \/ last_flow_update'[i] = Unset
        \/ last_flow_update'[i] <= silent'[i]
    <3>1. CASE last_flow_update' = [last_flow_update EXCEPT ![i] = 0]
      BY <1>1, <1>2, <1>3, <3>1
    <3>2. CASE last_flow_update' = [last_flow_update EXCEPT ![i] = Unset]
      BY <1>1, <1>3, <3>2
    <3>3. CASE exporter.step = "expire" /\ last_flow_update' = last_flow_update
      <4>1. ~Pending(i)
        BY <3>3 DEF Pending, SilenceInv
      <4> QED BY <1>1, <1>2, <3>3, <4>1 DEF SilenceInv
    <3>4. CASE exporter.step = "age"
      <4>1. Age
        BY <3>4 DEF Expire
      <4>2. \/ last_flow_update' = [last_flow_update EXCEPT ![i] = 0]
            \/ exporter' = [exporter EXCEPT !.step = "expire"]
        BY <4>1 DEF Age
      <4>3. exporter' # [exporter EXCEPT !.step = "expire"]
        BY <1>1, <2>1 DEF Round
      <4> QED BY <3>1, <4>2, <4>3
    <3>5. CASE Expire
      <4>1. \/ last_flow_update' = [last_flow_update EXCEPT ![i] = Unset]
            \/ last_flow_update' = last_flow_update
        BY <3>5 DEF Expire
      <4>2. exporter.step = "expire"
        BY <3>5 DEF Expire
      <4> QED BY <3>2, <3>3, <4>1, <4>2
    <3> QED BY <3>4, <3>5 DEF Age
  <2>4. \A k \in Indices : \/ silent'[k] = ForLong
                           \/ last_flow_update'[k] = Unset
                           \/ last_flow_update'[k] <= silent'[k]
                           \/ Pending(k)'
    BY <2>2, <2>3
  <2> QED BY <1>4, <2>1, <2>4 DEF SilenceInv
<1>7. CASE ~NextIndex
  <2>1. /\ i \notin differ /\ ~(last_flow_update[i] = Unset /\ Mapped(i))
        /\ exporter' = [exporter EXCEPT !.step = "expire"] /\ last_flow_update' = last_flow_update
    BY <1>7 DEF Age, Expire
  <2>2. /\ exporter'.index = i /\ exporter'.step = "expire"
        /\ exporter' # Waiting /\ exporter # Waiting
    BY <1>1, <2>1 DEF Round, Waiting
  <2>3. \A k \in Indices : Pending(k)' <=> Pending(k)
    BY <1>2, <2>2 DEF Pending
  <2>4. last_flow_update[i] = Unset => silent[i] = ForLong
    BY <1>1, <2>1 DEF SilenceInv
  <2>5. \A k \in Indices : \/ silent'[k] = ForLong
                           \/ last_flow_update'[k] = Unset
                           \/ last_flow_update'[k] <= silent'[k]
                           \/ Pending(k)'
    BY <1>2, <2>1, <2>3 DEF SilenceInv
  <2> QED BY <1>2, <1>4, <2>1, <2>2, <2>4, <2>5 DEF SilenceInv
<1> QED BY <1>6, <1>7

\* Every step keeps the invariant.
LEMMA StepKeepsSilence ==
    ASSUME LifecycleTypeOK, SilenceInv, [LifecycleNext]_allVars
    PROVE  SilenceInv'
PROOF
<1>1. CASE UNCHANGED <<agingVars, silent, egress_feature_to_session_id>>
  <2>1. /\ exporter' = exporter /\ differ' = differ /\ last_flow_update' = last_flow_update /\ silent' = silent
        /\ egress_feature_to_session_id' = egress_feature_to_session_id
    BY <1>1 DEF agingVars, buffers
  <2> QED BY <2>1 DEF SilenceInv, Mapped, Pending
<1>2. CASE Traffic \/ DataPlaneThread \/ UNCHANGED allVars
  BY <1>1, <1>2 DEF Traffic, ProcessPacket, Count, DataPlaneThread, allVars, mapVars
<1>3. CASE FlowDBThread
  BY <1>3, FlowDBKeepsSilence
<1>4. CASE ExportThread
  <2>1. CASE StartRound \/ StartFailedRound
    BY <2>1, StartKeepsSilence DEF StartRound, StartFailedRound
  <2> QED BY <1>4, <2>1, AgeKeepsSilence DEF ExportThread
<1> QED BY <1>2, <1>3, <1>4 DEF LifecycleNext

\* The step that puts a timeout into the packet ring.
LEMMA TimeoutIsDue ==
    ASSUME LifecycleTypeOK, SilenceInv, [LifecycleNext]_allVars, NEW i \in Indices,
           exporter.step = "expire", exporter.index = i, exporter' # exporter,
           Len(packet_ring') > Len(packet_ring)
    PROVE  silent[i] = ForLong \/ uptime < FLOW_TIMEOUT
PROOF
<1>1. Expire
  <2>1. ~Traffic /\ ~FlowDBThread /\ ~DataPlaneThread
    BY DEF Traffic, ProcessPacket, Count, FlowDBThread, DataPlaneThread, agingVars
  <2>2. ~UNCHANGED allVars
    BY DEF allVars, agingVars
  <2>3. ~StartRound /\ ~StartFailedRound /\ ~Age
    BY DEF StartRound, StartFailedRound, ReadFeatures, Age, Waiting
  <2> QED BY <2>1, <2>2, <2>3 DEF LifecycleNext, ExportThread
<1>2. packet_ring' # packet_ring
  <2>1. Len(packet_ring) \in Nat
    BY DEF LifecycleTypeOK, PacketRingOK
  <2> QED BY <2>1
<1>3. Expired(i)
  BY <1>1, <1>2 DEF Expire
<1>4. /\ silent[i] \in 0 .. ForLong /\ last_flow_update[i] \in (0 .. ForLong) \cup {Unset}
      /\ uptime \in Nat
  BY DEF LifecycleTypeOK, AgingOK
<1>5. /\ silent[i] = ForLong \/ last_flow_update[i] = Unset \/ last_flow_update[i] <= silent[i]
      /\ last_flow_update[i] = Unset => silent[i] = ForLong
  <2>1. ~Pending(i)
    BY DEF Pending, SilenceInv
  <2> QED BY <2>1 DEF SilenceInv
<1>6. FLOW_TIMEOUT \in Nat /\ ForLong = FLOW_TIMEOUT + 1
  BY TimeoutAssumption DEF ForLong
<1>7. CASE uptime < FLOW_TIMEOUT
  BY <1>7
<1>8. CASE uptime = FLOW_TIMEOUT
  BY <1>3, <1>6, <1>8 DEF Expired
<1>9. CASE uptime > FLOW_TIMEOUT
  <2>1. last_flow_update[i] = Unset \/ last_flow_update[i] > FLOW_TIMEOUT
    BY <1>3, <1>4, <1>6, <1>9 DEF Expired
  <2>2. CASE last_flow_update[i] = Unset
    BY <1>5, <2>2
  <2>3. CASE last_flow_update[i] # Unset /\ last_flow_update[i] > FLOW_TIMEOUT
    BY <1>4, <1>5, <1>6, <2>3
  <2> QED BY <2>1, <2>2, <2>3
<1> QED BY <1>4, <1>6, <1>7, <1>8, <1>9

\* feature_export_thread sends a timeout only for a session that no read of the
\* last FLOW_TIMEOUT seconds found counted, apart from the first FLOW_TIMEOUT
\* seconds of the machine.
THEOREM OnlySilentFlowsTimeOut == LifecycleSpec => TimeoutsAreDue
PROOF
<1>1. LifecycleInit => SilenceInv
  BY DEF LifecycleInit, SilenceInv, Waiting
<1>2. LifecycleTypeOK /\ SilenceInv /\ [LifecycleNext]_allVars => SilenceInv'
  BY StepKeepsSilence
<1>3. LifecycleTypeOK /\ SilenceInv /\ [LifecycleNext]_allVars =>
        [\A i \in Indices :
            /\ exporter.step = "expire" /\ exporter.index = i /\ exporter' # exporter
            /\ Len(packet_ring') > Len(packet_ring)
            => silent[i] = ForLong \/ uptime < FLOW_TIMEOUT]_allVars
  BY TimeoutIsDue
<1> QED BY <1>1, <1>2, <1>3, LifecycleTypeCorrect, PTL DEF LifecycleSpec, TimeoutsAreDue
=============================================================================
