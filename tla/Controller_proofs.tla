-------------------------- MODULE Controller_proofs --------------------------
(***************************************************************************)
(* For every number of flows, ports, pipes and ids and every ring size:    *)
(* the flow database loses and duplicates no id, ids stay on their pipe,   *)
(* and flow and session ids run in lockstep.  Without sessions, and as     *)
(* long as no command was refused, the switch counts no two flows at the   *)
(* same place, and, if its tables have room, it follows the flow table and *)
(* rejects nothing.                                                        *)
(***************************************************************************)
EXTENDS Controller, FiniteSetTheorems, WellFoundedInduction, TLAPS

------------------------------------------------------------------------------
(* Ids and heaps *)

\* Every id is a positive number and shows its pipe (flow_db.c:160, structs.h:56).
LEMMA IdFacts ==
    /\ \A pipe \in Pipes : \A id \in IdsOf(pipe) : id \in Nat \ {0} /\ id % 4 = pipe
    /\ Ids \subseteq Nat \ {0}
    /\ 0 \notin Ids
  <1>1. ASSUME NEW pipe \in Pipes, NEW id \in IdsOf(pipe)
        PROVE  id \in Nat \ {0} /\ id % 4 = pipe
    <2>1. PICK index \in 0 .. HeapSize - 1 : id = (index + 1) * 4 + pipe
      BY DEF IdsOf
    <2>2. pipe \in 0 .. 3
      BY PipesAssumption DEF Pipes
    <2>3. index \in Nat
      BY HeapSizeAssumption
    <2> QED
      BY <2>1, <2>2, <2>3
  <1> QED
    BY <1>1 DEF Ids

\* heap_pop takes an id out of a heap that is not empty, and returns 0 for an
\* empty one.
LEMMA PopFact ==
    ASSUME NEW heap \in SUBSET Ids
    PROVE  /\ heap = {} => HeapPop(heap) = 0
           /\ heap # {} => HeapPop(heap) \in heap
  <1>1. ASSUME heap # {} PROVE HeapPop(heap) \in heap
    <2>1. heap \subseteq Nat
      BY IdFacts
    <2>2. \E x \in heap : \A y \in heap : ~(<<y, x>> \in OpToRel(<, Nat))
      BY <2>1, <1>1, NatLessThanWellFounded, WFMin
    <2>3. PICK x \in heap : \A y \in heap : ~(<<y, x>> \in OpToRel(<, Nat))
      BY <2>2
    <2>4. \A y \in heap : ~(y < x)
      BY <2>1, <2>3 DEF OpToRel
    <2>5. \A y \in heap : x <= y
      BY <2>1, <2>4
    <2> QED
      BY <2>5, <1>1 DEF HeapPop
  <1> QED
    BY <1>1 DEF HeapPop

\* The pipe of a port is a pipe.
LEMMA PortPipe == \A port \in Ports : dev_port_to_pipe(port) \in Pipes
  BY PortsAssumption

\* The egress port is in a pipe, or there is none.
LEMMA OffsetType == \A port \in Ports : EgressOffset(port) \in -4 .. 3
  <1> SUFFICES ASSUME NEW port \in Ports PROVE EgressOffset(port) \in -4 .. 3
    OBVIOUS
  <1>1. Pipes \subseteq 0 .. 3
    BY PipesAssumption DEF Pipes
  <1>2. dev_port_to_pipe(port) \in 0 .. 3
    BY <1>1, PortPipe
  <1>3. DEVPORT_MAPPING[port] \in Ports \cup {-1}
    BY PortsAssumption
  <1>4. dev_port_to_pipe(DEVPORT_MAPPING[port]) \in -1 .. 3
    <2>1. CASE DEVPORT_MAPPING[port] \in Ports
      <3>1. dev_port_to_pipe(DEVPORT_MAPPING[port]) \in 0 .. 3
        BY <1>1, <2>1, PortPipe
      <3> QED
        BY <3>1
    <2>2. CASE DEVPORT_MAPPING[port] = -1
      <3>1. \A x \in Int : x < 0 /\ x >= -128 => x \div 128 = -1
        OBVIOUS
      <3>2. PICK x \in Int : x = DEVPORT_MAPPING[port] /\ x < 0 /\ x >= -128
        BY <2>2
      <3>3. x \div 128 = -1
        BY <3>1, <3>2
      <3>4. dev_port_to_pipe(DEVPORT_MAPPING[port]) = -1
        BY <3>2, <3>3 DEF dev_port_to_pipe
      <3> QED
        BY <3>4
    <2> QED
      BY <1>3, <2>1, <2>2
  <1> QED
    BY <1>2, <1>4 DEF EgressOffset

\* heap_pop followed by the entry of the new owner keeps every id in one place.
LEMMA TakeConserves ==
    ASSUME NEW Owners, NEW heap \in [Pipes -> SUBSET Ids], NEW owner \in [Owners -> Ids \cup {0}],
           NEW port \in Ports, NEW id \in heap[dev_port_to_pipe(port)], NEW o \in Owners,
           owner[o] = 0,
           Conserved(heap, owner, Owners)
    PROVE  Conserved(HeapRemove(heap, port, id), [owner EXCEPT ![o] = id], Owners)
  <1> DEFINE pipe == dev_port_to_pipe(port)
             newHeap == HeapRemove(heap, port, id)
             newOwner == [owner EXCEPT ![o] = id]
  <1>1. pipe \in Pipes /\ id \in Ids /\ id \in heap[pipe]
    BY PortPipe
  <1>2. \A p \in Pipes, i \in Ids : i \in newHeap[p] <=> i \in heap[p] /\ ~(p = pipe /\ i = id)
    BY <1>1 DEF HeapRemove
  <1>3. \A x \in Owners : newOwner[x] = IF x = o THEN id ELSE owner[x]
    OBVIOUS
  <1>t. newHeap \in [Pipes -> SUBSET Ids] /\ newOwner \in [Owners -> Ids \cup {0}]
    BY <1>1, IdFacts DEF HeapRemove, HeapPush
  <1> HIDE DEF pipe, newHeap, newOwner
  <1>4. \A i \in Ids : (\E p \in Pipes : i \in newHeap[p]) \/ (\E x \in Owners : newOwner[x] = i)
    BY <1>1, <1>2, <1>3, IdFacts DEF Conserved
  <1>5. \A p, q \in Pipes : \A i \in Ids : i \in newHeap[p] /\ i \in newHeap[q] => p = q
    BY <1>2 DEF Conserved
  <1>6. \A x \in Owners, p \in Pipes : newOwner[x] \notin newHeap[p]
    <2> SUFFICES ASSUME NEW x \in Owners, NEW p \in Pipes, newOwner[x] \in newHeap[p] PROVE FALSE
      OBVIOUS
    <2>1. CASE x = o
      BY <2>1, <1>1, <1>2, <1>3 DEF Conserved
    <2>2. CASE x # o
      BY <2>2, <1>2, <1>3, <1>t DEF Conserved
    <2> QED
      BY <2>1, <2>2
  <1>7. \A x, y \in Owners : newOwner[x] = newOwner[y] /\ newOwner[x] # 0 => x = y
    BY <1>1, <1>3 DEF Conserved, pipe
  <1> QED
    BY <1>4, <1>5, <1>6, <1>7 DEF Conserved, newHeap, newOwner

\* The end of an entry followed by heap_push keeps every id in one place,
\* whatever the heap.
LEMMA GiveConserves ==
    ASSUME NEW Owners, NEW heap \in [Pipes -> SUBSET Ids], NEW owner \in [Owners -> Ids \cup {0}],
           NEW port \in Ports, NEW o \in Owners,
           owner[o] # 0,
           Conserved(heap, owner, Owners)
    PROVE  Conserved(HeapPush(heap, port, owner[o]), [owner EXCEPT ![o] = 0], Owners)
  <1> DEFINE pipe == dev_port_to_pipe(port)
             newHeap == HeapPush(heap, port, owner[o])
             newOwner == [owner EXCEPT ![o] = 0]
  <1>1. pipe \in Pipes
    BY PortPipe
  <1>2. \A p \in Pipes, i \in Ids : i \in newHeap[p] <=> i \in heap[p] \/ (p = pipe /\ i = owner[o])
    BY <1>1 DEF HeapPush
  <1>3. \A x \in Owners : newOwner[x] = IF x = o THEN 0 ELSE owner[x]
    OBVIOUS
  <1>t. newHeap \in [Pipes -> SUBSET Ids] /\ newOwner \in [Owners -> Ids \cup {0}]
    BY <1>1, IdFacts DEF HeapRemove, HeapPush
  <1> HIDE DEF pipe, newHeap, newOwner
  <1>4. \A i \in Ids : (\E p \in Pipes : i \in newHeap[p]) \/ (\E x \in Owners : newOwner[x] = i)
    BY <1>1, <1>2, <1>3 DEF Conserved
  <1>5. \A p, q \in Pipes : \A i \in Ids : i \in newHeap[p] /\ i \in newHeap[q] => p = q
    BY <1>2 DEF Conserved
  <1>6. \A x \in Owners, p \in Pipes : newOwner[x] \notin newHeap[p]
    <2> SUFFICES ASSUME NEW x \in Owners, NEW p \in Pipes, newOwner[x] \in newHeap[p] PROVE FALSE
      OBVIOUS
    <2>1. newOwner[x] \in Ids /\ x # o
      BY <1>3, <1>t, IdFacts
    <2>2. owner[x] \in Ids /\ owner[x] \in newHeap[p] /\ owner[x] # 0
      BY <2>1, <1>3, IdFacts
    <2>3. owner[x] \notin heap[p] /\ owner[x] # owner[o]
      BY <2>1, <2>2 DEF Conserved
    <2> QED
      BY <2>2, <2>3, <1>2
  <1>7. \A x, y \in Owners : newOwner[x] = newOwner[y] /\ newOwner[x] # 0 => x = y
    BY <1>3 DEF Conserved
  <1> QED
    BY <1>4, <1>5, <1>6, <1>7 DEF Conserved, newHeap, newOwner

------------------------------------------------------------------------------
(* Types *)

RingType == commands \in Seq(Command) /\ Len(commands) <= RingSize /\ dropped \in BOOLEAN

\* A put leaves commands in the ring, and never more than it has slots.
LEMMA PutType ==
    ASSUME RingType, NEW command \in Command, Put(command)
    PROVE  RingType'
  <1>1. CASE Room
    <2>1. commands' = Append(commands, command)
      BY <1>1 DEF Put
    <2>2. commands' \in Seq(Command) /\ Len(commands') = Len(commands) + 1
      BY <2>1 DEF RingType
    <2> QED
      BY <1>1, <2>2, RingSizeAssumption DEF RingType, Put, Room
  <1>2. CASE ~Room
    BY <1>2 DEF Put, RingType
  <1> QED
    BY <1>1, <1>2

\* Taking the oldest command leaves commands in the ring.
LEMMA GetType ==
    ASSUME RingType, NEW c, GetCommand(c)
    PROVE  RingType' /\ Head(commands) \in Command /\ Head(commands).command = c
  <1>1. commands # << >> /\ commands' = Tail(commands) /\ dropped' = dropped
    BY DEF GetCommand
  <1>2. commands' \in Seq(Command) /\ Len(commands') = Len(commands) - 1 /\ Head(commands) \in Command
    BY <1>1 DEF RingType
  <1> QED
    BY <1>1, <1>2, RingSizeAssumption DEF RingType, GetCommand

\* The types of what add_flow computes: the flow id, and the session id or 0.
LEMMA AddFacts ==
    ASSUME TypeOK, NEW tuple \in FiveTuples, NEW port \in Ports, CanAdd(tuple, port)
    PROVE  /\ SessionKey(tuple) \in SessionKeys
           /\ HeapPop(flow_id_heap[dev_port_to_pipe(port)]) \in flow_id_heap[dev_port_to_pipe(port)]
           /\ SessionKnown(tuple) =>
                 /\ SessionFor(tuple, port) = session_hashtable[SessionKey(tuple)]
                 /\ SessionFor(tuple, port) \in Ids
           /\ ~SessionKnown(tuple) /\ SessionFor(tuple, port) # 0 =>
                 SessionFor(tuple, port) \in session_id_heap[dev_port_to_pipe(port)]
  <1>1. dev_port_to_pipe(port) \in Pipes
    BY PortPipe
  <1>2. flow_id_heap[dev_port_to_pipe(port)] \in SUBSET Ids /\ session_id_heap[dev_port_to_pipe(port)] \in SUBSET Ids
    BY <1>1 DEF TypeOK
  <1>3. HeapPop(flow_id_heap[dev_port_to_pipe(port)]) \in flow_id_heap[dev_port_to_pipe(port)]
    BY <1>2, PopFact DEF CanAdd
  <1>4. SessionKey(tuple) \in SessionKeys
    BY DEF SessionKeys
  <1>5. ASSUME SessionKnown(tuple)
        PROVE  SessionFor(tuple, port) = session_hashtable[SessionKey(tuple)] /\ SessionFor(tuple, port) \in Ids
    BY <1>4, <1>5 DEF TypeOK, SessionFor, SessionKnown
  <1>6. ASSUME ~SessionKnown(tuple), SessionFor(tuple, port) # 0
        PROVE  SessionFor(tuple, port) \in session_id_heap[dev_port_to_pipe(port)]
    BY <1>2, <1>6, PopFact DEF SessionFor
  <1> QED
    BY <1>3, <1>4, <1>5, <1>6

\* add_flow keeps the types.
LEMMA AddFlowType ==
    ASSUME TypeOK, NEW tuple \in FiveTuples, NEW port \in Ports, AddFlow(tuple, port),
           UNCHANGED dataPlaneVars
    PROVE  TypeOK'
  <1> DEFINE pipe == dev_port_to_pipe(port)
             flow == HeapPop(flow_id_heap[pipe])
             session == SessionFor(tuple, port)
  <1>1. CanAdd(tuple, port) /\ session # 0 /\ AddSession(tuple, port, session)
    BY DEF AddFlow
  <1>2. pipe \in Pipes /\ flow \in Ids /\ session \in Ids /\ SessionKey(tuple) \in SessionKeys
    BY <1>1, AddFacts, PortPipe DEF TypeOK
  <1>3. RingType'
    <2>1. AddFlowCommand(tuple, port, flow, session) \in Command
      BY <1>2 DEF AddFlowCommand, Command
    <2> QED
      BY <2>1, PutType DEF AddFlow, TypeOK, RingType
  <1> HIDE DEF session
  <1>4. session_id_heap' \in [Pipes -> SUBSET Ids] /\ session_hashtable' \in [SessionKeys -> Ids \cup {0}]
    BY <1>1, <1>2 DEF AddSession, HeapRemove, TypeOK
  <1>5. flow_count' \in [Ids \cup {0} -> Int]
    BY <1>1, <1>2 DEF AddSession, TypeOK
  <1>a. \/ /\ flow_id_heap' = HeapRemove(flow_id_heap, port, flow)
           /\ flow_hashtable' = [flow_hashtable EXCEPT ![tuple] = [value |-> flow, port |-> port]]
        \/ UNCHANGED <<flow_id_heap, flow_hashtable>>
    BY DEF AddFlow
  <1>6. flow_id_heap' \in [Pipes -> SUBSET Ids]
    BY <1>2, <1>a DEF HeapRemove, TypeOK
  <1>7. flow_hashtable' \in [FiveTuples -> [value : Ids, port : Ports] \cup {Unoccupied}]
    BY <1>2, <1>a DEF TypeOK
  <1>8. UNCHANGED <<handler, entry_hdls>>
    BY DEF AddFlow, dataPlaneVars
  <1> QED
    BY <1>3, <1>4, <1>5, <1>6, <1>7, <1>8 DEF RingType, TypeOK

\* add_flow keeps the types when no session id is left.
LEMMA AddFlowWithoutSessionType ==
    ASSUME TypeOK, NEW tuple \in FiveTuples, NEW port \in Ports, AddFlowWithoutSession(tuple, port),
           UNCHANGED dataPlaneVars
    PROVE  TypeOK'
  <1>1. dev_port_to_pipe(port) \in Pipes /\ HeapPop(flow_id_heap[dev_port_to_pipe(port)]) \in Ids
    BY AddFacts, PortPipe DEF TypeOK, AddFlowWithoutSession
  <1> QED
    BY <1>1 DEF AddFlowWithoutSession, HeapRemove, TypeOK, ringVars, dataPlaneVars

\* Both removals keep the types.
LEMMA RemovalType ==
    ASSUME TypeOK, NEW tuple \in FiveTuples, NEW port \in Ports, NEW offset \in Int,
           NEW put \in {"put", "ensure_put"}, Known(tuple),
           StartRemoval(tuple, port, offset, put), UNCHANGED dataPlaneVars
    PROVE  TypeOK'
  <1>1. dev_port_to_pipe(port) \in Pipes
    BY PortPipe
  <1>2. flow_hashtable[tuple].value \in Ids
    BY DEF TypeOK, Known, Unoccupied
  <1> QED
    BY <1>1, <1>2 DEF StartRemoval, HeapPush, TypeOK, Removal, ringVars, dataPlaneVars

\* DP_REMOVE_FLOW keeps the types.
LEMMA SendRemoveType ==
    ASSUME TypeOK, SendRemove, UNCHANGED dataPlaneVars
    PROVE  TypeOK'
  <1>1. handler \in Removal
    BY DEF SendRemove, TypeOK, Idle
  <1>2. RemoveFlowCommand(handler.tuple, handler.flow) \in Command
    BY <1>1 DEF RemoveFlowCommand, Command, Removal
  <1>3. Put(RemoveFlowCommand(handler.tuple, handler.flow))
    BY DEF SendRemove, EnsurePut
  <1>4. RingType'
    BY <1>2, <1>3, PutType DEF TypeOK, RingType
  <1>5. handler' \in Removal
    BY <1>1 DEF SendRemove, Removal
  <1> QED
    BY <1>4, <1>5 DEF SendRemove, heaps, tables, dataPlaneVars, TypeOK, RingType

\* The end of a session keeps the types.
LEMMA RemoveSessionType ==
    ASSUME TypeOK, handler \in Removal, RemoveSession,
           flow_count' \in [Ids \cup {0} -> Int], UNCHANGED dataPlaneVars
    PROVE  TypeOK'
  <1> DEFINE key == SessionKey(handler.tuple)
  <1>1. key \in SessionKeys /\ handler.port \in Ports /\ handler.offset \in Int
    BY DEF SessionKeys, Removal
  <1>2. session_hashtable[key] \in Ids
    BY <1>1 DEF RemoveSession, TypeOK
  <1>3. dev_port_to_pipe(handler.port) \in Pipes
    BY <1>1, PortPipe
  <1>4. RingType'
    <2>1. ClearRegistersCommand(session_hashtable[key], handler.offset) \in Command
      BY <1>1, <1>2 DEF ClearRegistersCommand, Command
    <2> QED
      BY <2>1, PutType DEF RemoveSession, TypeOK, RingType
  <1>5. session_hashtable' \in [SessionKeys -> Ids \cup {0}] /\ session_id_heap' \in [Pipes -> SUBSET Ids]
    BY <1>1, <1>2, <1>3 DEF RemoveSession, HeapPush, TypeOK
  <1> QED
    BY <1>4, <1>5 DEF RemoveSession, dataPlaneVars, TypeOK, RingType

\* session_cleanup_after_flow_remove keeps the types.
LEMMA CleanupType ==
    ASSUME TypeOK, CleanupFlow \/ (\E value \in Ids \cup {0} : CleanupSession(value)),
           UNCHANGED dataPlaneVars
    PROVE  TypeOK'
  <1>1. handler \in Removal
    BY DEF CleanupFlow, CleanupSession, TypeOK, Idle
  <1>2. flow_count' \in [Ids \cup {0} -> Int]
    <2>1. CASE CleanupFlow
      BY <2>1 DEF CleanupFlow, TypeOK
    <2>2. ASSUME NEW value \in Ids \cup {0}, CleanupSession(value) PROVE flow_count' \in [Ids \cup {0} -> Int]
      <3>1. flow_count' = [flow_count EXCEPT ![value] = @ - 1]
        BY <2>2 DEF CleanupSession
      <3> QED
        BY <3>1 DEF TypeOK
    <2> QED
      BY <2>1, <2>2
  <1>3. CASE RemoveSession
    BY <1>1, <1>2, <1>3, RemoveSessionType
  <1>4. CASE KeepSession
    BY <1>2, <1>4 DEF KeepSession, heaps, ringVars, dataPlaneVars, TypeOK
  <1> QED
    BY <1>3, <1>4 DEF CleanupFlow, CleanupSession

\* dataplane_thread keeps the types.
LEMMA DataPlaneType ==
    ASSUME TypeOK, DataPlaneStep, UNCHANGED flowVars
    PROVE  TypeOK'
  <1>1. RingType
    BY DEF TypeOK, RingType
  <1>2. ASSUME NEW handle \in Handles, InstallFlow(handle) PROVE RingType' /\ entry_hdls' \in [Ids -> Nat]
    <2>1. handle[2] \in Nat
      BY <1>2, PipesAssumption, TableSizeAssumption DEF Handles, Numbers, Protocols
    <2> QED
      BY <1>1, <1>2, <2>1, GetType DEF InstallFlow, TypeOK
  <1>3. ASSUME RejectFlow \/ UninstallFlow \/ ClearRegisters \/ WriteBloomFilter
        PROVE  RingType' /\ entry_hdls' \in [Ids -> Nat]
    BY <1>1, <1>3, GetType DEF RejectFlow, UninstallFlow, ClearRegisters, WriteBloomFilter, dataPlaneVars, TypeOK
  <1>4. RingType' /\ entry_hdls' \in [Ids -> Nat]
    BY <1>2, <1>3 DEF DataPlaneStep
  <1> QED
    BY <1>4 DEF flowVars, RingType, TypeOK

\* Every step keeps the types.
LEMMA NextType == TypeOK /\ [Next]_vars => TypeOK'
  <1> SUFFICES ASSUME TypeOK, [Next]_vars PROVE TypeOK'
    OBVIOUS
  <1>1. ASSUME FlowDBStep, UNCHANGED dataPlaneVars PROVE TypeOK'
    <2>1. ASSUME NEW tuple \in FiveTuples, NEW port \in Ports, AddFlow(tuple, port) PROVE TypeOK'
      BY <1>1, <2>1, AddFlowType
    <2>2. ASSUME NEW tuple \in FiveTuples, NEW port \in Ports, AddFlowWithoutSession(tuple, port) PROVE TypeOK'
      BY <1>1, <2>2, AddFlowWithoutSessionType
    <2>3. ASSUME NEW tuple \in FiveTuples, NEW port \in Ports, NEW offset \in Garbage,
                 RemoveFlowByFiveTuple(tuple, port, offset)
          PROVE  TypeOK'
      BY <1>1, <2>3, RemovalType, GarbageAssumption DEF RemoveFlowByFiveTuple
    <2>4. ASSUME NEW tuple \in FiveTuples, RemoveFlowByFlowId(tuple) PROVE TypeOK'
      <3>1. flow_hashtable[tuple].port \in Ports
        BY <2>4 DEF TypeOK, RemoveFlowByFlowId, Known, Unoccupied
      <3>2. EgressOffset(flow_hashtable[tuple].port) \in Int
        BY <3>1, OffsetType
      <3> QED
        BY <1>1, <2>4, <3>1, <3>2, RemovalType DEF RemoveFlowByFlowId
    <2>5. CASE SendRemove
      BY <1>1, <2>5, SendRemoveType
    <2>6. CASE CleanupFlow \/ \E value \in Ids \cup {0} : CleanupSession(value)
      BY <1>1, <2>6, CleanupType
    <2> QED
      BY <1>1, <2>1, <2>2, <2>3, <2>4, <2>5, <2>6 DEF FlowDBStep
  <1>2. CASE DataPlaneStep /\ UNCHANGED flowVars
    BY <1>2, DataPlaneType
  <1>3. CASE PutBloomFilter
    <2>1. RingType'
      BY <1>3, PutType DEF PutBloomFilter, Command, TypeOK, RingType
    <2> QED
      BY <1>3, <2>1 DEF PutBloomFilter, TypeOK, RingType, flowVars, dataPlaneVars
  <1>4. CASE UNCHANGED vars
    BY <1>4 DEF vars, ringVars, flowVars, dataPlaneVars, TypeOK
  <1> QED
    BY <1>1, <1>2, <1>3, <1>4 DEF Next

LEMMA InitType == Init => TypeOK
  <1>1. \A pipe \in Pipes : IdsOf(pipe) \subseteq Ids
    BY DEF Ids
  <1>2. << >> \in Seq(Command) /\ Len(<< >>) = 0
    OBVIOUS
  <1> SUFFICES ASSUME Init PROVE TypeOK
    OBVIOUS
  <1>3. commands = << >> /\ dropped = FALSE
    BY DEF Init, RingInit
  <1>4. commands \in Seq(Command) /\ Len(commands) <= RingSize
    BY <1>2, <1>3, RingSizeAssumption
  <1>5. /\ flow_id_heap \in [Pipes -> SUBSET Ids]
        /\ session_id_heap \in [Pipes -> SUBSET Ids]
    BY <1>1 DEF Init, FlowDBInit
  <1>6. flow_hashtable \in [FiveTuples -> [value : Ids, port : Ports] \cup {Unoccupied}]
    BY DEF Init, FlowDBInit
  <1>7. session_hashtable \in [SessionKeys -> Ids \cup {0}] /\ flow_count \in [Ids \cup {0} -> Int]
    BY DEF Init, FlowDBInit
  <1>8. handler \in Removal \cup {Idle} /\ entry_hdls \in [Ids -> Nat]
    BY DEF Init, FlowDBInit, DataPlaneInit
  <1> QED
    BY <1>3, <1>4, <1>5, <1>6, <1>7, <1>8 DEF TypeOK

\* TypeOK holds in every reachable state.
THEOREM ControllerTypeCorrect == Spec => []TypeOK
  BY InitType, NextType, PTL DEF Spec

------------------------------------------------------------------------------
(* Ids are conserved *)

\* FlowIdOf maps every five tuple to its flow id, or 0.
LEMMA FlowIdOfType ==
    TypeOK => /\ FlowIdOf \in [FiveTuples -> Ids \cup {0}]
              /\ \A tuple \in FiveTuples : FlowIdOf[tuple] = flow_hashtable[tuple].value
  BY DEF TypeOK, FlowIdOf, Unoccupied

\* add_flow moves the flow id from its heap to the flow's entry, or leaves both.
LEMMA AddConservesFlowIds ==
    ASSUME TypeOK, IdsConserved, NEW tuple \in FiveTuples, NEW port \in Ports,
           CanAdd(tuple, port),
           NEW flow, flow = HeapPop(flow_id_heap[dev_port_to_pipe(port)]),
           flow_id_heap' = HeapRemove(flow_id_heap, port, flow),
           flow_hashtable' = [flow_hashtable EXCEPT ![tuple] = [value |-> flow, port |-> port]]
    PROVE  Conserved(flow_id_heap, FlowIdOf, FiveTuples)'
  <1>1. flow \in flow_id_heap[dev_port_to_pipe(port)]
    BY AddFacts
  <1>2. FlowIdOf[tuple] = 0
    BY DEF CanAdd, Known, FlowIdOf
  <1>3. FlowIdOf' = [FlowIdOf EXCEPT ![tuple] = flow]
    BY DEF FlowIdOf, TypeOK
  <1>4. Conserved(HeapRemove(flow_id_heap, port, flow), [FlowIdOf EXCEPT ![tuple] = flow], FiveTuples)
    BY <1>1, <1>2, FlowIdOfType, TakeConserves DEF IdsConserved, TypeOK
  <1> QED
    BY <1>3, <1>4 DEF Conserved

\* add_flow moves a session id from its heap to a new session's entry, or finds
\* the session's id.
LEMMA AddConservesSessionIds ==
    ASSUME TypeOK, IdsConserved, NEW tuple \in FiveTuples, NEW port \in Ports,
           CanAdd(tuple, port), SessionFor(tuple, port) # 0,
           AddSession(tuple, port, SessionFor(tuple, port))
    PROVE  Conserved(session_id_heap, session_hashtable, SessionKeys)'
  <1> DEFINE key == SessionKey(tuple)
             session == SessionFor(tuple, port)
  <1>1. CASE SessionKnown(tuple)
    <2>1. session = session_hashtable[key] /\ key \in SessionKeys
      BY <1>1, AddFacts
    <2>2. UNCHANGED <<session_id_heap, session_hashtable>>
      BY <1>1, <2>1 DEF AddSession, TypeOK
    <2> QED
      BY <2>2 DEF IdsConserved, Conserved
  <1>2. CASE ~SessionKnown(tuple)
    <2>1. key \in SessionKeys /\ session \in session_id_heap[dev_port_to_pipe(port)]
      BY <1>2, AddFacts
    <2>2. session_hashtable[key] = 0
      BY <1>2 DEF SessionKnown
    <2>3. Conserved(HeapRemove(session_id_heap, port, session), [session_hashtable EXCEPT ![key] = session], SessionKeys)
      BY <2>1, <2>2, TakeConserves DEF IdsConserved, TypeOK
    <2>4. /\ session_id_heap' = HeapRemove(session_id_heap, port, session)
          /\ session_hashtable' = [session_hashtable EXCEPT ![key] = session]
      BY <1>2 DEF AddSession
    <2> QED
      BY <2>3, <2>4 DEF Conserved
  <1> QED
    BY <1>1, <1>2

\* A removal gives the flow id back to a heap.
LEMMA RemovalConserves ==
    ASSUME TypeOK, IdsConserved, NEW tuple \in FiveTuples, NEW port \in Ports, NEW offset, NEW put,
           Known(tuple), StartRemoval(tuple, port, offset, put)
    PROVE  IdsConserved'
  <1>1. FlowIdOf[tuple] # 0 /\ FlowIdOf[tuple] = flow_hashtable[tuple].value
    BY DEF Known, FlowIdOf
  <1>2. FlowIdOf' = [FlowIdOf EXCEPT ![tuple] = 0]
    BY DEF StartRemoval, FlowIdOf, TypeOK, Unoccupied
  <1>3. Conserved(HeapPush(flow_id_heap, port, FlowIdOf[tuple]), [FlowIdOf EXCEPT ![tuple] = 0], FiveTuples)
    BY <1>1, FlowIdOfType, GiveConserves DEF IdsConserved, TypeOK
  <1>4. Conserved(flow_id_heap, FlowIdOf, FiveTuples)'
    BY <1>1, <1>2, <1>3 DEF StartRemoval, Conserved
  <1>5. Conserved(session_id_heap, session_hashtable, SessionKeys)'
    BY DEF StartRemoval, IdsConserved, Conserved
  <1> QED
    BY <1>4, <1>5 DEF IdsConserved

\* The end of a session gives the session id back to a heap.
LEMMA RemoveSessionConserves ==
    ASSUME TypeOK, IdsConserved, handler \in Removal, RemoveSession
    PROVE  IdsConserved'
  <1> DEFINE key == SessionKey(handler.tuple)
  <1>1. key \in SessionKeys /\ handler.port \in Ports /\ session_hashtable[key] # 0
    BY DEF SessionKeys, Removal, RemoveSession
  <1>2. Conserved(HeapPush(session_id_heap, handler.port, session_hashtable[key]),
                  [session_hashtable EXCEPT ![key] = 0], SessionKeys)
    BY <1>1, GiveConserves DEF IdsConserved, TypeOK
  <1>3. Conserved(session_id_heap, session_hashtable, SessionKeys)'
    BY <1>2 DEF RemoveSession, Conserved
  <1>4. Conserved(flow_id_heap, FlowIdOf, FiveTuples)'
    BY DEF RemoveSession, IdsConserved, Conserved, FlowIdOf
  <1> QED
    BY <1>3, <1>4 DEF IdsConserved

\* A step that touches neither heaps nor tables conserves the ids.
LEMMA StutterConserves ==
    IdsConserved /\ UNCHANGED <<flow_id_heap, session_id_heap, flow_hashtable, session_hashtable>> => IdsConserved'
  BY DEF IdsConserved, Conserved, FlowIdOf

\* Every step conserves the ids.
LEMMA NextConserves == TypeOK /\ IdsConserved /\ [Next]_vars => IdsConserved'
  <1> SUFFICES ASSUME TypeOK, IdsConserved, [Next]_vars PROVE IdsConserved'
    OBVIOUS
  <1>1. ASSUME FlowDBStep PROVE IdsConserved'
    <2>1. ASSUME NEW tuple \in FiveTuples, NEW port \in Ports, AddFlow(tuple, port) PROVE IdsConserved'
      <3>1. CanAdd(tuple, port) /\ SessionFor(tuple, port) # 0 /\ AddSession(tuple, port, SessionFor(tuple, port))
        BY <2>1 DEF AddFlow
      <3>2. Conserved(session_id_heap, session_hashtable, SessionKeys)'
        BY <3>1, AddConservesSessionIds
      <3>3. CASE Room
        <4>1. Conserved(flow_id_heap, FlowIdOf, FiveTuples)'
          BY <2>1, <3>1, <3>3, AddConservesFlowIds DEF AddFlow
        <4> QED
          BY <3>2, <4>1 DEF IdsConserved
      <3>4. CASE ~Room
        <4>1. UNCHANGED <<flow_id_heap, flow_hashtable>>
          BY <2>1, <3>4 DEF AddFlow
        <4>2. Conserved(flow_id_heap, FlowIdOf, FiveTuples)'
          BY <4>1 DEF IdsConserved, Conserved, FlowIdOf
        <4> QED
          BY <3>2, <4>2 DEF IdsConserved
      <3> QED
        BY <3>3, <3>4
    <2>2. ASSUME NEW tuple \in FiveTuples, NEW port \in Ports, AddFlowWithoutSession(tuple, port) PROVE IdsConserved'
      <3>1. Conserved(flow_id_heap, FlowIdOf, FiveTuples)'
        BY <2>2, AddConservesFlowIds DEF AddFlowWithoutSession
      <3>2. Conserved(session_id_heap, session_hashtable, SessionKeys)'
        BY <2>2 DEF AddFlowWithoutSession, IdsConserved, Conserved
      <3> QED
        BY <3>1, <3>2 DEF IdsConserved
    <2>3. ASSUME NEW tuple \in FiveTuples, NEW port \in Ports, NEW offset \in Garbage,
                 RemoveFlowByFiveTuple(tuple, port, offset)
          PROVE  IdsConserved'
      BY <2>3, RemovalConserves DEF RemoveFlowByFiveTuple
    <2>4. ASSUME NEW tuple \in FiveTuples, RemoveFlowByFlowId(tuple) PROVE IdsConserved'
      <3>1. flow_hashtable[tuple].port \in Ports
        BY <2>4 DEF TypeOK, RemoveFlowByFlowId, Known, Unoccupied
      <3> QED
        BY <2>4, <3>1, RemovalConserves DEF RemoveFlowByFlowId
    <2>5. CASE SendRemove
      BY <2>5, StutterConserves DEF SendRemove, heaps, tables
    <2>6. CASE CleanupFlow \/ \E value \in Ids \cup {0} : CleanupSession(value)
      <3>1. handler \in Removal
        BY <2>6 DEF CleanupFlow, CleanupSession, TypeOK, Idle
      <3>2. CASE RemoveSession
        BY <3>1, <3>2, RemoveSessionConserves
      <3>3. CASE KeepSession
        BY <3>3, StutterConserves DEF KeepSession, heaps
      <3> QED
        BY <2>6, <3>2, <3>3 DEF CleanupFlow, CleanupSession
    <2> QED
      BY <1>1, <2>1, <2>2, <2>3, <2>4, <2>5, <2>6 DEF FlowDBStep
  <1>2. CASE UNCHANGED flowVars
    BY <1>2, StutterConserves DEF flowVars
  <1> QED
    BY <1>1, <1>2 DEF Next, PutBloomFilter, vars

\* The heaps start with every id, the tables without any.
LEMMA InitConserves == Init => IdsConserved
  <1> SUFFICES ASSUME Init PROVE IdsConserved
    OBVIOUS
  <1>1. \A id \in Ids : \E pipe \in Pipes : id \in IdsOf(pipe)
    BY DEF Ids
  <1>2. \A p, q \in Pipes : \A id \in Ids : id \in IdsOf(p) /\ id \in IdsOf(q) => p = q
    BY IdFacts
  <1>3. \A pipe \in Pipes : 0 \notin IdsOf(pipe)
    BY IdFacts
  <1>4. /\ \A pipe \in Pipes : flow_id_heap[pipe] = IdsOf(pipe) /\ session_id_heap[pipe] = IdsOf(pipe)
        /\ \A tuple \in FiveTuples : FlowIdOf[tuple] = 0
        /\ \A key \in SessionKeys : session_hashtable[key] = 0
    BY DEF Init, FlowDBInit, FlowIdOf, Unoccupied
  <1>5. Conserved(flow_id_heap, FlowIdOf, FiveTuples)
    BY <1>1, <1>2, <1>3, <1>4 DEF Conserved
  <1>6. Conserved(session_id_heap, session_hashtable, SessionKeys)
    BY <1>1, <1>2, <1>3, <1>4 DEF Conserved
  <1> QED
    BY <1>5, <1>6 DEF IdsConserved

\* No flow id and no session id is ever lost, duplicated or shared, with or
\* without sessions, whatever the ring size and on whichever ports packets
\* arrive.
THEOREM IdsNeverLost == Spec => []IdsConserved
  <1>1. TypeOK /\ IdsConserved /\ TypeOK' /\ [Next]_vars => IdsConserved'
    BY NextConserves
  <1> QED
    BY <1>1, InitConserves, ControllerTypeCorrect, PTL DEF Spec

------------------------------------------------------------------------------
(* Flow and session ids run in lockstep *)

\* Without sessions and without refused commands the two heaps hold the same
\* ids, except between the two halves of a removal.
LockstepInv ==
    /\ IdsInLockstep
    /\ ~UseSessions /\ ~dropped =>
          IF handler = Idle THEN flow_id_heap = session_id_heap
          ELSE flow_id_heap = HeapPush(session_id_heap, handler.port, handler.flow)

\* Without sessions the session table is keyed by the five tuple.
LEMMA KeysWithoutSessions ==
    ASSUME ~UseSessions
    PROVE  SessionKeys = FiveTuples /\ \A tuple \in FiveTuples : SessionKey(tuple) = tuple
  BY DEF SessionKeys, SessionKey

\* add_flow pops the same id from both heaps.
LEMMA AddFlowLockstep ==
    ASSUME TypeOK, LockstepInv, ~UseSessions, ~dropped', NEW tuple \in FiveTuples, NEW port \in Ports,
           AddFlow(tuple, port)
    PROVE  LockstepInv'
  <1> DEFINE flow == HeapPop(flow_id_heap[dev_port_to_pipe(port)])
             session == SessionFor(tuple, port)
  <1>1. CanAdd(tuple, port) /\ handler = Idle /\ handler' = Idle /\ ~Known(tuple)
    BY DEF AddFlow, CanAdd
  <1>2. Room /\ ~dropped
    BY DEF AddFlow, Put
  <1>3. flow_id_heap = session_id_heap /\ \A t \in FiveTuples : session_hashtable[t] = flow_hashtable[t].value
    BY <1>1, <1>2 DEF LockstepInv, IdsInLockstep
  <1>4. ~SessionKnown(tuple) /\ session = flow /\ SessionKey(tuple) = tuple
    BY <1>1, <1>3, KeysWithoutSessions DEF SessionKnown, Known, SessionFor
  <1>5. /\ flow_id_heap' = HeapRemove(flow_id_heap, port, flow)
        /\ session_id_heap' = HeapRemove(session_id_heap, port, flow)
        /\ session_hashtable' = [session_hashtable EXCEPT ![tuple] = flow]
        /\ flow_hashtable' = [flow_hashtable EXCEPT ![tuple] = [value |-> flow, port |-> port]]
    BY <1>2, <1>4 DEF AddFlow, AddSession
  <1>6. session_hashtable \in [FiveTuples -> Ids \cup {0}]
    BY KeysWithoutSessions DEF TypeOK
  <1>7. \A t \in FiveTuples : session_hashtable'[t] = flow_hashtable'[t].value
    BY <1>3, <1>5, <1>6 DEF TypeOK
  <1>8. flow_id_heap' = session_id_heap'
    BY <1>3, <1>5
  <1> QED
    BY <1>1, <1>7, <1>8 DEF LockstepInv, IdsInLockstep

\* In lockstep add_flow never runs out of session ids before flow ids.
LEMMA SessionIdsSuffice ==
    ASSUME TypeOK, LockstepInv, ~UseSessions, ~dropped, NEW tuple \in FiveTuples, NEW port \in Ports,
           AddFlowWithoutSession(tuple, port)
    PROVE  FALSE
  <1>1. CanAdd(tuple, port) /\ handler = Idle /\ ~Known(tuple) /\ SessionFor(tuple, port) = 0
    BY DEF AddFlowWithoutSession, CanAdd
  <1>2. flow_id_heap = session_id_heap /\ session_hashtable[tuple] = flow_hashtable[tuple].value
    BY <1>1 DEF LockstepInv, IdsInLockstep
  <1>3. SessionFor(tuple, port) = HeapPop(flow_id_heap[dev_port_to_pipe(port)])
    BY <1>1, <1>2, KeysWithoutSessions DEF SessionKnown, Known, SessionFor
  <1>4. HeapPop(flow_id_heap[dev_port_to_pipe(port)]) \in Ids
    BY <1>1, AddFacts, PortPipe DEF TypeOK
  <1> QED
    BY <1>1, <1>3, <1>4, IdFacts

\* The first half of a removal puts the flow ahead of its session.
LEMMA RemovalLockstep ==
    ASSUME TypeOK, LockstepInv, ~UseSessions, ~dropped, NEW tuple \in FiveTuples, NEW port, NEW offset, NEW put,
           handler = Idle, Known(tuple), StartRemoval(tuple, port, offset, put)
    PROVE  LockstepInv'
  <1>1. flow_id_heap = session_id_heap /\ \A t \in FiveTuples : session_hashtable[t] = flow_hashtable[t].value
    BY DEF LockstepInv, IdsInLockstep
  <1>2. /\ flow_id_heap' = HeapPush(flow_id_heap, port, flow_hashtable[tuple].value)
        /\ flow_hashtable' = [flow_hashtable EXCEPT ![tuple] = Unoccupied]
        /\ session_id_heap' = session_id_heap /\ session_hashtable' = session_hashtable
    BY DEF StartRemoval
  <1>3. /\ handler' # Idle
        /\ handler'.tuple = tuple /\ handler'.port = port /\ handler'.flow = flow_hashtable[tuple].value
    BY DEF StartRemoval, Idle
  <1>4. \A t \in FiveTuples : flow_hashtable'[t].value = IF t = tuple THEN 0 ELSE flow_hashtable[t].value
    BY <1>2 DEF TypeOK, Unoccupied
  <1>5. IdsInLockstep'
    BY <1>1, <1>2, <1>3, <1>4 DEF IdsInLockstep, Known
  <1>6. flow_id_heap' = HeapPush(session_id_heap', handler'.port, handler'.flow)
    BY <1>1, <1>2, <1>3 DEF HeapPush
  <1> QED
    BY <1>3, <1>5, <1>6 DEF LockstepInv, HeapPush

\* The second half lets its session catch up.
LEMMA CleanupLockstep ==
    ASSUME TypeOK, LockstepInv, ~UseSessions, ~dropped', CleanupFlow
    PROVE  LockstepInv'
  <1>1. handler \in Removal /\ handler # Idle
    BY DEF CleanupFlow, TypeOK, Idle
  <1>2. handler.tuple \in FiveTuples /\ handler.flow \in Ids
    BY <1>1 DEF Removal
  <1>3. ~dropped
    BY DEF CleanupFlow, RemoveSession, KeepSession, Put, ringVars
  <1>4. /\ flow_id_heap = HeapPush(session_id_heap, handler.port, handler.flow)
        /\ flow_hashtable[handler.tuple].value = 0
        /\ session_hashtable[handler.tuple] = handler.flow
        /\ \A t \in FiveTuples \ {handler.tuple} : session_hashtable[t] = flow_hashtable[t].value
    BY <1>1, <1>2, <1>3 DEF LockstepInv, IdsInLockstep, Known
  <1>5. SessionKey(handler.tuple) = handler.tuple /\ handler.flow # 0
    BY <1>2, KeysWithoutSessions, IdFacts
  <1>6. RemoveSession
    BY <1>4, <1>5 DEF CleanupFlow, SessionKnown
  <1>7. /\ session_hashtable' = [session_hashtable EXCEPT ![handler.tuple] = 0]
        /\ session_id_heap' = flow_id_heap
        /\ handler' = Idle
        /\ flow_id_heap' = flow_id_heap /\ flow_hashtable' = flow_hashtable
    BY <1>4, <1>5, <1>6 DEF RemoveSession
  <1>8. session_hashtable \in [FiveTuples -> Ids \cup {0}]
    BY KeysWithoutSessions DEF TypeOK
  <1>9. \A t \in FiveTuples : session_hashtable'[t] = flow_hashtable'[t].value
    BY <1>4, <1>7, <1>8
  <1> QED
    BY <1>7, <1>9 DEF LockstepInv, IdsInLockstep

\* A step that leaves heaps, tables and the handler's arguments alone keeps the
\* lockstep.
LEMMA StutterLockstep ==
    ASSUME LockstepInv,
           ~dropped' => ~dropped,
           UNCHANGED <<flow_id_heap, session_id_heap, flow_hashtable, session_hashtable>>,
           \/ UNCHANGED handler
           \/ /\ handler # Idle /\ handler' # Idle
              /\ handler'.tuple = handler.tuple /\ handler'.port = handler.port /\ handler'.flow = handler.flow
    PROVE  LockstepInv'
  <1> USE DEF LockstepInv, IdsInLockstep, Known, HeapPush
  <1>1. CASE UNCHANGED handler
    BY <1>1
  <1>2. CASE /\ handler # Idle /\ handler' # Idle
             /\ handler'.tuple = handler.tuple /\ handler'.port = handler.port /\ handler'.flow = handler.flow
    BY <1>2
  <1> QED
    BY <1>1, <1>2

\* Every step keeps the lockstep.
LEMMA NextLockstep == TypeOK /\ LockstepInv /\ [Next]_vars => LockstepInv'
  <1> SUFFICES ASSUME TypeOK, LockstepInv, [Next]_vars PROVE LockstepInv'
    OBVIOUS
  <1>1. CASE UseSessions \/ dropped'
    BY <1>1 DEF LockstepInv, IdsInLockstep
  <1>2. ASSUME ~UseSessions, ~dropped', FlowDBStep PROVE LockstepInv'
    <2>1. ASSUME NEW tuple \in FiveTuples, NEW port \in Ports, AddFlow(tuple, port) PROVE LockstepInv'
      BY <1>2, <2>1, AddFlowLockstep
    <2>2. ASSUME NEW tuple \in FiveTuples, NEW port \in Ports, AddFlowWithoutSession(tuple, port) PROVE LockstepInv'
      BY <1>2, <2>2, SessionIdsSuffice DEF AddFlowWithoutSession, ringVars
    <2>3. ASSUME NEW tuple \in FiveTuples, NEW port, NEW offset, NEW put, handler = Idle, Known(tuple),
                 StartRemoval(tuple, port, offset, put)
          PROVE  LockstepInv'
      BY <1>2, <2>3, RemovalLockstep DEF StartRemoval, ringVars
    <2>4. CASE SendRemove
      <3>1. handler \in Removal /\ handler # Idle
        BY <2>4 DEF SendRemove, TypeOK, Idle
      <3>2. /\ handler' # Idle
            /\ handler'.tuple = handler.tuple /\ handler'.port = handler.port /\ handler'.flow = handler.flow
        BY <2>4, <3>1 DEF SendRemove, Removal, Idle
      <3>3. ~dropped' => ~dropped
        BY <2>4 DEF SendRemove, Put, EnsurePut
      <3> QED
        BY <2>4, <3>1, <3>2, <3>3, StutterLockstep DEF SendRemove, heaps, tables
    <2>5. CASE CleanupFlow
      BY <1>2, <2>5, CleanupLockstep
    <2>6. ASSUME NEW value \in Ids \cup {0}, CleanupSession(value) PROVE LockstepInv'
      BY <1>2, <2>6 DEF CleanupSession
    <2>7. ASSUME NEW tuple \in FiveTuples, NEW port \in Ports, NEW offset \in Garbage,
                 RemoveFlowByFiveTuple(tuple, port, offset)
          PROVE  LockstepInv'
      BY <2>3, <2>7 DEF RemoveFlowByFiveTuple
    <2>8. ASSUME NEW tuple \in FiveTuples, RemoveFlowByFlowId(tuple) PROVE LockstepInv'
      BY <2>3, <2>8 DEF RemoveFlowByFlowId
    <2> QED
      BY <1>2, <2>1, <2>2, <2>4, <2>5, <2>6, <2>7, <2>8 DEF FlowDBStep
  <1>3. ASSUME DataPlaneStep, UNCHANGED flowVars PROVE LockstepInv'
    <2>1. UNCHANGED dropped
      BY <1>3 DEF DataPlaneStep, InstallFlow, RejectFlow, UninstallFlow, ClearRegisters, WriteBloomFilter, GetCommand
    <2> QED
      BY <1>3, <2>1, StutterLockstep DEF flowVars
  <1>4. CASE PutBloomFilter
    BY <1>4, StutterLockstep DEF PutBloomFilter, Put, flowVars
  <1>5. CASE UNCHANGED vars
    BY <1>5, StutterLockstep DEF vars, ringVars, flowVars
  <1> QED
    BY <1>1, <1>2, <1>3, <1>4, <1>5 DEF Next

LEMMA InitLockstep == Init => LockstepInv
  <1> SUFFICES ASSUME Init, ~UseSessions PROVE LockstepInv
    BY DEF LockstepInv, IdsInLockstep
  <1>1. handler = Idle /\ flow_id_heap = session_id_heap
    BY DEF Init, FlowDBInit
  <1>2. \A tuple \in FiveTuples : session_hashtable[tuple] = 0 /\ flow_hashtable[tuple].value = 0
    BY KeysWithoutSessions DEF Init, FlowDBInit, Unoccupied
  <1> QED
    BY <1>1, <1>2 DEF LockstepInv, IdsInLockstep

\* The session id that features.c sends as a flow id is that flow's id: without
\* sessions, and until a command is refused, the two are the same number.
THEOREM TimeoutsNameTheirFlow == Spec => []IdsInLockstep
  <1>1. LockstepInv => IdsInLockstep
    BY DEF LockstepInv
  <1> QED
    BY <1>1, InitLockstep, NextLockstep, ControllerTypeCorrect, PTL DEF Spec

------------------------------------------------------------------------------
(* Ids stay on their pipe, if flows do *)

\* The packets of a session arrive on ports of one pipe.
StableArrivals ==
    \A t1, t2 \in FiveTuples : SessionKey(t1) = SessionKey(t2) =>
        \A p \in Arrivals[t1], q \in Arrivals[t2] : dev_port_to_pipe(p) = dev_port_to_pipe(q)

\* A flow's entry and the removal at work hold one of the flow's ports, and a
\* session's id is of the pipe of its flows.
PipeInv ==
    /\ IdShowsPipe
    /\ \A tuple \in FiveTuples : Known(tuple) => flow_hashtable[tuple].port \in Arrivals[tuple]
    /\ \A tuple \in FiveTuples : SessionKnown(tuple) =>
          \A port \in Arrivals[tuple] :
              flow_id_to_pipe(session_hashtable[SessionKey(tuple)]) = dev_port_to_pipe(port)
    /\ handler # Idle => handler.port \in Arrivals[handler.tuple]

\* Every heap holds ids of its pipe only.
OnPipe(heap) == \A pipe \in Pipes : \A i \in heap[pipe] : flow_id_to_pipe(i) = pipe

\* An id taken from a heap, or returned to the heap of its pipe, leaves every
\* heap with ids of its pipe.
LEMMA HeapPipes ==
    ASSUME NEW heap \in [Pipes -> SUBSET Ids], NEW port \in Ports, NEW id \in Ids,
           OnPipe(heap)
    PROVE  /\ OnPipe(HeapRemove(heap, port, id))
           /\ flow_id_to_pipe(id) = dev_port_to_pipe(port) => OnPipe(HeapPush(heap, port, id))
  BY PortPipe DEF HeapRemove, HeapPush, OnPipe

\* The parts of IdShowsPipe for one table and its heap.
FlowsOnPipe ==
    /\ \A tuple \in FiveTuples : Known(tuple) =>
          /\ flow_hashtable[tuple].port \in Arrivals[tuple]
          /\ flow_id_to_pipe(flow_hashtable[tuple].value) = dev_port_to_pipe(flow_hashtable[tuple].port)
    /\ OnPipe(flow_id_heap)

SessionsOnPipe ==
    /\ \A tuple \in FiveTuples : SessionKnown(tuple) =>
          \A port \in Arrivals[tuple] :
              flow_id_to_pipe(session_hashtable[SessionKey(tuple)]) = dev_port_to_pipe(port)
    /\ OnPipe(session_id_heap)

\* PipeInv is the conjunction of its parts.
LEMMA PipeParts ==
    PipeInv <=> FlowsOnPipe /\ SessionsOnPipe /\ (handler # Idle => handler.port \in Arrivals[handler.tuple])
  BY DEF PipeInv, FlowsOnPipe, SessionsOnPipe, OnPipe, IdShowsPipe

\* A new flow gets an id of the pipe of its port.
LEMMA AddFlowOnPipe ==
    ASSUME TypeOK, FlowsOnPipe, NEW tuple \in FiveTuples, NEW port \in Ports, CanAdd(tuple, port),
           NEW flow, flow = HeapPop(flow_id_heap[dev_port_to_pipe(port)]),
           flow_id_heap' = HeapRemove(flow_id_heap, port, flow),
           flow_hashtable' = [flow_hashtable EXCEPT ![tuple] = [value |-> flow, port |-> port]]
    PROVE  FlowsOnPipe'
  <1>1. flow \in flow_id_heap[dev_port_to_pipe(port)] /\ dev_port_to_pipe(port) \in Pipes
    BY AddFacts, PortPipe
  <1>2. flow \in Ids /\ flow_id_to_pipe(flow) = dev_port_to_pipe(port) /\ port \in Arrivals[tuple]
    BY <1>1 DEF FlowsOnPipe, OnPipe, TypeOK, CanAdd
  <1>3. \A t \in FiveTuples :
           flow_hashtable'[t] = IF t = tuple THEN [value |-> flow, port |-> port] ELSE flow_hashtable[t]
    BY DEF TypeOK
  <1>4. OnPipe(flow_id_heap')
    BY <1>2, HeapPipes DEF FlowsOnPipe, TypeOK
  <1> QED
    BY <1>2, <1>3, <1>4 DEF FlowsOnPipe, Known

\* A new session gets an id of the pipe all its packets arrive on.
LEMMA AddSessionOnPipe ==
    ASSUME StableArrivals, TypeOK, SessionsOnPipe, NEW tuple \in FiveTuples, NEW port \in Ports,
           CanAdd(tuple, port), SessionFor(tuple, port) # 0,
           AddSession(tuple, port, SessionFor(tuple, port))
    PROVE  SessionsOnPipe'
  <1> DEFINE key == SessionKey(tuple)
             session == SessionFor(tuple, port)
  <1>1. CASE SessionKnown(tuple)
    <2>1. session = session_hashtable[key] /\ key \in SessionKeys
      BY <1>1, AddFacts
    <2>2. UNCHANGED <<session_id_heap, session_hashtable>>
      BY <1>1, <2>1 DEF AddSession, TypeOK
    <2> QED
      BY <2>2 DEF SessionsOnPipe, OnPipe, SessionKnown
  <1>2. CASE ~SessionKnown(tuple)
    <2>1. /\ key \in SessionKeys /\ dev_port_to_pipe(port) \in Pipes
          /\ session \in session_id_heap[dev_port_to_pipe(port)]
      BY <1>2, AddFacts, PortPipe
    <2>2. session \in Ids /\ flow_id_to_pipe(session) = dev_port_to_pipe(port) /\ port \in Arrivals[tuple]
      BY <2>1 DEF SessionsOnPipe, OnPipe, TypeOK, CanAdd
    <2>3. /\ session_id_heap' = HeapRemove(session_id_heap, port, session)
          /\ session_hashtable' = [session_hashtable EXCEPT ![key] = session]
      BY <1>2 DEF AddSession
    <2>4. OnPipe(session_id_heap')
      BY <2>2, <2>3, HeapPipes DEF SessionsOnPipe, TypeOK
    <2>5. ASSUME NEW t \in FiveTuples, SessionKnown(t)', NEW q \in Arrivals[t]
          PROVE  flow_id_to_pipe(session_hashtable'[SessionKey(t)]) = dev_port_to_pipe(q)
      <3> HIDE DEF session
      <3>1. SessionKey(t) \in SessionKeys
        BY DEF SessionKeys
      <3>2. CASE SessionKey(t) = key
        <4>1. session_hashtable'[SessionKey(t)] = session
          BY <3>2, <2>1, <2>3 DEF TypeOK
        <4>2. dev_port_to_pipe(q) = dev_port_to_pipe(port)
          BY <3>2, <2>2 DEF StableArrivals
        <4> QED
          BY <4>1, <4>2, <2>2
      <3>3. CASE SessionKey(t) # key
        <4>1. session_hashtable'[SessionKey(t)] = session_hashtable[SessionKey(t)]
          BY <3>1, <3>3, <2>3 DEF TypeOK
        <4> QED
          BY <4>1, <2>5 DEF SessionsOnPipe, SessionKnown
      <3> QED
        BY <3>2, <3>3
    <2> QED
      BY <2>4, <2>5 DEF SessionsOnPipe
  <1> QED
    BY <1>1, <1>2

\* A removal returns the flow id to the heap of its pipe.
LEMMA RemovalOnPipe ==
    ASSUME StableArrivals, TypeOK, PipeInv, NEW tuple \in FiveTuples, NEW port \in Ports, NEW offset, NEW put,
           Known(tuple), port \in Arrivals[tuple], StartRemoval(tuple, port, offset, put)
    PROVE  PipeInv'
  <1>1. flow_hashtable[tuple].value \in Ids
    BY DEF TypeOK, Known, Unoccupied
  <1>2. flow_id_to_pipe(flow_hashtable[tuple].value) = dev_port_to_pipe(port)
    BY DEF PipeInv, IdShowsPipe, StableArrivals
  <1>3. OnPipe(flow_id_heap')
    <2>1. OnPipe(flow_id_heap)
      BY PipeParts DEF FlowsOnPipe
    <2>2. flow_id_heap' = HeapPush(flow_id_heap, port, flow_hashtable[tuple].value)
      BY DEF StartRemoval
    <2> QED
      BY <1>1, <1>2, <2>1, <2>2, HeapPipes DEF TypeOK
  <1>4. \A t \in FiveTuples : flow_hashtable'[t] = IF t = tuple THEN Unoccupied ELSE flow_hashtable[t]
    BY DEF StartRemoval, TypeOK
  <1>5. FlowsOnPipe'
    BY <1>3, <1>4, PipeParts DEF FlowsOnPipe, Known, Unoccupied
  <1>6. SessionsOnPipe'
    BY PipeParts DEF StartRemoval, SessionsOnPipe, OnPipe, SessionKnown
  <1>7. handler'.port = port /\ handler'.tuple = tuple
    BY DEF StartRemoval
  <1> QED
    BY <1>5, <1>6, <1>7 DEF PipeInv, FlowsOnPipe, SessionsOnPipe, OnPipe, IdShowsPipe

\* The end of a session returns its id to the heap of its pipe.
LEMMA RemoveSessionOnPipe ==
    ASSUME TypeOK, PipeInv, handler \in Removal, handler # Idle, RemoveSession
    PROVE  PipeInv'
  <1> DEFINE key == SessionKey(handler.tuple)
             session == session_hashtable[key]
  <1>1. handler.tuple \in FiveTuples /\ handler.port \in Ports /\ key \in SessionKeys /\ session \in Ids
    BY DEF Removal, SessionKeys, RemoveSession, TypeOK
  <1>2. flow_id_to_pipe(session) = dev_port_to_pipe(handler.port)
    BY <1>1 DEF PipeInv, SessionKnown, RemoveSession
  <1>3. OnPipe(session_id_heap')
    <2>1. OnPipe(session_id_heap)
      BY PipeParts DEF SessionsOnPipe
    <2>2. session_id_heap' = HeapPush(session_id_heap, handler.port, session)
      BY DEF RemoveSession
    <2> QED
      BY <1>1, <1>2, <2>1, <2>2, HeapPipes DEF TypeOK
  <1>4. \A k \in SessionKeys : session_hashtable'[k] = IF k = key THEN 0 ELSE session_hashtable[k]
    BY DEF RemoveSession, TypeOK
  <1>5. \A t \in FiveTuples : SessionKey(t) \in SessionKeys
    BY DEF SessionKeys
  <1>6. SessionsOnPipe'
    BY <1>3, <1>4, <1>5, PipeParts DEF SessionsOnPipe, SessionKnown
  <1>7. FlowsOnPipe'
    BY PipeParts DEF RemoveSession, FlowsOnPipe, OnPipe, Known
  <1>8. handler' = Idle
    BY DEF RemoveSession
  <1> QED
    BY <1>6, <1>7, <1>8 DEF PipeInv, FlowsOnPipe, SessionsOnPipe, OnPipe, IdShowsPipe

\* A step that leaves heaps, tables and the handler's arguments alone, or ends
\* the handler, keeps ids on their pipe.
LEMMA StutterOnPipe ==
    ASSUME PipeInv,
           UNCHANGED <<flow_id_heap, session_id_heap, flow_hashtable, session_hashtable>>,
           \/ UNCHANGED handler
           \/ handler' = Idle
           \/ handler # Idle /\ handler'.tuple = handler.tuple /\ handler'.port = handler.port
    PROVE  PipeInv'
  BY DEF PipeInv, IdShowsPipe, Known, SessionKnown

\* Every step keeps ids on their pipe.
LEMMA NextOnPipe == StableArrivals /\ TypeOK /\ PipeInv /\ [Next]_vars => PipeInv'
  <1> SUFFICES ASSUME StableArrivals, TypeOK, PipeInv, [Next]_vars PROVE PipeInv'
    OBVIOUS
  <1>0. FlowsOnPipe /\ SessionsOnPipe
    BY PipeParts
  <1>1. ASSUME FlowDBStep PROVE PipeInv'
    <2>1. ASSUME NEW tuple \in FiveTuples, NEW port \in Ports, AddFlow(tuple, port) PROVE PipeInv'
      <3>1. /\ CanAdd(tuple, port) /\ SessionFor(tuple, port) # 0 /\ AddSession(tuple, port, SessionFor(tuple, port))
            /\ handler' = Idle
        BY <2>1 DEF AddFlow, CanAdd
      <3>2. SessionsOnPipe'
        BY <1>0, <3>1, AddSessionOnPipe
      <3>3. FlowsOnPipe'
        <4>1. CASE Room
          BY <1>0, <2>1, <3>1, <4>1, AddFlowOnPipe DEF AddFlow
        <4>2. CASE ~Room
          BY <1>0, <2>1, <4>2 DEF AddFlow, FlowsOnPipe, OnPipe, Known
        <4> QED
          BY <4>1, <4>2
      <3> QED
        BY <3>1, <3>2, <3>3 DEF PipeInv, FlowsOnPipe, SessionsOnPipe, OnPipe, IdShowsPipe
    <2>2. ASSUME NEW tuple \in FiveTuples, NEW port \in Ports, AddFlowWithoutSession(tuple, port) PROVE PipeInv'
      <3>1. FlowsOnPipe' /\ handler' = Idle
        BY <1>0, <2>2, AddFlowOnPipe DEF AddFlowWithoutSession, CanAdd
      <3>2. SessionsOnPipe'
        BY <1>0, <2>2 DEF AddFlowWithoutSession, SessionsOnPipe, OnPipe, SessionKnown
      <3> QED
        BY <3>1, <3>2 DEF PipeInv, FlowsOnPipe, SessionsOnPipe, OnPipe, IdShowsPipe
    <2>3. ASSUME NEW tuple \in FiveTuples, NEW port \in Ports, NEW offset \in Garbage,
                 RemoveFlowByFiveTuple(tuple, port, offset)
          PROVE  PipeInv'
      BY <2>3, RemovalOnPipe DEF RemoveFlowByFiveTuple
    <2>4. ASSUME NEW tuple \in FiveTuples, RemoveFlowByFlowId(tuple) PROVE PipeInv'
      <3>1. flow_hashtable[tuple].port \in Ports /\ flow_hashtable[tuple].port \in Arrivals[tuple]
        BY <2>4 DEF TypeOK, RemoveFlowByFlowId, Known, Unoccupied, PipeInv
      <3> QED
        BY <2>4, <3>1, RemovalOnPipe DEF RemoveFlowByFlowId
    <2>5. CASE SendRemove
      <3>1. handler \in Removal /\ handler # Idle
        BY <2>5 DEF SendRemove, TypeOK, Idle
      <3> QED
        BY <2>5, <3>1, StutterOnPipe DEF SendRemove, heaps, tables, Removal
    <2>6. CASE CleanupFlow \/ \E value \in Ids \cup {0} : CleanupSession(value)
      <3>1. handler \in Removal /\ handler # Idle
        BY <2>6 DEF CleanupFlow, CleanupSession, TypeOK, Idle
      <3>2. CASE RemoveSession
        BY <3>1, <3>2, RemoveSessionOnPipe
      <3>3. CASE KeepSession
        BY <3>3, StutterOnPipe DEF KeepSession, heaps
      <3> QED
        BY <2>6, <3>2, <3>3 DEF CleanupFlow, CleanupSession
    <2> QED
      BY <1>1, <2>1, <2>2, <2>3, <2>4, <2>5, <2>6 DEF FlowDBStep
  <1>2. CASE UNCHANGED flowVars
    BY <1>2, StutterOnPipe DEF flowVars
  <1> QED
    BY <1>1, <1>2 DEF Next, PutBloomFilter, vars

LEMMA InitOnPipe == Init => PipeInv
  <1> SUFFICES ASSUME Init PROVE PipeInv
    OBVIOUS
  <1>1. /\ \A pipe \in Pipes : flow_id_heap[pipe] = IdsOf(pipe) /\ session_id_heap[pipe] = IdsOf(pipe)
        /\ \A tuple \in FiveTuples : ~Known(tuple)
        /\ \A key \in SessionKeys : session_hashtable[key] = 0
        /\ handler = Idle
    BY DEF Init, FlowDBInit, Known, Unoccupied
  <1>2. \A tuple \in FiveTuples : ~SessionKnown(tuple)
    BY <1>1 DEF SessionKnown, SessionKeys
  <1>3. \A pipe \in Pipes : \A id \in flow_id_heap[pipe] \cup session_id_heap[pipe] : flow_id_to_pipe(id) = pipe
    BY <1>1, IdFacts DEF flow_id_to_pipe
  <1> QED
    BY <1>1, <1>2, <1>3 DEF PipeInv, IdShowsPipe

\* If the packets of a flow, and of all flows of its session, arrive on ports of
\* one pipe, an id is used and kept on the pipe it shows.
THEOREM IdsStayOnTheirPipe == StableArrivals => (Spec => []IdShowsPipe)
  <1>1. PipeInv => IdShowsPipe
    BY DEF PipeInv
  <1> SUFFICES ASSUME StableArrivals PROVE Spec => []IdShowsPipe
    OBVIOUS
  <1>2. TypeOK /\ PipeInv /\ [Next]_vars => PipeInv'
    BY NextOnPipe
  <1> QED
    BY <1>1, <1>2, InitOnPipe, ControllerTypeCorrect, PTL DEF Spec

------------------------------------------------------------------------------
(* The switch: the inductive invariant *)

\* What is assumed of the constants: every flow is a session of its own, and its
\* packets arrive on one pipe.
Setting == ~UseSessions /\ StableArrivals

\* A table has room for all flow ids of a pipe, or for all flows there are.
FlowsOf(proto) == {tuple \in FiveTuples : l3_proto[tuple] = proto}
TablesHaveRoom ==
    \A proto \in Protocols :
        \/ TableSize[proto] >= HeapSize
        \/ IsFiniteSet(FlowsOf(proto)) /\ Cardinality(FlowsOf(proto)) <= TableSize[proto]

\* The session id of an entry, by its register and its pipe.
SessionOf(entry) == entry.register * 4 + entry.pipe

\* The flows that the switch has an entry for, with the id of their session, and
\* those that it shall have an entry for once the ring is empty.
Pairs == FiveTuples \X Ids
OnSwitch == {<<classification[h].tuple, SessionOf(classification[h])>> : h \in Installed}
Wanted ==
    {<<tuple, flow_hashtable[tuple].value>> : tuple \in {t \in FiveTuples : Known(t)}}
        \cup (IF handler.step = "remove" THEN {<<handler.tuple, handler.flow>>} ELSE {})

\* The switch has entries for these flows only, and for all of them if there is
\* always room.
EntriesAreOf(S) == OnSwitch \subseteq S /\ (TablesHaveRoom => OnSwitch = S)

\* No flow has two ids, and no id two flows.
OneToOne(S) == \A p, q \in S : p[1] = q[1] \/ p[2] = q[2] => p = q

\* What a command does to the flows the switch shall have, and when it may come:
\* an addition is of a flow and an id that are not among them, a removal of a flow
\* with its id, and registers are cleared after the flow is gone.
Effect(command, before, after) ==
    CASE command.command = "DP_ADD_FLOW" ->
            /\ \A p \in before : p[1] # command.tuple /\ p[2] # command.flow
            /\ after = before \cup {<<command.tuple, command.flow>>}
      [] command.command = "DP_REMOVE_FLOW" ->
            /\ <<command.tuple, command.flow>> \in before
            /\ after = before \ {<<command.tuple, command.flow>>}
      [] command.command = "DP_CLEAR_REGISTERS" ->
            /\ \A p \in before : p[2] # command.session
            /\ after = before
      [] OTHER -> after = before

\* The flows the switch shall have after each of the commands in the ring.
Course(L) ==
    /\ L \in [0 .. Len(commands) -> SUBSET Pairs]
    /\ EntriesAreOf(L[0])
    /\ L[Len(commands)] = Wanted
    /\ \A n \in 0 .. Len(commands) : OneToOne(L[n])
    /\ \A n \in 1 .. Len(commands) : Effect(commands[n], L[n - 1], L[n])

\* A flow and its session have the same id.
AddsInLockstep ==
    \A n \in 1 .. Len(commands) : commands[n].command = "DP_ADD_FLOW" =>
        /\ commands[n].session = commands[n].flow
        /\ flow_id_to_pipe(commands[n].flow) = dev_port_to_pipe(commands[n].port)

\* An entry is that of a flow, at the handle that is cached for its id.
EntriesCached ==
    /\ DOMAIN classification = Handles
    /\ \A h \in Installed :
          LET entry == classification[h]
          IN  /\ entry.tuple \in FiveTuples /\ entry.pipe \in Pipes /\ entry.register \in Nat
              /\ SessionOf(entry) \in Ids
              /\ h = <<l3_proto[entry.tuple], entry_hdls[SessionOf(entry)]>>

SwitchInv == ~dropped => AddsInLockstep /\ EntriesCached /\ \E L : Course(L)

------------------------------------------------------------------------------
(* The course of the switch when the ring changes *)

\* A command at the end of the ring extends the course.
LEMMA CourseExtends ==
    ASSUME TypeOK, NEW L, Course(L), NEW command,
           commands' = Append(commands, command),
           OnSwitch' = OnSwitch, Wanted' \in SUBSET Pairs, OneToOne(Wanted)',
           Effect(command, Wanted, Wanted')
    PROVE  \E M : Course(M)'
PROOF
<1>m. PICK len, M : /\ len = Len(commands)
                    /\ M = [n \in 0 .. len + 1 |-> IF n = len + 1 THEN Wanted' ELSE L[n]]
  OBVIOUS
<1>1. commands \in Seq(Command) /\ len \in Nat
  BY <1>m DEF TypeOK
<1>2. Len(commands') = len + 1
  BY <1>1, <1>m
<1>3. commands'[len + 1] = command /\ \A n \in 1 .. len : commands'[n] = commands[n]
  BY <1>1, <1>m
<1>4. /\ L \in [0 .. len -> SUBSET Pairs] /\ EntriesAreOf(L[0]) /\ L[len] = Wanted
      /\ \A n \in 0 .. len : OneToOne(L[n])
      /\ \A n \in 1 .. len : Effect(commands[n], L[n - 1], L[n])
  BY <1>m DEF Course
<1>5. M \in [0 .. len + 1 -> SUBSET Pairs]
  <2>1. \A n \in 0 .. len + 1 : n = len + 1 \/ n \in 0 .. len
    BY <1>1
  <2> QED BY <1>4, <1>m, <2>1
<1>6. M[0] = L[0] /\ M[len + 1] = Wanted'
  BY <1>1, <1>4, <1>m
<1>7. \A n \in 0 .. len : M[n] = L[n]
  BY <1>1, <1>m
<1>8. \A n \in 0 .. len + 1 : OneToOne(M[n])
  <2>1. OneToOne(Wanted')
    BY DEF OneToOne
  <2>2. \A n \in 0 .. len + 1 : n = len + 1 \/ n \in 0 .. len
    BY <1>1
  <2> QED BY <1>4, <1>6, <1>7, <2>1, <2>2
<1>9. ASSUME NEW n \in 1 .. len + 1
      PROVE  Effect(commands'[n], M[n - 1], M[n])
  <2>1. CASE n = len + 1
    <3>1. M[n - 1] = Wanted
      BY <1>1, <1>4, <1>7, <2>1
    <3> QED BY <1>3, <1>6, <2>1, <3>1
  <2>2. CASE n \in 1 .. len
    <3>1. M[n - 1] = L[n - 1] /\ M[n] = L[n]
      BY <1>1, <1>7, <2>2
    <3> QED BY <1>3, <1>4, <2>2, <3>1
  <2>3. n = len + 1 \/ n \in 1 .. len
    BY <1>1
  <2> QED BY <2>1, <2>2, <2>3
<1>10. EntriesAreOf(M[0])'
  BY <1>4, <1>6 DEF EntriesAreOf
<1>11. Course(M)'
  BY <1>2, <1>5, <1>6, <1>8, <1>9, <1>10 DEF Course, Effect, OneToOne
<1> QED BY <1>11

\* The command at the head of the ring is taken: the course goes on from there.
LEMMA CourseAdvances ==
    ASSUME TypeOK, NEW L, Course(L), commands # << >>, commands' = Tail(commands),
           EntriesAreOf(L[1])', Wanted' = Wanted
    PROVE  \E M : Course(M)'
PROOF
<1>m. PICK len, M : len = Len(commands) - 1 /\ M = [n \in 0 .. len |-> L[n + 1]]
  OBVIOUS
<1>1. commands \in Seq(Command) /\ len \in Nat
  BY <1>m DEF TypeOK
<1>2. Len(commands') = len /\ \A n \in 1 .. len : commands'[n] = commands[n + 1]
  BY <1>1, <1>m
<1>3. Len(commands) = len + 1
  BY <1>1, <1>m DEF TypeOK
<1>4. /\ L \in [0 .. len + 1 -> SUBSET Pairs] /\ L[len + 1] = Wanted
      /\ \A n \in 0 .. len + 1 : OneToOne(L[n])
      /\ \A n \in 1 .. len + 1 : Effect(commands[n], L[n - 1], L[n])
  BY <1>3 DEF Course
<1>5. M \in [0 .. len -> SUBSET Pairs]
  BY <1>1, <1>4, <1>m
<1>6. M[0] = L[1] /\ M[len] = Wanted'
  BY <1>1, <1>4, <1>m
<1>7. \A n \in 0 .. len : M[n] = L[n + 1]
  BY <1>m
<1>8. \A n \in 0 .. len : OneToOne(M[n])
  BY <1>1, <1>4, <1>7
<1>9. ASSUME NEW n \in 1 .. len
      PROVE  Effect(commands'[n], M[n - 1], M[n])
  <2>1. M[n - 1] = L[n] /\ M[n] = L[n + 1] /\ commands'[n] = commands[n + 1]
    BY <1>1, <1>2, <1>7
  <2>2. Effect(commands[n + 1], L[n + 1 - 1], L[n + 1])
    BY <1>1, <1>4
  <2>3. n + 1 - 1 = n
    BY <1>1
  <2> QED BY <2>1, <2>2, <2>3
<1>10. EntriesAreOf(M[0])'
  BY <1>6 DEF EntriesAreOf
<1>11. Course(M)'
  BY <1>2, <1>5, <1>6, <1>8, <1>9, <1>10 DEF Course, Effect, OneToOne
<1> QED BY <1>11

\* Neither the ring nor what it leads from and to changes.
LEMMA CourseStays ==
    ASSUME NEW L, Course(L), commands' = commands, OnSwitch' = OnSwitch, Wanted' = Wanted
    PROVE  Course(L)'
PROOF BY DEF Course, EntriesAreOf, Effect, OneToOne

------------------------------------------------------------------------------
(* The switch *)

\* An entry for a flow, made by DP_ADD_FLOW, is counted at the flow's id.
LEMMA IndexOfId ==
    ASSUME NEW id \in Ids, NEW pipe \in Pipes, flow_id_to_pipe(id) = pipe
    PROVE  /\ flow_id_to_register_index(id) \in 1 .. HeapSize
           /\ flow_id_to_register_index(id) * 4 + pipe = id
PROOF
<1>1. PICK p \in Pipes : id \in IdsOf(p)
  BY DEF Ids
<1>2. p = pipe
  BY <1>1, IdFacts DEF flow_id_to_pipe
<1>3. PICK index \in 0 .. HeapSize - 1 : id = (index + 1) * 4 + pipe
  BY <1>1, <1>2 DEF IdsOf
<1>4. pipe \in 0 .. 3 /\ index \in Nat /\ index + 1 \in 1 .. HeapSize
  BY PipesAssumption, HeapSizeAssumption DEF Pipes
<1>5. id \div 4 = index + 1
  BY <1>3, <1>4
<1> QED BY <1>3, <1>4, <1>5 DEF flow_id_to_register_index

\* The register index of an entry is that of its id.
LEMMA RegisterOfEntry ==
    ASSUME EntriesCached, NEW h \in Installed
    PROVE  LET entry == classification[h]
           IN  /\ entry.pipe = flow_id_to_pipe(SessionOf(entry))
               /\ entry.register = flow_id_to_register_index(SessionOf(entry))
               /\ entry.register \in 1 .. HeapSize
PROOF
<1> DEFINE entry == classification[h]
           id == SessionOf(entry)
<1>1. entry.pipe \in Pipes /\ entry.register \in Nat /\ id \in Ids
  BY DEF EntriesCached
<1>2. entry.pipe \in 0 .. 3
  BY <1>1, PipesAssumption DEF Pipes
<1>3. id = entry.register * 4 + entry.pipe
  BY DEF SessionOf
<1> HIDE DEF entry
<1>4. id % 4 = entry.pipe /\ id \div 4 = entry.register
  BY <1>1, <1>2, <1>3
<1>5. flow_id_to_register_index(id) \in 1 .. HeapSize
  BY <1>1, <1>4, IndexOfId DEF flow_id_to_pipe
<1> QED BY <1>4, <1>5 DEF entry, flow_id_to_pipe, flow_id_to_register_index

\* Two entries for the same flow, or at the same index, are the same.
LEMMA EntriesApart ==
    ASSUME EntriesCached, OneToOne(OnSwitch), NEW g \in Installed, NEW h \in Installed,
           \/ classification[g].tuple = classification[h].tuple
           \/ SessionOf(classification[g]) = SessionOf(classification[h])
    PROVE  g = h
PROOF
<1> DEFINE p == <<classification[g].tuple, SessionOf(classification[g])>>
           q == <<classification[h].tuple, SessionOf(classification[h])>>
<1>1. p \in OnSwitch /\ q \in OnSwitch
  BY DEF OnSwitch
<1>2. p = q
  BY <1>1 DEF OneToOne
<1> QED BY <1>2 DEF EntriesCached

\* The entry of a pair of the switch is at the handle that is cached for the id.
LEMMA EntryOfPair ==
    ASSUME EntriesCached, NEW tuple, NEW id, <<tuple, id>> \in OnSwitch
    PROVE  LET h == <<l3_proto[tuple], entry_hdls[id]>>
           IN  h \in Installed /\ classification[h].tuple = tuple /\ SessionOf(classification[h]) = id
PROOF
<1>1. PICK h \in Installed : tuple = classification[h].tuple /\ id = SessionOf(classification[h])
  BY DEF OnSwitch
<1>2. h = <<l3_proto[tuple], entry_hdls[id]>>
  BY <1>1 DEF EntriesCached
<1> QED BY <1>1, <1>2

\* There is always room for a flow whose id has no entry yet: the entries of a
\* table in a pipe are of different flows and registers, and all of other ones.
LEMMA AddIsAccepted ==
    ASSUME TablesHaveRoom, EntriesCached, OneToOne(OnSwitch),
           NEW tuple \in FiveTuples, NEW id \in Ids, NEW pipe \in Pipes, flow_id_to_pipe(id) = pipe,
           \A p \in OnSwitch : p[1] # tuple /\ p[2] # id
    PROVE  Accepts(tuple, pipe)
PROOF
<1> DEFINE proto == l3_proto[tuple]
           E == Entries(proto, pipe)
<1>1. E \subseteq Installed /\ \A h \in E : h[1] = proto /\ classification[h].pipe = pipe
  BY DEF Entries
<1>2. \A h \in E : classification[h].tuple # tuple /\ SessionOf(classification[h]) # id
  <2>1. \A h \in Installed : <<classification[h].tuple, SessionOf(classification[h])>> \in OnSwitch
    BY DEF OnSwitch
  <2> QED BY <1>1, <2>1
<1>3. ASSUME NEW size \in Nat, NEW R, IsFiniteSet(R), NEW r \in R, Cardinality(R) <= size,
             NEW f \in [E -> R \ {r}], \A g, h \in E : f[g] = f[h] => g = h
      PROVE  Cardinality(E) < size
  <2>1. f \in Injection(E, R \ {r})
    BY <1>3 DEF Injection, IsInjective
  <2>2. IsFiniteSet(R \ {r}) /\ Cardinality(R \ {r}) = Cardinality(R) - 1
    BY <1>3, FS_RemoveElement
  <2> HIDE DEF E
  <2>3. IsFiniteSet(E) /\ Cardinality(E) <= Cardinality(R) - 1
    BY <2>1, <2>2, FS_Injection
  <2>4. Cardinality(E) \in Nat /\ Cardinality(R) \in Nat
    BY <1>3, <2>3, FS_CardinalityType
  <2> QED BY <1>3, <2>3, <2>4
<1>4. proto \in Protocols /\ TableSize[proto] \in Nat
  BY ProtocolsAssumption, TableSizeAssumption
<1>5. CASE TableSize[proto] >= HeapSize
  <2> DEFINE f == [h \in E |-> classification[h].register]
             r == flow_id_to_register_index(id)
  <2>1. f \in [E -> (1 .. HeapSize) \ {r}]
    <3>1. ASSUME NEW h \in E
          PROVE  classification[h].register \in (1 .. HeapSize) \ {r}
      <4>1. classification[h].register \in 1 .. HeapSize
        BY <1>1, RegisterOfEntry
      <4>2. SessionOf(classification[h]) # id
        BY <1>2
      <4>3. SessionOf(classification[h]) = classification[h].register * 4 + pipe
        BY <1>1 DEF SessionOf
      <4>4. id = flow_id_to_register_index(id) * 4 + pipe
        BY IndexOfId
      <4> QED BY <4>1, <4>2, <4>3, <4>4
    <3> QED BY <3>1
  <2>2. \A g, h \in E : f[g] = f[h] => g = h
    <3> SUFFICES ASSUME NEW g \in E, NEW h \in E, f[g] = f[h]
                 PROVE  g = h
      OBVIOUS
    <3>1. SessionOf(classification[g]) = SessionOf(classification[h])
      BY <1>1 DEF SessionOf
    <3> QED BY <1>1, <3>1, EntriesApart
  <2>3. IsFiniteSet(1 .. HeapSize) /\ Cardinality(1 .. HeapSize) = HeapSize /\ r \in 1 .. HeapSize
    BY HeapSizeAssumption, FS_Interval, IndexOfId
  <2> HIDE DEF E, f, r, proto
  <2>4. Cardinality(1 .. HeapSize) <= TableSize[proto]
    BY <1>4, <1>5, <2>3, HeapSizeAssumption
  <2>5. Cardinality(E) < TableSize[proto]
    BY <1>3, <1>4, <2>1, <2>2, <2>3, <2>4
  <2> QED BY <1>2, <2>5 DEF Accepts, E, proto
<1>6. CASE IsFiniteSet(FlowsOf(proto)) /\ Cardinality(FlowsOf(proto)) <= TableSize[proto]
  <2> DEFINE f == [h \in E |-> classification[h].tuple]
  <2>1. f \in [E -> FlowsOf(proto) \ {tuple}]
    <3>1. ASSUME NEW h \in E
          PROVE  classification[h].tuple \in FlowsOf(proto) \ {tuple}
      <4>1. h \in Installed /\ h[1] = proto /\ classification[h].tuple # tuple
        BY <1>1, <1>2
      <4>2. /\ classification[h].tuple \in FiveTuples
            /\ h = <<l3_proto[classification[h].tuple], entry_hdls[SessionOf(classification[h])]>>
        BY <4>1 DEF EntriesCached
      <4> QED BY <4>1, <4>2 DEF FlowsOf
    <3> QED BY <3>1
  <2>2. \A g, h \in E : f[g] = f[h] => g = h
    BY <1>1, EntriesApart
  <2>3. tuple \in FlowsOf(proto)
    BY DEF FlowsOf
  <2> HIDE DEF E, f, proto
  <2>4. Cardinality(E) < TableSize[proto]
    BY <1>3, <1>4, <1>6, <2>1, <2>2, <2>3
  <2> QED BY <1>2, <2>4 DEF Accepts, E, proto
<1> QED BY <1>4, <1>5, <1>6 DEF TablesHaveRoom

------------------------------------------------------------------------------
(* dataplane_thread *)

\* The head of the ring, on the way from OnSwitch to the next flows.
LEMMA HeadEffect ==
    ASSUME TypeOK, NEW L, Course(L), commands # << >>
    PROVE  /\ OneToOne(L[0]) /\ OneToOne(OnSwitch)
           /\ EntriesAreOf(L[0])
           /\ Effect(Head(commands), L[0], L[1])
           /\ Head(commands) = commands[1] /\ 1 \in 1 .. Len(commands)
PROOF
<1>1. commands \in Seq(Command)
  BY DEF TypeOK
<1>2. 1 \in 1 .. Len(commands) /\ 0 \in 0 .. Len(commands) /\ Head(commands) = commands[1]
  BY <1>1
<1>3. Effect(commands[1], L[1 - 1], L[1])
  BY <1>2 DEF Course
<1>4. 1 - 1 = 0
  OBVIOUS
<1>5. OneToOne(L[0]) /\ EntriesAreOf(L[0])
  BY <1>2 DEF Course
<1>6. OneToOne(OnSwitch)
  BY <1>5 DEF OneToOne, EntriesAreOf
<1> QED BY <1>2, <1>3, <1>4, <1>5, <1>6

\* DP_ADD_FLOW at the head is accepted.
LEMMA HeadIsAccepted ==
    ASSUME TablesHaveRoom, TypeOK, AddsInLockstep, EntriesCached, NEW L, Course(L),
           commands # << >>, Head(commands).command = "DP_ADD_FLOW"
    PROVE  Accepts(Head(commands).tuple, dev_port_to_pipe(Head(commands).port))
PROOF
<1> DEFINE command == Head(commands)
<1>1. /\ OneToOne(OnSwitch) /\ EntriesAreOf(L[0]) /\ Effect(command, L[0], L[1])
      /\ command = commands[1] /\ 1 \in 1 .. Len(commands)
  BY HeadEffect
<1>2. command \in Command
  BY DEF TypeOK
<1>3. command.tuple \in FiveTuples /\ command.port \in Ports /\ command.flow \in Ids
  BY <1>2 DEF Command, BloomFilterCommand
<1>4. flow_id_to_pipe(command.flow) = dev_port_to_pipe(command.port)
  BY <1>1 DEF AddsInLockstep
<1>5. \A p \in OnSwitch : p[1] # command.tuple /\ p[2] # command.flow
  BY <1>1 DEF Effect, EntriesAreOf
<1> HIDE DEF command
<1>6. dev_port_to_pipe(command.port) \in Pipes
  BY <1>3, PortPipe
<1>7. Accepts(command.tuple, dev_port_to_pipe(command.port))
  BY <1>1, <1>3, <1>4, <1>5, <1>6, AddIsAccepted
<1> QED BY <1>7 DEF command

\* An installed flow is in the table as its command says.
LEMMA InstallStep ==
    ASSUME TypeOK, AddsInLockstep, EntriesCached, NEW L, Course(L),
           NEW handle \in Handles, InstallFlow(handle)
    PROVE  EntriesCached' /\ EntriesAreOf(L[1])'
PROOF
<1> DEFINE command == Head(commands)
           entry == [tuple |-> command.tuple, pipe |-> dev_port_to_pipe(command.port),
                     register |-> flow_id_to_register_index(command.session)]
<1>1. /\ commands # << >> /\ command.command = "DP_ADD_FLOW"
      /\ handle[1] = l3_proto[command.tuple] /\ handle \notin Installed
      /\ classification' = [classification EXCEPT ![handle] = entry]
      /\ entry_hdls' = [entry_hdls EXCEPT ![command.flow] = handle[2]]
  BY DEF InstallFlow, GetCommand, switch_add_classification_entry
<1>2. /\ EntriesAreOf(L[0]) /\ Effect(command, L[0], L[1])
      /\ command = commands[1] /\ 1 \in 1 .. Len(commands)
  BY <1>1, HeadEffect
<1>3. command.tuple \in FiveTuples /\ command.port \in Ports /\ command.flow \in Ids
  <2>1. command \in Command
    BY <1>1 DEF TypeOK
  <2> QED BY <1>1, <2>1 DEF Command, BloomFilterCommand
<1>4. flow_id_to_pipe(command.flow) = dev_port_to_pipe(command.port) /\ command.session = command.flow
  BY <1>1, <1>2 DEF AddsInLockstep
<1>5. /\ \A p \in OnSwitch : p[1] # command.tuple /\ p[2] # command.flow
      /\ L[1] = L[0] \cup {<<command.tuple, command.flow>>}
  BY <1>1, <1>2 DEF Effect, EntriesAreOf
<1>6. dev_port_to_pipe(command.port) \in Pipes
  BY <1>3, PortPipe
<1> HIDE DEF command
<1>7. /\ entry.tuple \in FiveTuples /\ entry.pipe \in Pipes /\ entry.register \in Nat
      /\ SessionOf(entry) = command.flow
      /\ entry # NoEntry
  <2>1. /\ flow_id_to_register_index(command.flow) \in 1 .. HeapSize
        /\ flow_id_to_register_index(command.flow) * 4 + dev_port_to_pipe(command.port) = command.flow
    BY <1>3, <1>4, <1>6, IndexOfId
  <2>2. entry.pipe # NoEntry.pipe
    BY <1>6, PipesAssumption DEF NoEntry, Pipes
  <2> QED BY <1>3, <1>4, <1>6, <2>1, <2>2, HeapSizeAssumption DEF SessionOf
<1> HIDE DEF entry
<1>8. DOMAIN classification = Handles
  BY DEF EntriesCached
<1>9. /\ DOMAIN classification' = Handles
      /\ \A h \in Handles : classification'[h] = IF h = handle THEN entry ELSE classification[h]
  BY <1>1, <1>8
<1>10. Installed' = Installed \cup {handle}
  BY <1>1, <1>7, <1>9 DEF Installed
<1>11. \A h \in Installed : h # handle /\ classification'[h] = classification[h]
  BY <1>1, <1>9 DEF Installed
<1>12. classification'[handle] = entry
  BY <1>9
<1>13. OnSwitch' = OnSwitch \cup {<<entry.tuple, SessionOf(entry)>>}
  <2>1. OnSwitch' = {<<classification'[h].tuple, SessionOf(classification'[h])>> : h \in Installed'}
    BY DEF OnSwitch, SessionOf
  <2> QED BY <1>10, <1>11, <1>12, <2>1 DEF OnSwitch
<1>14. entry.tuple = command.tuple
  BY DEF entry
<1>15. EntriesAreOf(L[1])'
  <2>1. OnSwitch' = OnSwitch \cup {<<command.tuple, command.flow>>}
    BY <1>7, <1>13, <1>14
  <2> QED BY <1>2, <1>5, <2>1 DEF EntriesAreOf
<1>16. entry_hdls \in [Ids -> Nat]
  BY DEF TypeOK
<1>17. ASSUME NEW h \in Installed'
       PROVE  LET e == classification'[h]
              IN  /\ e.tuple \in FiveTuples /\ e.pipe \in Pipes /\ e.register \in Nat
                  /\ SessionOf(e) \in Ids
                  /\ h = <<l3_proto[e.tuple], entry_hdls'[SessionOf(e)]>>
  <2>1. CASE h = handle
    <3>1. handle = <<handle[1], handle[2]>>
      BY DEF Handles
    <3>2. entry_hdls'[command.flow] = handle[2]
      BY <1>1, <1>3, <1>16
    <3> QED BY <1>1, <1>3, <1>7, <1>12, <1>14, <2>1, <3>1, <3>2
  <2>2. CASE h \in Installed
    <3> DEFINE e == classification[h]
    <3>1. /\ e.tuple \in FiveTuples /\ e.pipe \in Pipes /\ e.register \in Nat
          /\ SessionOf(e) \in Ids
          /\ h = <<l3_proto[e.tuple], entry_hdls[SessionOf(e)]>>
      BY <2>2 DEF EntriesCached
    <3>2. <<e.tuple, SessionOf(e)>> \in OnSwitch
      BY <2>2 DEF OnSwitch
    <3>3. SessionOf(e) # command.flow
      BY <1>5, <3>2
    <3>4. entry_hdls'[SessionOf(e)] = entry_hdls[SessionOf(e)]
      BY <1>1, <1>16, <3>1, <3>3
    <3> QED BY <1>11, <2>2, <3>1, <3>4
  <2> QED BY <1>10, <2>1, <2>2
<1>18. EntriesCached'
  BY <1>9, <1>17 DEF EntriesCached, SessionOf
<1> QED BY <1>15, <1>18

\* A removal takes its flow's entry out of the table, if there is one.
LEMMA UninstallStep ==
    ASSUME TypeOK, EntriesCached, NEW L, Course(L), UninstallFlow
    PROVE  EntriesCached' /\ EntriesAreOf(L[1])'
PROOF
<1> DEFINE command == Head(commands)
           pair == <<command.tuple, command.flow>>
           handle == <<l3_proto[command.tuple], entry_hdls[command.flow]>>
<1>1. /\ commands # << >> /\ command.command = "DP_REMOVE_FLOW"
      /\ classification' = [h \in Handles |-> IF h = handle THEN NoEntry ELSE classification[h]]
      /\ entry_hdls' = entry_hdls
  BY DEF UninstallFlow, GetCommand, switch_remove_classification_entry
<1>2. OneToOne(OnSwitch) /\ EntriesAreOf(L[0]) /\ Effect(command, L[0], L[1])
  BY <1>1, HeadEffect
<1>3. pair \in L[0] /\ L[1] = L[0] \ {pair}
  BY <1>1, <1>2 DEF Effect
<1>4. pair \in OnSwitch =>
        /\ handle \in Installed /\ classification[handle].tuple = command.tuple
        /\ SessionOf(classification[handle]) = command.flow
  BY EntryOfPair
<1> HIDE DEF command, handle
<1>5. Installed' = Installed \ {handle} /\ \A h \in Installed' : classification'[h] = classification[h]
  BY <1>1 DEF Installed
<1>6. \A h \in Installed \ {handle} : <<classification[h].tuple, SessionOf(classification[h])>> # pair
  <2> SUFFICES ASSUME NEW h \in Installed, <<classification[h].tuple, SessionOf(classification[h])>> = pair
               PROVE  h = handle
    OBVIOUS
  <2>1. pair \in OnSwitch
    BY DEF OnSwitch
  <2> QED BY <1>2, <1>4, <2>1, EntriesApart
<1>7. OnSwitch' = {<<classification[h].tuple, SessionOf(classification[h])>> : h \in Installed \ {handle}}
  <2>1. OnSwitch' = {<<classification'[h].tuple, SessionOf(classification'[h])>> : h \in Installed'}
    BY DEF OnSwitch, SessionOf
  <2> QED BY <1>5, <2>1
<1> HIDE DEF pair
<1>8. OnSwitch' \subseteq OnSwitch \ {pair}
  BY <1>6, <1>7 DEF OnSwitch
<1>9. ASSUME pair \in OnSwitch
      PROVE  OnSwitch' = OnSwitch \ {pair}
  <2>1. <<classification[handle].tuple, SessionOf(classification[handle])>> = pair
    BY <1>4, <1>9 DEF pair
  <2>2. OnSwitch \ {pair} \subseteq OnSwitch'
    BY <1>7, <2>1 DEF OnSwitch
  <2> QED BY <1>8, <2>2
<1>10. EntriesCached'
  <2>1. DOMAIN classification' = Handles
    BY <1>1
  <2> QED BY <1>1, <1>5, <2>1 DEF EntriesCached, SessionOf
<1> QED BY <1>2, <1>3, <1>8, <1>9, <1>10 DEF EntriesAreOf

\* Taking a command from the ring leaves the additions that follow as they are.
LEMMA AddsStay ==
    ASSUME TypeOK, AddsInLockstep, commands # << >>, commands' = Tail(commands)
    PROVE  AddsInLockstep'
PROOF
<1>1. commands \in Seq(Command)
  BY DEF TypeOK
<1>2. \A n \in 1 .. Len(commands') : n + 1 \in 1 .. Len(commands) /\ commands'[n] = commands[n + 1]
  BY <1>1
<1> QED BY <1>2 DEF AddsInLockstep

LEMMA DataPlaneKeepsSwitchInv ==
    ASSUME TypeOK, SwitchInv, DataPlaneStep, UNCHANGED flowVars
    PROVE  SwitchInv'
PROOF
<1> SUFFICES ASSUME ~dropped'
             PROVE  AddsInLockstep' /\ EntriesCached' /\ \E L : Course(L)'
  BY DEF SwitchInv
<1>1. commands # << >> /\ commands' = Tail(commands) /\ dropped' = dropped
  BY DEF DataPlaneStep, InstallFlow, RejectFlow, UninstallFlow, ClearRegisters, WriteBloomFilter, GetCommand
<1>2. AddsInLockstep /\ EntriesCached /\ \E L : Course(L)
  BY <1>1 DEF SwitchInv
<1>3. PICK L : Course(L)
  BY <1>2
<1>4. AddsInLockstep'
  BY <1>1, <1>2, AddsStay
<1>5. Wanted' = Wanted
  BY DEF Wanted, flowVars, Known
<1>6. ASSUME EntriesCached', EntriesAreOf(L[1])'
      PROVE  EntriesCached' /\ \E M : Course(M)'
  BY <1>1, <1>3, <1>5, <1>6, CourseAdvances
<1>7. EntriesAreOf(L[0]) /\ Effect(Head(commands), L[0], L[1])
  BY <1>1, <1>3, HeadEffect
<1>8. ASSUME UNCHANGED dataPlaneVars
      PROVE  EntriesCached' /\ OnSwitch' = OnSwitch
  BY <1>2, <1>8 DEF EntriesCached, OnSwitch, Installed, SessionOf, dataPlaneVars
<1>9. ASSUME NEW handle \in Handles, InstallFlow(handle)
      PROVE  EntriesCached' /\ EntriesAreOf(L[1])'
  BY <1>2, <1>3, <1>9, InstallStep
<1>10. ASSUME RejectFlow
       PROVE  EntriesCached' /\ EntriesAreOf(L[1])'
  <2>1. /\ Head(commands).command = "DP_ADD_FLOW" /\ UNCHANGED dataPlaneVars
        /\ ~Accepts(Head(commands).tuple, dev_port_to_pipe(Head(commands).port))
    BY <1>10 DEF RejectFlow, GetCommand
  <2>2. ~TablesHaveRoom
    BY <1>1, <1>2, <1>3, <2>1, HeadIsAccepted
  <2>3. L[0] \subseteq L[1]
    BY <1>7, <2>1 DEF Effect
  <2>4. EntriesCached' /\ OnSwitch' = OnSwitch
    BY <1>8, <2>1
  <2> QED BY <1>7, <2>2, <2>3, <2>4 DEF EntriesAreOf
<1>11. ASSUME UninstallFlow
       PROVE  EntriesCached' /\ EntriesAreOf(L[1])'
  BY <1>2, <1>3, <1>11, UninstallStep
<1>12. ASSUME ClearRegisters \/ WriteBloomFilter
       PROVE  EntriesCached' /\ EntriesAreOf(L[1])'
  <2>1. Head(commands).command \in {"DP_CLEAR_REGISTERS", "DP_BLOOM_FILTER"} /\ UNCHANGED dataPlaneVars
    BY <1>12 DEF ClearRegisters, WriteBloomFilter, GetCommand
  <2>2. L[1] = L[0]
    BY <1>7, <2>1 DEF Effect
  <2>3. EntriesCached' /\ OnSwitch' = OnSwitch
    BY <1>8, <2>1
  <2> QED BY <1>7, <2>2, <2>3 DEF EntriesAreOf
<1>13. EntriesCached' /\ EntriesAreOf(L[1])'
  BY <1>9, <1>10, <1>11, <1>12 DEF DataPlaneStep
<1> QED BY <1>4, <1>6, <1>13

------------------------------------------------------------------------------
(* flowdb_thread *)

\* The flows that are known, or that are being removed and whose removal has not
\* been sent, have ids of their own.
LEMMA WantedFacts ==
    ASSUME Setting, TypeOK, IdsConserved, LockstepInv, ~dropped
    PROVE  /\ Wanted \in SUBSET Pairs
           /\ \A p \in Wanted : session_hashtable[p[1]] = p[2]
           /\ OneToOne(Wanted)
PROOF
<1>1. SessionKeys = FiveTuples
  BY KeysWithoutSessions DEF Setting
<1>2. ASSUME NEW p \in Wanted
      PROVE  p \in Pairs /\ session_hashtable[p[1]] = p[2]
  <2>1. CASE \E tuple \in FiveTuples : Known(tuple) /\ p = <<tuple, flow_hashtable[tuple].value>>
    <3>1. PICK tuple \in FiveTuples : Known(tuple) /\ p = <<tuple, flow_hashtable[tuple].value>>
      BY <2>1
    <3>2. flow_hashtable[tuple].value \in Ids
      BY <3>1 DEF TypeOK, Known, Unoccupied
    <3>3. session_hashtable[tuple] = flow_hashtable[tuple].value
      BY <3>1 DEF LockstepInv, IdsInLockstep, Setting
    <3> QED BY <3>1, <3>2, <3>3 DEF Pairs
  <2>2. CASE handler.step = "remove" /\ p = <<handler.tuple, handler.flow>>
    <3>1. handler \in Removal /\ handler # Idle
      BY <2>2 DEF TypeOK, Idle
    <3>2. handler.tuple \in FiveTuples /\ handler.flow \in Ids
      BY <3>1 DEF Removal
    <3>3. session_hashtable[handler.tuple] = handler.flow
      BY <3>1, <3>2 DEF LockstepInv, IdsInLockstep, Setting
    <3> QED BY <2>2, <3>2, <3>3 DEF Pairs
  <2> QED BY <2>1, <2>2 DEF Wanted
<1>3. OneToOne(Wanted)
  <2> SUFFICES ASSUME NEW p \in Wanted, NEW q \in Wanted, p[1] = q[1] \/ p[2] = q[2]
               PROVE  p = q
    BY DEF OneToOne
  <2>1. /\ p = <<p[1], p[2]>> /\ p[1] \in FiveTuples /\ p[2] \in Ids
        /\ q = <<q[1], q[2]>> /\ q[1] \in FiveTuples /\ q[2] \in Ids
        /\ session_hashtable[p[1]] = p[2] /\ session_hashtable[q[1]] = q[2]
    BY <1>2 DEF Pairs
  <2>2. \A o1, o2 \in FiveTuples :
          session_hashtable[o1] = session_hashtable[o2] /\ session_hashtable[o1] # 0 => o1 = o2
    BY <1>1 DEF IdsConserved, Conserved
  <2>3. p[1] = q[1]
    BY <2>1, <2>2, IdFacts
  <2> QED BY <2>1, <2>3
<1> QED BY <1>2, <1>3

\* A put that is not refused.
LEMMA PutAppends ==
    ASSUME TypeOK, NEW command, Put(command), ~dropped'
    PROVE  ~dropped /\ Room /\ commands' = Append(commands, command)
PROOF BY DEF Put

\* A flow is added to the flow table and to the ring.
LEMMA AddFlowStep ==
    ASSUME Setting, TypeOK, LockstepInv, IdsConserved, PipeInv, ~dropped', OneToOne(Wanted),
           NEW tuple \in FiveTuples, NEW port \in Ports, AddFlow(tuple, port)
    PROVE  \E flow \in Ids :
               /\ commands' = Append(commands, AddFlowCommand(tuple, port, flow, flow))
               /\ flow_id_to_pipe(flow) = dev_port_to_pipe(port)
               /\ \A p \in Wanted : p[1] # tuple /\ p[2] # flow
               /\ Wanted' = Wanted \cup {<<tuple, flow>>}
PROOF
<1> DEFINE flow == HeapPop(flow_id_heap[dev_port_to_pipe(port)])
           session == SessionFor(tuple, port)
<1>1. CanAdd(tuple, port) /\ handler = Idle /\ handler' = Idle /\ ~Known(tuple)
  BY DEF AddFlow, CanAdd
<1>2. Room /\ ~dropped /\ commands' = Append(commands, AddFlowCommand(tuple, port, flow, session))
  BY DEF AddFlow, Put
<1>3. flow_id_heap = session_id_heap /\ \A t \in FiveTuples : session_hashtable[t] = flow_hashtable[t].value
  BY <1>1, <1>2 DEF LockstepInv, IdsInLockstep, Setting
<1>4. session = flow
  BY <1>1, <1>3, KeysWithoutSessions DEF SessionKnown, Known, SessionFor, Setting
<1>5. flow \in flow_id_heap[dev_port_to_pipe(port)]
  BY <1>1, AddFacts
<1>6. dev_port_to_pipe(port) \in Pipes
  BY PortPipe
<1>7. flow \in Ids /\ flow # 0
  BY <1>5, <1>6, IdFacts DEF TypeOK
<1>8. flow_id_to_pipe(flow) = dev_port_to_pipe(port)
  BY <1>5, <1>6 DEF PipeInv, IdShowsPipe
<1>9. flow_hashtable' = [flow_hashtable EXCEPT ![tuple] = [value |-> flow, port |-> port]]
  BY <1>2 DEF AddFlow
<1> HIDE DEF flow, session
<1>10. \A t \in FiveTuples : flow_hashtable[t].value # flow
  <2>1. \A t \in FiveTuples : FlowIdOf[t] \notin flow_id_heap[dev_port_to_pipe(port)]
    BY <1>6 DEF IdsConserved, Conserved
  <2> QED BY <1>5, <2>1 DEF FlowIdOf
<1>11. handler.step # "remove" /\ handler'.step # "remove"
  BY <1>1 DEF Idle
<1>12. \A p \in Wanted : p[1] # tuple /\ p[2] # flow
  BY <1>1, <1>10, <1>11 DEF Wanted
<1>13. \A t \in FiveTuples : flow_hashtable'[t].value = IF t = tuple THEN flow ELSE flow_hashtable[t].value
  BY <1>9 DEF TypeOK
<1>14. Wanted' = Wanted \cup {<<tuple, flow>>}
  <2>1. Wanted = {<<t, flow_hashtable[t].value>> : t \in {u \in FiveTuples : flow_hashtable[u].value # 0}}
    BY <1>11 DEF Wanted, Known
  <2>2. Wanted' = {<<t, flow_hashtable'[t].value>> : t \in {u \in FiveTuples : flow_hashtable'[u].value # 0}}
    BY <1>11 DEF Wanted, Known
  <2>3. {u \in FiveTuples : flow_hashtable'[u].value # 0}
          = {u \in FiveTuples : flow_hashtable[u].value # 0} \cup {tuple}
    BY <1>7, <1>13
  <2>4. tuple \notin {u \in FiveTuples : flow_hashtable[u].value # 0}
    BY <1>1 DEF Known
  <2> QED BY <1>13, <2>1, <2>2, <2>3, <2>4
<1> QED BY <1>2, <1>4, <1>7, <1>8, <1>12, <1>14

\* The first half of a removal leaves what the switch shall have.
LEMMA StartRemovalStep ==
    ASSUME TypeOK, handler = Idle, NEW tuple \in FiveTuples, Known(tuple), NEW port, NEW offset, NEW put,
           StartRemoval(tuple, port, offset, put)
    PROVE  Wanted' = Wanted
PROOF
<1> DEFINE id == flow_hashtable[tuple].value
<1>1. /\ handler'.step = "remove" /\ handler'.tuple = tuple /\ handler'.flow = id
      /\ handler.step # "remove"
  BY DEF StartRemoval, Idle
<1>2. \A t \in FiveTuples : flow_hashtable'[t].value = IF t = tuple THEN 0 ELSE flow_hashtable[t].value
  BY DEF StartRemoval, TypeOK, Unoccupied
<1>3. Wanted = {<<t, flow_hashtable[t].value>> : t \in {u \in FiveTuples : flow_hashtable[u].value # 0}}
  BY <1>1 DEF Wanted, Known
<1>4. Wanted' = {<<t, flow_hashtable'[t].value>> : t \in {u \in FiveTuples : flow_hashtable'[u].value # 0}}
                  \cup {<<tuple, id>>}
  BY <1>1 DEF Wanted, Known
<1>5. tuple \in {u \in FiveTuples : flow_hashtable[u].value # 0}
  BY DEF Known
<1>6. {u \in FiveTuples : flow_hashtable'[u].value # 0}
        = {u \in FiveTuples : flow_hashtable[u].value # 0} \ {tuple}
  BY <1>2
<1> QED BY <1>2, <1>3, <1>4, <1>5, <1>6

\* What a removal at work knows, as long as no command was refused.
LEMMA RemovalAtWork ==
    ASSUME Setting, TypeOK, LockstepInv, ~dropped, handler # Idle
    PROVE  /\ handler \in Removal /\ handler.tuple \in FiveTuples /\ handler.flow \in Ids
           /\ ~Known(handler.tuple) /\ session_hashtable[handler.tuple] = handler.flow
PROOF
<1>1. handler \in Removal
  BY DEF TypeOK
<1>2. handler.tuple \in FiveTuples /\ handler.flow \in Ids
  BY <1>1 DEF Removal
<1> QED BY <1>1, <1>2 DEF LockstepInv, IdsInLockstep, Setting

\* DP_REMOVE_FLOW is sent for a flow that the switch has an entry for by then.
LEMMA SendRemoveStep ==
    ASSUME Setting, TypeOK, LockstepInv, ~dropped', SendRemove
    PROVE  /\ RemoveFlowCommand(handler.tuple, handler.flow) \in Command
           /\ commands' = Append(commands, RemoveFlowCommand(handler.tuple, handler.flow))
           /\ <<handler.tuple, handler.flow>> \in Wanted
           /\ Wanted' = Wanted \ {<<handler.tuple, handler.flow>>}
PROOF
<1>1. Put(RemoveFlowCommand(handler.tuple, handler.flow))
  BY DEF SendRemove, EnsurePut
<1>2. ~dropped /\ commands' = Append(commands, RemoveFlowCommand(handler.tuple, handler.flow))
  BY <1>1, PutAppends
<1>3. handler.step = "remove" /\ handler # Idle /\ flow_hashtable' = flow_hashtable
  BY DEF SendRemove, Idle, tables
<1>4. handler \in Removal /\ handler.tuple \in FiveTuples /\ handler.flow \in Ids /\ ~Known(handler.tuple)
  BY <1>2, <1>3, RemovalAtWork
<1>5. handler'.step = "cleanup"
  BY <1>4 DEF SendRemove, Removal
<1>6. RemoveFlowCommand(handler.tuple, handler.flow) \in Command
  BY <1>4 DEF RemoveFlowCommand, Command
<1> DEFINE known == {<<t, flow_hashtable[t].value>> : t \in {u \in FiveTuples : Known(u)}}
<1>7. Wanted = known \cup {<<handler.tuple, handler.flow>>}
  BY <1>3 DEF Wanted
<1>8. Wanted' = known
  BY <1>3, <1>5 DEF Wanted, Known
<1>9. <<handler.tuple, handler.flow>> \notin known
  BY <1>4
<1> QED BY <1>2, <1>6, <1>7, <1>8, <1>9

\* DP_CLEAR_REGISTERS is sent when no flow with the id is left or to come.
LEMMA CleanupStep ==
    ASSUME Setting, TypeOK, IdsConserved, LockstepInv, ~dropped', CleanupFlow
    PROVE  /\ ClearRegistersCommand(handler.flow, handler.offset) \in Command
           /\ commands' = Append(commands, ClearRegistersCommand(handler.flow, handler.offset))
           /\ \A p \in Wanted : p[2] # handler.flow
           /\ Wanted' = Wanted
PROOF
<1>1. handler.step = "cleanup" /\ handler # Idle
  BY DEF CleanupFlow, Idle
<1>2. ~dropped
  BY DEF CleanupFlow, RemoveSession, KeepSession, Put, ringVars
<1>3. /\ handler \in Removal /\ handler.tuple \in FiveTuples /\ handler.flow \in Ids
      /\ ~Known(handler.tuple) /\ session_hashtable[handler.tuple] = handler.flow
  BY <1>1, <1>2, RemovalAtWork
<1>4. SessionKey(handler.tuple) = handler.tuple /\ SessionKeys = FiveTuples /\ handler.flow # 0
  BY <1>3, KeysWithoutSessions, IdFacts DEF Setting
<1>5. RemoveSession
  BY <1>3, <1>4 DEF CleanupFlow, SessionKnown
<1>6. Put(ClearRegistersCommand(handler.flow, handler.offset)) /\ handler' = Idle /\ flow_hashtable' = flow_hashtable
  BY <1>3, <1>4, <1>5 DEF RemoveSession
<1>7. commands' = Append(commands, ClearRegistersCommand(handler.flow, handler.offset))
  BY <1>6, PutAppends
<1>8. ClearRegistersCommand(handler.flow, handler.offset) \in Command
  BY <1>3 DEF ClearRegistersCommand, Command, Removal
<1>9. handler.step # "remove" /\ handler'.step # "remove"
  BY <1>1, <1>6 DEF Idle
<1>10. Wanted' = Wanted
  BY <1>6, <1>9 DEF Wanted, Known
<1>11. ASSUME NEW p \in Wanted
       PROVE  p[2] # handler.flow
  <2>1. PICK t \in FiveTuples : Known(t) /\ p = <<t, flow_hashtable[t].value>>
    BY <1>9 DEF Wanted
  <2>2. session_hashtable[t] = p[2]
    BY <1>2, <2>1, WantedFacts
  <2>3. t # handler.tuple
    BY <1>3, <2>1
  <2>4. session_hashtable[handler.tuple] # session_hashtable[t]
    BY <1>3, <1>4, <2>3 DEF IdsConserved, Conserved
  <2> QED BY <1>3, <2>2, <2>4
<1> QED BY <1>7, <1>8, <1>10, <1>11

\* A command at the end of the ring, with its effect on what the switch shall have.
LEMMA RingGrows ==
    ASSUME TypeOK, ~dropped, SwitchInv, UNCHANGED dataPlaneVars, NEW command,
           commands' = Append(commands, command),
           command.command = "DP_ADD_FLOW" =>
               /\ command.session = command.flow
               /\ flow_id_to_pipe(command.flow) = dev_port_to_pipe(command.port),
           Wanted' \in SUBSET Pairs, OneToOne(Wanted)', Effect(command, Wanted, Wanted')
    PROVE  SwitchInv'
PROOF
<1>1. AddsInLockstep /\ EntriesCached
  BY DEF SwitchInv
<1>2. PICK L : Course(L)
  BY DEF SwitchInv
<1>3. EntriesCached' /\ OnSwitch' = OnSwitch
  BY <1>1 DEF EntriesCached, OnSwitch, Installed, SessionOf, dataPlaneVars
<1>4. \E M : Course(M)'
  BY <1>2, <1>3, CourseExtends
<1>5. commands \in Seq(Command) /\ Len(commands) \in Nat
  BY DEF TypeOK
<1>6. /\ Len(commands') = Len(commands) + 1 /\ commands'[Len(commands) + 1] = command
      /\ \A n \in 1 .. Len(commands) : commands'[n] = commands[n]
  BY <1>5
<1>7. \A n \in 1 .. Len(commands') : n = Len(commands) + 1 \/ n \in 1 .. Len(commands)
  BY <1>5, <1>6
<1>8. AddsInLockstep'
  BY <1>1, <1>6, <1>7 DEF AddsInLockstep
<1> QED BY <1>3, <1>4, <1>8 DEF SwitchInv

\* Neither the ring, nor the tables, nor what the switch shall have changes.
LEMMA SwitchStays ==
    ASSUME SwitchInv, UNCHANGED <<ringVars, dataPlaneVars>>, Wanted' = Wanted
    PROVE  SwitchInv'
PROOF
<1> SUFFICES ASSUME ~dropped'
             PROVE  AddsInLockstep' /\ EntriesCached' /\ \E L : Course(L)'
  BY DEF SwitchInv
<1>1. ~dropped /\ commands' = commands
  BY DEF ringVars
<1>2. AddsInLockstep /\ EntriesCached
  BY <1>1 DEF SwitchInv
<1>3. PICK L : Course(L)
  BY <1>1 DEF SwitchInv
<1>4. EntriesCached' /\ OnSwitch' = OnSwitch
  BY <1>2 DEF EntriesCached, OnSwitch, Installed, SessionOf, dataPlaneVars
<1>5. Course(L)'
  BY <1>1, <1>3, <1>4, CourseStays
<1>6. AddsInLockstep'
  BY <1>1, <1>2 DEF AddsInLockstep
<1> QED BY <1>4, <1>5, <1>6

LEMMA FlowDBKeepsSwitchInv ==
    ASSUME Setting, TypeOK, IdsConserved, LockstepInv, PipeInv, SwitchInv,
           FlowDBStep \/ PutBloomFilter, UNCHANGED dataPlaneVars
    PROVE  SwitchInv'
PROOF
<1>0. SUFFICES ASSUME ~dropped'
               PROVE  SwitchInv'
  BY DEF SwitchInv
<1>1. ASSUME ~dropped
      PROVE  /\ Wanted \in SUBSET Pairs /\ \A p \in Wanted : session_hashtable[p[1]] = p[2]
             /\ OneToOne(Wanted)
  BY <1>1, WantedFacts
<1>3. ASSUME NEW tuple \in FiveTuples, NEW port \in Ports, AddFlow(tuple, port)
      PROVE  SwitchInv'
  <2>1. ~dropped
    BY <1>0, <1>3 DEF AddFlow, Put
  <2>2. PICK flow \in Ids :
               /\ commands' = Append(commands, AddFlowCommand(tuple, port, flow, flow))
               /\ flow_id_to_pipe(flow) = dev_port_to_pipe(port)
               /\ \A p \in Wanted : p[1] # tuple /\ p[2] # flow
               /\ Wanted' = Wanted \cup {<<tuple, flow>>}
    BY <1>0, <1>1, <1>3, <2>1, AddFlowStep
  <2> DEFINE command == AddFlowCommand(tuple, port, flow, flow)
  <2>3. /\ command.command = "DP_ADD_FLOW" /\ command.tuple = tuple /\ command.port = port
        /\ command.flow = flow /\ command.session = flow
    BY DEF AddFlowCommand
  <2> HIDE DEF command
  <2>4. Wanted' \in SUBSET Pairs
    BY <1>1, <2>1, <2>2 DEF Pairs
  <2>5. OneToOne(Wanted')
    BY <1>1, <2>1, <2>2 DEF OneToOne
  <2>6. OneToOne(Wanted)'
    BY <2>5 DEF OneToOne
  <2>7. Effect(command, Wanted, Wanted')
    BY <2>2, <2>3 DEF Effect
  <2>8. commands' = Append(commands, command)
    BY <2>2 DEF command
  <2> QED BY <2>1, <2>2, <2>3, <2>4, <2>6, <2>7, <2>8, RingGrows
<1>4. ASSUME NEW tuple \in FiveTuples, NEW port \in Ports, AddFlowWithoutSession(tuple, port)
      PROVE  SwitchInv'
  <2>1. ~dropped
    BY <1>0, <1>4 DEF AddFlowWithoutSession, ringVars
  <2> QED BY <1>4, <2>1, SessionIdsSuffice DEF Setting
<1>5. ASSUME NEW tuple \in FiveTuples, NEW port, NEW offset, NEW put, handler = Idle, Known(tuple),
             StartRemoval(tuple, port, offset, put)
      PROVE  SwitchInv'
  <2>1. Wanted' = Wanted
    BY <1>5, StartRemovalStep
  <2> QED BY <1>5, <2>1, SwitchStays DEF StartRemoval, ringVars
<1>6. ASSUME NEW tuple \in FiveTuples, NEW port \in Ports, NEW offset \in Garbage,
             RemoveFlowByFiveTuple(tuple, port, offset)
      PROVE  SwitchInv'
  BY <1>5, <1>6 DEF RemoveFlowByFiveTuple
<1>7. ASSUME NEW tuple \in FiveTuples, RemoveFlowByFlowId(tuple)
      PROVE  SwitchInv'
  BY <1>5, <1>7 DEF RemoveFlowByFlowId
<1>8. CASE SendRemove
  <2> DEFINE command == RemoveFlowCommand(handler.tuple, handler.flow)
  <2>1. ~dropped
    BY <1>0, <1>8 DEF SendRemove, EnsurePut, Put
  <2>2. /\ commands' = Append(commands, command)
        /\ <<handler.tuple, handler.flow>> \in Wanted
        /\ Wanted' = Wanted \ {<<handler.tuple, handler.flow>>}
    BY <1>0, <1>8, SendRemoveStep
  <2>3. command.command = "DP_REMOVE_FLOW" /\ command.tuple = handler.tuple /\ command.flow = handler.flow
    BY DEF RemoveFlowCommand
  <2> HIDE DEF command
  <2>4. Wanted' \in SUBSET Pairs
    BY <1>1, <2>1, <2>2
  <2>5. OneToOne(Wanted')
    BY <1>1, <2>1, <2>2 DEF OneToOne
  <2>6. OneToOne(Wanted)'
    BY <2>5 DEF OneToOne
  <2>7. Effect(command, Wanted, Wanted')
    BY <2>2, <2>3 DEF Effect
  <2> QED BY <2>1, <2>2, <2>3, <2>4, <2>6, <2>7, RingGrows
<1>9. CASE CleanupFlow
  <2> DEFINE command == ClearRegistersCommand(handler.flow, handler.offset)
  <2>1. ~dropped
    BY <1>0, <1>9 DEF CleanupFlow, RemoveSession, KeepSession, Put, ringVars
  <2>2. /\ commands' = Append(commands, command)
        /\ \A p \in Wanted : p[2] # handler.flow
        /\ Wanted' = Wanted
    BY <1>0, <1>9, CleanupStep
  <2>3. command.command = "DP_CLEAR_REGISTERS" /\ command.session = handler.flow
    BY DEF ClearRegistersCommand
  <2> HIDE DEF command
  <2>4. Wanted' \in SUBSET Pairs /\ OneToOne(Wanted')
    BY <1>1, <2>1, <2>2
  <2>5. OneToOne(Wanted)'
    BY <2>4 DEF OneToOne
  <2>6. Effect(command, Wanted, Wanted')
    BY <2>2, <2>3 DEF Effect
  <2> QED BY <2>1, <2>2, <2>3, <2>4, <2>5, <2>6, RingGrows
<1>10. ASSUME NEW value \in Ids \cup {0}, CleanupSession(value)
       PROVE  SwitchInv'
  BY <1>10 DEF CleanupSession, Setting
<1>11. CASE PutBloomFilter
  <2>1. ~dropped /\ commands' = Append(commands, BloomFilterCommand) /\ UNCHANGED flowVars
    BY <1>0, <1>11, PutAppends DEF PutBloomFilter
  <2>2. Wanted' = Wanted
    BY <2>1 DEF Wanted, Known, flowVars
  <2>3. BloomFilterCommand.command = "DP_BLOOM_FILTER"
    BY DEF BloomFilterCommand
  <2>4. Wanted' \in SUBSET Pairs /\ OneToOne(Wanted')
    BY <1>1, <2>1, <2>2
  <2>5. OneToOne(Wanted)'
    BY <2>4 DEF OneToOne
  <2>6. Effect(BloomFilterCommand, Wanted, Wanted')
    BY <2>2, <2>3 DEF Effect
  <2> QED BY <2>1, <2>3, <2>4, <2>5, <2>6, RingGrows
<1> QED BY <1>3, <1>4, <1>6, <1>7, <1>8, <1>9, <1>10, <1>11 DEF FlowDBStep

------------------------------------------------------------------------------
(* The invariant *)

\* All that is known of the two threads and the switch.
ControllerInv == TypeOK /\ IdsConserved /\ LockstepInv /\ PipeInv /\ SwitchInv

\* At the beginning there is neither an entry, nor a command, nor a flow.
LEMMA InitSwitch == Init => SwitchInv
PROOF
<1> SUFFICES ASSUME Init
             PROVE  AddsInLockstep /\ EntriesCached /\ \E L : Course(L)
  BY DEF SwitchInv
<1>1. commands = << >> /\ Len(commands) = 0
  BY DEF Init, RingInit
<1>2. classification = [h \in Handles |-> NoEntry] /\ Installed = {}
  BY DEF Init, DataPlaneInit, Installed
<1>3. OnSwitch = {}
  BY <1>2 DEF OnSwitch
<1>4. Wanted = {}
  <2>1. handler.step # "remove" /\ \A tuple \in FiveTuples : ~Known(tuple)
    BY DEF Init, FlowDBInit, Idle, Known, Unoccupied
  <2> QED BY <2>1 DEF Wanted
<1>5. Course([n \in 0 .. 0 |-> {}])
  <2> DEFINE L == [n \in 0 .. 0 |-> {}]
  <2>1. 0 .. 0 = {0} /\ 1 .. 0 = {}
    OBVIOUS
  <2>2. L[0] = {} /\ L \in [0 .. 0 -> SUBSET Pairs]
    BY <2>1
  <2> HIDE DEF L
  <2>3. \A n \in 0 .. 0 : OneToOne(L[n])
    BY <2>1, <2>2 DEF OneToOne
  <2>4. Course(L)
    BY <1>1, <1>3, <1>4, <2>1, <2>2, <2>3 DEF Course, EntriesAreOf
  <2> QED BY <2>4 DEF L
<1> QED BY <1>1, <1>2, <1>5 DEF AddsInLockstep, EntriesCached

\* Every step keeps the invariant.
LEMMA NextSwitch ==
    ASSUME Setting, TypeOK, IdsConserved, LockstepInv, PipeInv, SwitchInv, [Next]_vars
    PROVE  SwitchInv'
PROOF
<1>1. CASE FlowDBStep /\ UNCHANGED dataPlaneVars
  BY <1>1, FlowDBKeepsSwitchInv
<1>2. CASE DataPlaneStep /\ UNCHANGED flowVars
  BY <1>2, DataPlaneKeepsSwitchInv
<1>3. CASE PutBloomFilter
  BY <1>3, FlowDBKeepsSwitchInv DEF PutBloomFilter
<1>4. CASE UNCHANGED vars
  <2>1. Wanted' = Wanted
    BY <1>4 DEF vars, flowVars, Wanted, Known
  <2> QED BY <1>4, <2>1, SwitchStays DEF vars
<1> QED BY <1>1, <1>2, <1>3, <1>4 DEF Next

\* ControllerInv holds in every reachable state.
LEMMA ControllerInvariant == Setting => (Spec => []ControllerInv)
PROOF
<1> SUFFICES ASSUME Setting
             PROVE  Spec => []ControllerInv
  OBVIOUS
<1>1. TypeOK /\ IdsConserved /\ TypeOK' /\ [Next]_vars => IdsConserved'
  BY NextConserves
<1>2. TypeOK /\ PipeInv /\ [Next]_vars => PipeInv'
  BY NextOnPipe DEF Setting
<1>3. TypeOK /\ IdsConserved /\ LockstepInv /\ PipeInv /\ SwitchInv /\ [Next]_vars => SwitchInv'
  BY NextSwitch
<1>4. TypeOK /\ IdsConserved /\ LockstepInv /\ PipeInv /\ SwitchInv => ControllerInv
  BY DEF ControllerInv
<1> QED
  BY <1>1, <1>2, <1>3, <1>4, NextLockstep, InitConserves, InitLockstep, InitOnPipe, InitSwitch,
     ControllerTypeCorrect, PTL DEF Spec

------------------------------------------------------------------------------
(* What it means for the switch *)

\* The head of the ring when it is a removal.
LEMMA HeadNamesItsEntry ==
    ASSUME TablesHaveRoom, TypeOK, SwitchInv, ~dropped,
           commands # << >>, Head(commands).command = "DP_REMOVE_FLOW"
    PROVE  NamedEntry \in Installed /\ classification[NamedEntry].tuple = Head(commands).tuple
PROOF
<1>1. PICK L : Course(L)
  BY DEF SwitchInv
<1>2. EntriesAreOf(L[0]) /\ Effect(Head(commands), L[0], L[1])
  BY <1>1, HeadEffect
<1>3. <<Head(commands).tuple, Head(commands).flow>> \in OnSwitch
  BY <1>2 DEF Effect, EntriesAreOf
<1> QED BY <1>3, EntryOfPair DEF SwitchInv, NamedEntry

\* The switch rejects nothing, as long as no command was refused.
THEOREM SwitchRejectsNothing == Setting /\ TablesHaveRoom => (Spec => []NothingRejected)
PROOF
<1> SUFFICES ASSUME Setting, TablesHaveRoom
             PROVE  Spec => []NothingRejected
  OBVIOUS
<1>1. ControllerInv => NothingRejected
  <2> SUFFICES ASSUME ControllerInv, ~dropped, commands # << >>
               PROVE  /\ Head(commands).command = "DP_ADD_FLOW" =>
                            Accepts(Head(commands).tuple, dev_port_to_pipe(Head(commands).port))
                      /\ Head(commands).command = "DP_REMOVE_FLOW" => NamedEntry \in Installed
    BY DEF NothingRejected
  <2>1. TypeOK /\ SwitchInv /\ AddsInLockstep /\ EntriesCached
    BY DEF ControllerInv, SwitchInv
  <2>2. PICK L : Course(L)
    BY DEF ControllerInv, SwitchInv
  <2> QED BY <2>1, <2>2, HeadIsAccepted, HeadNamesItsEntry
<1> QED BY <1>1, ControllerInvariant, PTL

\* A DP_REMOVE_FLOW deletes the entry of its own flow, although ids and handles
\* are both reused.
THEOREM RemovalsHitTheirFlow == Setting /\ TablesHaveRoom => (Spec => []RemovalHitsItsFlow)
PROOF
<1> SUFFICES ASSUME Setting, TablesHaveRoom
             PROVE  Spec => []RemovalHitsItsFlow
  OBVIOUS
<1>1. ControllerInv => RemovalHitsItsFlow
  BY HeadNamesItsEntry DEF ControllerInv, RemovalHitsItsFlow
<1> QED BY <1>1, ControllerInvariant, PTL

\* An index shows its register and its pipe.
LEMMA IndexSplits ==
    ASSUME NEW a \in Nat, NEW b \in Nat, NEW p \in 0 .. 3, NEW q \in 0 .. 3, (a * 4) + p = (b * 4) + q
    PROVE  a = b /\ p = q
PROOF OBVIOUS

\* The pipe of a forwarded port's egress port.
LEMMA EgressPipe ==
    ASSUME NEW port \in Ports, DEVPORT_MAPPING[port] # -1
    PROVE  dev_port_to_pipe(DEVPORT_MAPPING[port]) \in 0 .. 3 /\ dev_port_to_pipe(port) \in 0 .. 3
PROOF
<1>1. DEVPORT_MAPPING[port] \in Ports
  BY PortsAssumption
<1>2. Pipes \subseteq 0 .. 3
  BY PipesAssumption DEF Pipes
<1> QED BY <1>1, <1>2, PortPipe

\* Where an entry's flow is counted: in the egress pipe of a port of its pipe.
LEMMA CountedOnEgress ==
    ASSUME EntriesCached, NEW h \in Installed, NEW i \in CountedAt(classification[h])
    PROVE  \E port \in Ports :
              /\ DEVPORT_MAPPING[port] # -1
              /\ dev_port_to_pipe(port) = classification[h].pipe
              /\ i = (classification[h].register * 4) + dev_port_to_pipe(DEVPORT_MAPPING[port])
PROOF
<1>1. classification[h].tuple \in FiveTuples
  BY DEF EntriesCached
<1>2. Arrivals[classification[h].tuple] \subseteq Ports
  BY <1>1, ArrivalsAssumption
<1> QED BY <1>2 DEF CountedAt

\* If no two pipes forward to the same pipe, an index belongs to one session.
LEMMA IndexOfOneSession ==
    ASSUME EgressPipesApart, NEW p \in Ports, NEW q \in Ports, DEVPORT_MAPPING[p] # -1, DEVPORT_MAPPING[q] # -1,
           NEW a \in Nat, NEW b \in Nat,
           (a * 4) + dev_port_to_pipe(DEVPORT_MAPPING[p]) = (b * 4) + dev_port_to_pipe(DEVPORT_MAPPING[q])
    PROVE  a = b /\ dev_port_to_pipe(p) = dev_port_to_pipe(q)
PROOF
<1>1. PICK x \in 0 .. 3, y \in 0 .. 3 : /\ x = dev_port_to_pipe(DEVPORT_MAPPING[p])
                                       /\ y = dev_port_to_pipe(DEVPORT_MAPPING[q])
  BY EgressPipe
<1>2. a = b /\ x = y
  BY <1>1, IndexSplits
<1> QED BY <1>1, <1>2 DEF EgressPipesApart

\* No two flows are counted into the same registers, and no flow into registers
\* that are being cleared with a fitting offset, even if the switch rejects
\* additions and removals delete other flows' entries because the tables have no
\* room: unless two pipes forward to the same pipe.
THEOREM CountersAreNotShared == Setting => (Spec => []CountersNotShared)
PROOF
<1> SUFFICES ASSUME Setting
             PROVE  Spec => []CountersNotShared
  OBVIOUS
<1>1. ControllerInv => CountersNotShared
  <2> SUFFICES ASSUME ControllerInv, ~dropped, EgressPipesApart
               PROVE  CountersNotShared
    BY DEF CountersNotShared
  <2>1. TypeOK /\ EntriesCached
    BY DEF ControllerInv, SwitchInv
  <2>2. PICK L : Course(L)
    BY DEF ControllerInv, SwitchInv
  <2>3. OneToOne(OnSwitch)
    <3>1. Len(commands) \in Nat
      BY <2>1 DEF TypeOK
    <3>2. OneToOne(L[0]) /\ EntriesAreOf(L[0])
      BY <2>2, <3>1 DEF Course
    <3> QED BY <3>2 DEF OneToOne, EntriesAreOf
  <2>4. ASSUME NEW g \in Installed, NEW h \in Installed,
               CountedAt(classification[g]) \cap CountedAt(classification[h]) # {}
        PROVE  g = h
    <3>1. PICK i : i \in CountedAt(classification[g]) /\ i \in CountedAt(classification[h])
      BY <2>4
    <3>2. PICK p \in Ports : /\ DEVPORT_MAPPING[p] # -1
                             /\ dev_port_to_pipe(p) = classification[g].pipe
                             /\ i = (classification[g].register * 4) + dev_port_to_pipe(DEVPORT_MAPPING[p])
      BY <2>1, <3>1, CountedOnEgress
    <3>3. PICK q \in Ports : /\ DEVPORT_MAPPING[q] # -1
                             /\ dev_port_to_pipe(q) = classification[h].pipe
                             /\ i = (classification[h].register * 4) + dev_port_to_pipe(DEVPORT_MAPPING[q])
      BY <2>1, <3>1, CountedOnEgress
    <3>4. classification[g].register \in Nat /\ classification[h].register \in Nat
      BY <2>1 DEF EntriesCached
    <3>5. classification[g].register = classification[h].register /\ classification[g].pipe = classification[h].pipe
      BY <3>2, <3>3, <3>4, IndexOfOneSession
    <3>6. SessionOf(classification[g]) = SessionOf(classification[h])
      BY <3>5 DEF SessionOf
    <3> QED BY <2>1, <2>3, <3>6, EntriesApart
  <2>5. ASSUME commands # << >>, Head(commands).command = "DP_CLEAR_REGISTERS", OffsetFits(Head(commands)),
               NEW h \in Installed,
               Head(commands).session + Head(commands).offset \in CountedAt(classification[h])
        PROVE  FALSE
    <3>1. EntriesAreOf(L[0]) /\ Effect(Head(commands), L[0], L[1])
      BY <2>1, <2>2, <2>5, HeadEffect
    <3>2. \A p \in OnSwitch : p[2] # Head(commands).session
      BY <2>5, <3>1 DEF Effect, EntriesAreOf
    <3>3. <<classification[h].tuple, SessionOf(classification[h])>> \in OnSwitch
      BY DEF OnSwitch
    <3>4. PICK session \in Ids : session = Head(commands).session
      <4>1. Head(commands) \in Command
        BY <2>1, <2>5 DEF TypeOK
      <4> QED BY <2>5, <4>1 DEF Command, BloomFilterCommand
    <3>5. PICK p \in Ports : /\ DEVPORT_MAPPING[p] # -1
                             /\ dev_port_to_pipe(p) = session % 4
                             /\ Head(commands).offset = dev_port_to_pipe(DEVPORT_MAPPING[p]) - dev_port_to_pipe(p)
      BY <2>5, <3>4 DEF OffsetFits, EgressOffset, flow_id_to_pipe
    <3>6. PICK q \in Ports : /\ DEVPORT_MAPPING[q] # -1
                             /\ dev_port_to_pipe(q) = classification[h].pipe
                             /\ session + Head(commands).offset =
                                   (classification[h].register * 4) + dev_port_to_pipe(DEVPORT_MAPPING[q])
      BY <2>1, <2>5, <3>4, CountedOnEgress
    <3>7. session \in Nat /\ session \div 4 \in Nat /\ session = ((session \div 4) * 4) + (session % 4)
      BY IdFacts
    <3>8. session + Head(commands).offset = ((session \div 4) * 4) + dev_port_to_pipe(DEVPORT_MAPPING[p])
      <4>1. PICK x \in 0 .. 3, y \in 0 .. 3 : x = dev_port_to_pipe(DEVPORT_MAPPING[p]) /\ y = dev_port_to_pipe(p)
        BY <3>5, EgressPipe
      <4>2. y = session % 4 /\ Head(commands).offset = x - y
        BY <3>5, <4>1
      <4>3. PICK a \in Nat : a = session \div 4
        BY <3>7
      <4>4. session = (a * 4) + y
        BY <3>7, <4>2, <4>3
      <4>5. session + (x - y) = (a * 4) + x
        BY <3>7, <4>4
      <4> QED BY <4>1, <4>2, <4>3, <4>5
    <3>9. classification[h].register \in Nat
      BY <2>1 DEF EntriesCached
    <3>10. classification[h].register = session \div 4 /\ classification[h].pipe = session % 4
      BY <3>5, <3>6, <3>7, <3>8, <3>9, IndexOfOneSession
    <3>11. SessionOf(classification[h]) = session
      BY <3>7, <3>10 DEF SessionOf
    <3> QED BY <3>2, <3>3, <3>4, <3>11
  <2> QED BY <2>4, <2>5 DEF CountersNotShared
<1> QED BY <1>1, ControllerInvariant, PTL

\* A flow is among the flows of the switch.
Has(S, tuple) == \E p \in S : p[1] = tuple

\* A set of numbers that is not empty has a least one.
LEMMA LeastNumber ==
    ASSUME NEW S \in SUBSET Nat, S # {}
    PROVE  \E n \in S : \A m \in S : n <= m
PROOF
<1>1. PICK n \in S : \A m \in S : ~(<<m, n>> \in OpToRel(<, Nat))
  BY NatLessThanWellFounded, WFMin
<1>2. \A m \in S : ~(m < n)
  BY <1>1 DEF OpToRel
<1> QED BY <1>2

\* Commands about other flows leave a flow as it is.
LEMMA OthersLeaveIt ==
    ASSUME TypeOK, NEW L, Course(L), NEW tuple, NEW a \in 0 .. Len(commands),
           \A n \in About(tuple) : n <= a
    PROVE  Has(L[Len(commands)], tuple) <=> Has(L[a], tuple)
PROOF
<1> DEFINE len == Len(commands)
           S == {n \in a .. len : ~(Has(L[n], tuple) <=> Has(L[a], tuple))}
<1>1. len \in Nat /\ a \in Nat /\ a <= len
  BY DEF TypeOK
<1>2. SUFFICES ASSUME S # {}
               PROVE  FALSE
  BY <1>1
<1>3. S \in SUBSET Nat
  BY <1>1
<1>4. PICK n \in S : \A m \in S : n <= m
  BY <1>2, <1>3, LeastNumber
<1>5. n \in Nat /\ n \in a .. len /\ n # a /\ ~(Has(L[n], tuple) <=> Has(L[a], tuple))
  BY <1>1, <1>4
<1>6. n - 1 \in a .. len /\ n \in 1 .. len /\ n > a
  BY <1>1, <1>5
<1>7. Has(L[n - 1], tuple) <=> Has(L[a], tuple)
  <2>1. n - 1 \notin S
    BY <1>4, <1>5
  <2> QED BY <1>6, <2>1
<1>8. Effect(commands[n], L[n - 1], L[n])
  BY <1>6 DEF Course
<1>9. n \notin About(tuple)
  BY <1>1, <1>6
<1>10. commands[n].command \in {"DP_ADD_FLOW", "DP_REMOVE_FLOW"} => commands[n].tuple # tuple
  BY <1>6, <1>9 DEF About
<1> HIDE DEF len, S
<1>11. Has(L[n], tuple) <=> Has(L[n - 1], tuple)
  BY <1>8, <1>10 DEF Effect, Has
<1> QED BY <1>5, <1>7, <1>11

\* After a command about a flow, the switch has it if it was an addition.
LEMMA LastCommandDecides ==
    ASSUME NEW L, Course(L), NEW tuple, NEW n \in About(tuple)
    PROVE  Has(L[n], tuple) <=> commands[n].command = "DP_ADD_FLOW"
PROOF
<1>1. /\ n \in 1 .. Len(commands) /\ commands[n].tuple = tuple
      /\ commands[n].command \in {"DP_ADD_FLOW", "DP_REMOVE_FLOW"}
  BY DEF About
<1>2. Effect(commands[n], L[n - 1], L[n]) /\ OneToOne(L[n - 1])
  BY <1>1 DEF Course
<1>3. CASE commands[n].command = "DP_ADD_FLOW"
  <2>1. <<tuple, commands[n].flow>> \in L[n]
    BY <1>1, <1>2, <1>3 DEF Effect
  <2> QED BY <1>3, <2>1 DEF Has
<1>4. CASE commands[n].command = "DP_REMOVE_FLOW"
  <2>1. /\ <<tuple, commands[n].flow>> \in L[n - 1]
        /\ L[n] = L[n - 1] \ {<<tuple, commands[n].flow>>}
    BY <1>1, <1>2, <1>4 DEF Effect
  <2>2. \A p \in L[n - 1] : p[1] = tuple => p = <<tuple, commands[n].flow>>
    BY <1>2, <2>1 DEF OneToOne
  <2> QED BY <1>4, <2>1, <2>2 DEF Has
<1> QED BY <1>1, <1>3, <1>4

\* The last command about a flow.
LEMMA LastCommand ==
    ASSUME TypeOK, NEW tuple, About(tuple) # {}
    PROVE  \E n \in About(tuple) : \A m \in About(tuple) : m <= n
PROOF
<1> DEFINE S == {n \in 0 .. Len(commands) : \A m \in About(tuple) : m <= n}
<1>1. Len(commands) \in Nat /\ About(tuple) \subseteq 1 .. Len(commands)
  BY DEF TypeOK, About
<1>2. Len(commands) \in S /\ S \in SUBSET Nat
  BY <1>1
<1>3. PICK n \in S : \A m \in S : n <= m
  BY <1>2, LeastNumber
<1>4. n \in Nat /\ n <= Len(commands) /\ \A m \in About(tuple) : m <= n
  BY <1>1, <1>3
<1>5. n > 0
  BY <1>1, <1>4
<1>6. n - 1 \notin S
  BY <1>3, <1>4
<1>7. PICK m \in About(tuple) : ~(m <= n - 1)
  BY <1>1, <1>4, <1>5, <1>6
<1>8. m = n
  BY <1>1, <1>4, <1>7
<1> QED BY <1>4, <1>7, <1>8

\* The ring leads the switch to the flow table: it ends up with an entry for
\* exactly the known flows.
THEOREM SwitchFollows == Setting /\ TablesHaveRoom => (Spec => []SwitchFollowsFlowTable)
PROOF
<1> SUFFICES ASSUME Setting, TablesHaveRoom
             PROVE  Spec => []SwitchFollowsFlowTable
  OBVIOUS
<1>1. ControllerInv => SwitchFollowsFlowTable
  <2> SUFFICES ASSUME ControllerInv, ~dropped, NEW tuple \in FiveTuples
               PROVE  WillBeInstalled(tuple) <=>
                        (Known(tuple) \/ (handler.step = "remove" /\ handler.tuple = tuple))
    BY DEF SwitchFollowsFlowTable
  <2>1. TypeOK
    BY DEF ControllerInv
  <2>2. PICK L : Course(L)
    BY DEF ControllerInv, SwitchInv
  <2>3. Len(commands) \in Nat /\ L[0] = OnSwitch /\ L[Len(commands)] = Wanted
    BY <2>1, <2>2 DEF TypeOK, Course, EntriesAreOf
  <2>4. Has(Wanted, tuple) <=> (Known(tuple) \/ (handler.step = "remove" /\ handler.tuple = tuple))
    <3> DEFINE known == {<<t, flow_hashtable[t].value>> : t \in {u \in FiveTuples : Known(u)}}
               going == IF handler.step = "remove" THEN {<<handler.tuple, handler.flow>>} ELSE {}
    <3>1. (\E p \in known : p[1] = tuple) <=> Known(tuple)
      <4>1. ASSUME Known(tuple)
            PROVE  \E p \in known : p[1] = tuple
        <5>1. <<tuple, flow_hashtable[tuple].value>> \in known
          BY <4>1
        <5> QED BY <5>1
      <4> QED BY <4>1
    <3>2. (\E p \in going : p[1] = tuple) <=> (handler.step = "remove" /\ handler.tuple = tuple)
      <4>1. CASE handler.step = "remove"
        <5>1. going = {<<handler.tuple, handler.flow>>}
          BY <4>1
        <5> HIDE DEF going
        <5> QED BY <4>1, <5>1
      <4>2. CASE handler.step # "remove"
        <5>1. going = {}
          BY <4>2
        <5> HIDE DEF going
        <5> QED BY <4>2, <5>1
      <4> QED BY <4>1, <4>2
    <3>3. Wanted = known \cup going
      BY DEF Wanted
    <3> HIDE DEF known, going
    <3> QED BY <3>1, <3>2, <3>3 DEF Has
  <2>5. Has(OnSwitch, tuple) <=> IsInstalled(tuple)
    <3>1. ASSUME NEW h \in Installed, classification[h].tuple = tuple
          PROVE  Has(OnSwitch, tuple)
      <4>1. <<tuple, SessionOf(classification[h])>> \in OnSwitch
        BY <3>1 DEF OnSwitch
      <4> QED BY <4>1 DEF Has
    <3>2. ASSUME NEW p \in OnSwitch, p[1] = tuple
          PROVE  IsInstalled(tuple)
      BY <3>2 DEF OnSwitch, IsInstalled
    <3> QED BY <3>1, <3>2 DEF Has, IsInstalled
  <2>6. CASE About(tuple) = {}
    <3>1. Has(L[Len(commands)], tuple) <=> Has(L[0], tuple)
      BY <2>1, <2>2, <2>3, <2>6, OthersLeaveIt
    <3> QED BY <2>3, <2>4, <2>5, <2>6, <3>1 DEF WillBeInstalled
  <2>7. CASE About(tuple) # {}
    <3>1. PICK n \in About(tuple) : \A m \in About(tuple) : m <= n
      BY <2>1, <2>7, LastCommand
    <3>2. n \in 0 .. Len(commands) /\ About(tuple) \subseteq Nat
      BY <2>3 DEF About
    <3>3. Has(L[Len(commands)], tuple) <=> Has(L[n], tuple)
      BY <2>1, <2>2, <3>1, <3>2, OthersLeaveIt
    <3>4. Has(L[n], tuple) <=> commands[n].command = "DP_ADD_FLOW"
      BY <2>2, LastCommandDecides
    <3>5. \A k \in About(tuple) : (\A m \in About(tuple) : m <= k) => k = n
      BY <3>1, <3>2
    <3>6. WillBeInstalled(tuple) <=> commands[n].command = "DP_ADD_FLOW"
      BY <2>7, <3>1, <3>5 DEF WillBeInstalled
    <3> QED BY <2>3, <2>4, <3>3, <3>4, <3>6
  <2> QED BY <2>6, <2>7
<1> QED BY <1>1, ControllerInvariant, PTL
=============================================================================
