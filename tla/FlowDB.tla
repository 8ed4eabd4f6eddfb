------------------------------- MODULE FlowDB -------------------------------
(***************************************************************************)
(* flowdb_thread (flow_db/flow_db.c): it owns the flow and session ids and *)
(* the flow and session tables, executes the commands of the packet ring   *)
(* one after the other, and tells the data plane thread what to install,   *)
(* to remove and to clear.                                                 *)
(*                                                                         *)
(* The hash tables are the dictionaries they implement; a heap is the set  *)
(* of its ids, of which heap_pop returns the lowest.  Every handler is one *)
(* action up to its access to the data plane ring, because dataplane_      *)
(* thread may empty the ring between two puts of the same handler.         *)
(***************************************************************************)
EXTENDS Commands

CONSTANTS Arrivals,     \* the ports on which packets of a five tuple arrive
          Garbage,      \* what the uninitialised session_id_egress_offset of a
                        \* parsed packet may hold
          CountBound    \* bound on the flow counters, for TLC

ASSUME ArrivalsAssumption == Arrivals \in [FiveTuples -> SUBSET Ports]
ASSUME CountBoundAssumption == CountBound \in Nat
ASSUME GarbageAssumption == Garbage \subseteq Int

VARIABLES flow_id_heap,         \* free flow ids of every pipe
          session_id_heap,      \* free session ids of every pipe
          flow_hashtable,       \* flow id and ingress port of every known flow
          session_hashtable,    \* session id of every known session, else 0
          flow_count,           \* the session table's flow counters
          handler               \* the removal flowdb_thread is executing

heaps   == <<flow_id_heap, session_id_heap>>
tables  == <<flow_hashtable, session_hashtable, flow_count>>
flowVars == <<flow_id_heap, session_id_heap, flow_hashtable, session_hashtable,
              flow_count, handler>>

Unoccupied == [value |-> 0, port |-> -1]
Idle == [step |-> "idle"]
Removal == [step : {"remove", "cleanup"}, tuple : FiveTuples, port : Ports, offset : Int,
            flow : Ids, put : {"put", "ensure_put"}]

Known(tuple) == flow_hashtable[tuple].value # 0
SessionKnown(tuple) == session_hashtable[SessionKey(tuple)] # 0

------------------------------------------------------------------------------
(* Heaps: flowdb_thread never pushes an id that is in a heap already (see    *)
(* IdsConserved), so a set loses nothing.                                    *)

HeapPop(heap) == IF heap = {} THEN 0 ELSE CHOOSE id \in heap : \A other \in heap : id <= other

HeapPushFirst(heap, port, id) == [heap EXCEPT ![0] = @ \cup {id}]

HeapPush(heap, port, id) == [heap EXCEPT ![dev_port_to_pipe(port)] = @ \cup {id}]

HeapRemove(heap, port, id) == [heap EXCEPT ![dev_port_to_pipe(port)] = @ \ {id}]

FlowDBInit ==
    /\ flow_id_heap = [pipe \in Pipes |-> IdsOf(pipe)]
    /\ session_id_heap = [pipe \in Pipes |-> IdsOf(pipe)]
    /\ flow_hashtable = [tuple \in FiveTuples |-> Unoccupied]
    /\ session_hashtable = [key \in SessionKeys |-> 0]
    /\ flow_count = [id \in Ids \cup {0} |-> 0]
    /\ handler = Idle

------------------------------------------------------------------------------
(* add_flow.  A command for a port that is not forwarded, for a pipe without  *)
(* free flow ids or for a flow that is known already has no effect (the flow  *)
(* id goes back to the heap it was taken from).                               *)

CanAdd(tuple, port) ==
    /\ handler = Idle
    /\ port \in Arrivals[tuple]
    /\ DEVPORT_MAPPING[port] # -1
    /\ flow_id_heap[dev_port_to_pipe(port)] # {}
    /\ ~Known(tuple)

SessionForNew(tuple, port) == HeapPop(session_id_heap[dev_port_to_pipe(port)])

\* The session id of a new flow: that of its session, or a new one, 0 if there
\* is none.
SessionFor(tuple, port) ==
    IF SessionKnown(tuple) THEN session_hashtable[SessionKey(tuple)]
                           ELSE HeapPop(session_id_heap[dev_port_to_pipe(port)])

\* session_hashtable_add_or_increase_flow_count, for a session id that is new or
\* that of the session's entry.  The first flow of a session is not counted.
AddSession(tuple, port, session) ==
    /\ session_id_heap' = IF SessionKnown(tuple) THEN session_id_heap
                                                ELSE HeapRemove(session_id_heap, port, session)
    /\ session_hashtable' = [session_hashtable EXCEPT ![SessionKey(tuple)] = session]
    /\ IF UseSessions /\ SessionKnown(tuple)
         THEN /\ flow_count[session] < CountBound
              /\ flow_count' = [flow_count EXCEPT ![session] = @ + 1]
         ELSE UNCHANGED flow_count

\* The flow id is not returned when the data plane command is refused.
AddFlowLeaking(tuple, port) ==
    LET flow    == HeapPop(flow_id_heap[dev_port_to_pipe(port)])
        session == SessionFor(tuple, port)
    IN  /\ CanAdd(tuple, port)
        /\ session # 0
        /\ AddSession(tuple, port, session)
        /\ Put(AddFlowCommand(tuple, port, flow, session))
        /\ flow_id_heap' = HeapRemove(flow_id_heap, port, flow)
        /\ flow_hashtable' = IF Room THEN [flow_hashtable EXCEPT ![tuple] = [value |-> flow, port |-> port]]
                                     ELSE flow_hashtable
        /\ UNCHANGED handler

\* A refused data plane command undoes the flow, but not the session.
AddFlow(tuple, port) ==
    LET flow    == HeapPop(flow_id_heap[dev_port_to_pipe(port)])
        session == SessionFor(tuple, port)
    IN  /\ CanAdd(tuple, port)
        /\ session # 0
        /\ AddSession(tuple, port, session)
        /\ Put(AddFlowCommand(tuple, port, flow, session))
        /\ IF Room
             THEN /\ flow_id_heap' = HeapRemove(flow_id_heap, port, flow)
                  /\ flow_hashtable' = [flow_hashtable EXCEPT ![tuple] = [value |-> flow, port |-> port]]
             ELSE UNCHANGED <<flow_id_heap, flow_hashtable>>
        /\ UNCHANGED handler

\* No session id is left: the flow stays in the flow table with its id, but the
\* data plane never learns about it.
AddFlowWithoutSession(tuple, port) ==
    LET flow == HeapPop(flow_id_heap[dev_port_to_pipe(port)])
    IN  /\ CanAdd(tuple, port)
        /\ SessionFor(tuple, port) = 0
        /\ flow_id_heap' = HeapRemove(flow_id_heap, port, flow)
        /\ flow_hashtable' = [flow_hashtable EXCEPT ![tuple] = [value |-> flow, port |-> port]]
        /\ UNCHANGED <<session_id_heap, session_hashtable, flow_count, handler, ringVars>>

------------------------------------------------------------------------------
(* Removals: the flow leaves the table and its id the flow, then the data     *)
(* plane is told, then the session is cleaned up.                             *)

\* The data plane is not told.
StartRemovalSilent(tuple, port, offset, put) ==
    /\ flow_id_heap' = HeapPush(flow_id_heap, port, flow_hashtable[tuple].value)
    /\ flow_hashtable' = [flow_hashtable EXCEPT ![tuple] = Unoccupied]
    /\ handler' = [step |-> "cleanup", tuple |-> tuple, port |-> port, offset |-> offset,
                   flow |-> flow_hashtable[tuple].value, put |-> put]
    /\ UNCHANGED <<session_id_heap, session_hashtable, flow_count, ringVars>>

StartRemoval(tuple, port, offset, put) ==
    /\ flow_id_heap' = HeapPush(flow_id_heap, port, flow_hashtable[tuple].value)
    /\ flow_hashtable' = [flow_hashtable EXCEPT ![tuple] = Unoccupied]
    /\ handler' = [step |-> "remove", tuple |-> tuple, port |-> port, offset |-> offset,
                   flow |-> flow_hashtable[tuple].value, put |-> put]
    /\ UNCHANGED <<session_id_heap, session_hashtable, flow_count, ringVars>>

\* remove_flow_by_five_tuple: a TCP FIN arrived.  The port and the egress offset
\* are those of the parsed packet, not of the flow's entry.
RemoveFlowByFiveTuple(tuple, port, offset) ==
    /\ handler = Idle
    /\ port \in Arrivals[tuple]
    /\ Known(tuple)
    /\ StartRemoval(tuple, port, offset, "put")

\* remove_flow_by_flow_id: the flow with this id timed out; unknown ids are only
\* logged.  The port and the egress offset are those of the flow's entry.
RemoveFlowByFlowId(tuple) ==
    /\ handler = Idle
    /\ Known(tuple)
    /\ StartRemoval(tuple, flow_hashtable[tuple].port,
                    EgressOffset(flow_hashtable[tuple].port), "ensure_put")

\* DP_REMOVE_FLOW: with put it is lost when the ring is full, with ensure_put
\* flowdb_thread waits.
SendRemove ==
    /\ handler.step = "remove"
    /\ LET command == RemoveFlowCommand(handler.tuple, handler.flow)
       IN  IF handler.put = "put" THEN Put(command) ELSE EnsurePut(command)
    /\ handler' = [handler EXCEPT !.step = "cleanup"]
    /\ UNCHANGED <<heaps, tables>>

\* session_hashtable_remove_or_decrease_flow_count returns 0: the session entry
\* is removed, its id is free and the registers are cleared.
RemoveSession ==
    LET key     == SessionKey(handler.tuple)
        session == session_hashtable[key]
    IN  /\ session # 0
        /\ session_hashtable' = [session_hashtable EXCEPT ![key] = 0]
        /\ session_id_heap' = HeapPush(session_id_heap, handler.port, session)
        /\ Put(ClearRegistersCommand(session, handler.offset))
        /\ handler' = Idle
        /\ UNCHANGED <<flow_id_heap, flow_hashtable>>

KeepSession ==
    /\ handler' = Idle
    /\ UNCHANGED <<heaps, flow_hashtable, session_hashtable, ringVars>>

\* The session outlives its only flow.
CleanupFlowForgotten ==
    /\ handler.step = "cleanup"
    /\ ~UseSessions
    /\ KeepSession
    /\ UNCHANGED flow_count

\* session_cleanup_after_flow_remove without sessions.
CleanupFlow ==
    /\ handler.step = "cleanup"
    /\ ~UseSessions
    /\ RemoveSession \/ (~SessionKnown(handler.tuple) /\ KeepSession)
    /\ UNCHANGED flow_count

\* session_cleanup_after_flow_remove with sessions: the counter to decrease is
\* that of the session id in *value, which nobody has set yet.
CleanupSession(value) ==
    /\ handler.step = "cleanup"
    /\ UseSessions
    /\ flow_count[value] > -CountBound
    /\ flow_count' = [flow_count EXCEPT ![value] = @ - 1]
    /\ IF flow_count[value] - 1 = 0 THEN RemoveSession \/ (~SessionKnown(handler.tuple) /\ KeepSession)
                                    ELSE KeepSession

FlowDBStep ==
    \/ \E tuple \in FiveTuples, port \in Ports :
          \/ AddFlow(tuple, port)
          \/ AddFlowWithoutSession(tuple, port)
          \/ \E offset \in Garbage : RemoveFlowByFiveTuple(tuple, port, offset)
    \/ \E tuple \in FiveTuples : RemoveFlowByFlowId(tuple)
    \/ SendRemove
    \/ CleanupFlow
    \/ \E value \in Ids \cup {0} : CleanupSession(value)
=============================================================================
