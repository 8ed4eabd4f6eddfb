----------------------------- MODULE Controller -----------------------------
(***************************************************************************)
(* flowdb_thread and dataplane_thread at work together, connected by the   *)
(* data plane ring, into which the bloom filter code also puts commands.   *)
(***************************************************************************)
EXTENDS FlowDB, DataPlane

vars == <<ringVars, flowVars, dataPlaneVars>>

\* Packets are classified in the pipe they arrive on and counted in the pipe they
\* leave on (features_egress): the indices, among the registers of all pipes, at
\* which the packets of an entry's flow are counted.
CountedAt(entry) ==
    LET Here == {port \in Arrivals[entry.tuple] : dev_port_to_pipe(port) = entry.pipe /\ DEVPORT_MAPPING[port] # -1}
    IN  {entry.register * 4 + dev_port_to_pipe(DEVPORT_MAPPING[port]) : port \in Here}

Init == RingInit /\ FlowDBInit /\ DataPlaneInit

\* bloom_filter_set_irrelevant and bloom_filter_set_relevant, in flowdb_thread,
\* and bloom_filter_maintenance, in a thread of its own, fill the same ring.
PutBloomFilter ==
    /\ Put(BloomFilterCommand)
    /\ UNCHANGED <<flowVars, dataPlaneVars>>

Next ==
    \/ FlowDBStep /\ UNCHANGED dataPlaneVars
    \/ DataPlaneStep /\ UNCHANGED flowVars
    \/ PutBloomFilter

Spec == Init /\ [][Next]_vars

\* dataplane_thread polls the ring for ever and flowdb_thread finishes the
\* handler it is in; nobody is obliged to send packets.
FairSpec ==
    /\ Spec
    /\ WF_vars(DataPlaneStep /\ UNCHANGED flowVars)
    /\ WF_vars((SendRemove \/ CleanupFlow \/ \E value \in Ids \cup {0} : CleanupSession(value))
               /\ UNCHANGED dataPlaneVars)

------------------------------------------------------------------------------
(* Properties of the flow database *)

\* The types of the flow database's state, of the commands in the ring and of
\* the data plane thread's cache.
TypeOK ==
    /\ flow_id_heap \in [Pipes -> SUBSET Ids]
    /\ session_id_heap \in [Pipes -> SUBSET Ids]
    /\ flow_hashtable \in [FiveTuples -> [value : Ids, port : Ports] \cup {Unoccupied}]
    /\ session_hashtable \in [SessionKeys -> Ids \cup {0}]
    /\ flow_count \in [Ids \cup {0} -> Int]
    /\ handler \in Removal \cup {Idle}
    /\ commands \in Seq(Command)
    /\ Len(commands) <= RingSize
    /\ dropped \in BOOLEAN
    /\ entry_hdls \in [Ids -> Nat]

\* Every id is in exactly one place: free in one heap, or with one owner.
Conserved(heap, owner, Owners) ==
    /\ \A id \in Ids : (\E pipe \in Pipes : id \in heap[pipe]) \/ (\E o \in Owners : owner[o] = id)
    /\ \A p, q \in Pipes : \A id \in Ids : id \in heap[p] /\ id \in heap[q] => p = q
    /\ \A o \in Owners, pipe \in Pipes : owner[o] \notin heap[pipe]
    /\ \A o1, o2 \in Owners : owner[o1] = owner[o2] /\ owner[o1] # 0 => o1 = o2

FlowIdOf == [tuple \in FiveTuples |-> flow_hashtable[tuple].value]

\* No id is lost, duplicated or given to two flows, on every path through
\* add_flow (flow known, no session id, ring full) and both removals: every
\* flow id is in one heap or with one flow, and every session id in one heap
\* or with one session.
IdsConserved ==
    /\ Conserved(flow_id_heap, FlowIdOf, FiveTuples)
    /\ Conserved(session_id_heap, session_hashtable, SessionKeys)

\* "globally unique flow ids. So we can see just from the flow id, on which pipe
\* the flow resides" (flow_db.c:156): an id is used, and kept, on its own pipe.
IdShowsPipe ==
    /\ \A tuple \in FiveTuples : Known(tuple) =>
          flow_id_to_pipe(flow_hashtable[tuple].value) = dev_port_to_pipe(flow_hashtable[tuple].port)
    /\ \A pipe \in Pipes : \A id \in flow_id_heap[pipe] \cup session_id_heap[pipe] :
          flow_id_to_pipe(id) = pipe

\* Without sessions and without refused commands, a flow's id and its session's
\* id are the same number.  The aging in features.c depends on it: it sends a
\* session id in PKT_TIMEOUT_FLOW, and remove_flow_by_flow_id takes it for a
\* flow id.
IdsInLockstep ==
    ~UseSessions /\ ~dropped =>
        \A tuple \in FiveTuples :
            IF handler # Idle /\ tuple = handler.tuple
              THEN ~Known(tuple) /\ session_hashtable[tuple] = handler.flow
              ELSE session_hashtable[tuple] = flow_hashtable[tuple].value

------------------------------------------------------------------------------
(* Properties of the two threads together *)

\* The commands in the ring that change the switch entry of a flow.
About(tuple) ==
    {n \in 1 .. Len(commands) :
        /\ commands[n].command \in {"DP_ADD_FLOW", "DP_REMOVE_FLOW"}
        /\ commands[n].tuple = tuple}

IsInstalled(tuple) == \E h \in Installed : classification[h].tuple = tuple

\* Whether the switch has an entry for the flow once the ring is empty.
WillBeInstalled(tuple) ==
    IF About(tuple) = {} THEN IsInstalled(tuple)
    ELSE \E n \in About(tuple) :
            /\ \A m \in About(tuple) : m <= n
            /\ commands[n].command = "DP_ADD_FLOW"

\* As long as no command was refused, the ring leads the switch to the flow
\* table: it ends up with an entry for exactly the known flows.
SwitchFollowsFlowTable ==
    ~UseSessions /\ ~dropped =>
        \A tuple \in FiveTuples :
            WillBeInstalled(tuple) <=> Known(tuple) \/ (handler.step = "remove" /\ handler.tuple = tuple)

\* The entry a DP_REMOVE_FLOW at the head of the ring names, by the handle
\* cached for its flow id.
NamedEntry == <<l3_proto[Head(commands).tuple], entry_hdls[Head(commands).flow]>>

\* The cache of handles "saves one controller <-> data plane round trip compared
\* to delete operations on the match_spec" (dataplane.c:20), and does the same:
\* although flow ids and handles are both reused, a removal never deletes
\* another flow's entry, as long as the tables have room for all flow ids.
RemovalHitsItsFlow ==
    ~UseSessions /\ ~dropped /\ commands # << >> /\ Head(commands).command = "DP_REMOVE_FLOW" =>
        (NamedEntry \in Installed => classification[NamedEntry].tuple = Head(commands).tuple)

\* The switch rejects nothing as long as its tables have room for all flow ids:
\* an addition meets neither an entry of the same flow nor a full table, and
\* a removal names an entry.
NothingRejected ==
    ~UseSessions /\ ~dropped /\ commands # << >> =>
        LET command == Head(commands)
        IN  /\ command.command = "DP_ADD_FLOW" => Accepts(command.tuple, dev_port_to_pipe(command.port))
            /\ command.command = "DP_REMOVE_FLOW" => NamedEntry \in Installed

\* No two pipes forward to ports of the same pipe: session ids are those of the
\* pipe that packets arrive on, and registers those of the pipe they leave on.
EgressPipesApart ==
    \A p, q \in {port \in Ports : DEVPORT_MAPPING[port] # -1} :
        dev_port_to_pipe(DEVPORT_MAPPING[p]) = dev_port_to_pipe(DEVPORT_MAPPING[q]) =>
            dev_port_to_pipe(p) = dev_port_to_pipe(q)

\* A clear of registers carries an egress offset of its session's pipe.  The one
\* of a timeout does; that of a FIN is whatever the parser left (packet_handler.c:238).
OffsetFits(command) ==
    \E port \in Ports : /\ DEVPORT_MAPPING[port] # -1
                        /\ dev_port_to_pipe(port) = flow_id_to_pipe(command.session)
                        /\ command.offset = EgressOffset(port)

\* Session ids are given out again before the switch has heard that their last
\* flow is gone, and still no two entries of the switch ever count into the
\* same registers, and a clear with a fitting offset zeroes no value that the
\* packets of an installed flow are counted for: unless two pipes forward to
\* the same pipe.
CountersNotShared ==
    ~UseSessions /\ ~dropped /\ EgressPipesApart =>
        /\ \A g, h \in Installed :
              CountedAt(classification[g]) \cap CountedAt(classification[h]) # {} => g = h
        /\ commands # << >> /\ Head(commands).command = "DP_CLEAR_REGISTERS" /\ OffsetFits(Head(commands)) =>
              \A h \in Installed : Head(commands).session + Head(commands).offset \notin CountedAt(classification[h])

\* What flowdb_thread does on behalf of packets, and the bloom filter's puts.
Input ==
    \/ PutBloomFilter
    \/ handler = Idle /\ handler' # Idle
    \/ \E tuple \in FiveTuples : ~Known(tuple) /\ Known(tuple)'

\* Once no more packets arrive, flowdb_thread finishes its handler, the ring is
\* emptied, and the switch has an entry for exactly the known flows, unless a
\* command was refused.
Converges ==
    <>[][~Input]_vars =>
        <>[](/\ handler = Idle
             /\ commands = << >>
             /\ ~dropped => \A tuple \in FiveTuples : IsInstalled(tuple) <=> Known(tuple))

\* remove_flow_by_flow_id cannot hang in ensure_put: it finishes as soon as the
\* bloom filter stops refilling the ring.
RemovalFinishes == <>[][~PutBloomFilter]_vars => (handler # Idle ~> handler = Idle)

------------------------------------------------------------------------------
(* What a comment in the code says, and the code does not do (see README) *)

\* "we don't really want to remove sessions that still have active flows"
\* (session_hashtable.c:193).
SessionsOutliveFlows ==
    [][\A key \in SessionKeys :
          session_hashtable[key] # 0 /\ session_hashtable'[key] = 0 =>
              \A tuple \in FiveTuples : SessionKey(tuple) = key => ~Known(tuple)]_vars
=============================================================================
