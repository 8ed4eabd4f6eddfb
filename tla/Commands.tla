------------------------------ MODULE Commands ------------------------------
(***************************************************************************)
(* What the controller's threads share: five tuples, device ports, flow    *)
(* and session ids (datastructures/structs.h), and the data plane command  *)
(* ring (datastructures/dataplane_ringbuffer.h) between flowdb_thread,     *)
(* the bloom filter code and dataplane_thread.                             *)
(*                                                                         *)
(* The ring is the bounded FIFO queue that module CommandRing implements:  *)
(* a put is one step, and is refused exactly when the ring is full.        *)
(***************************************************************************)
EXTENDS Integers, Sequences, FiniteSets

CONSTANTS FiveTuples,       \* the flows: addresses, ports and protocol
          Ports,            \* device ports, 0 .. 511
          DEVPORT_MAPPING,  \* egress port of an ingress port, or -1
          NumPipes,         \* NUM_PIPES
          HeapSize,         \* HEAPSIZE: ids per pipe
          RingSize,         \* DATAPLANE_RINGBUFFER_SIZE
          UseSessions,      \* use_sessions(): several flows share a session
          Client            \* the client address and direction of a five tuple

Pipes == 0 .. NumPipes - 1

ASSUME PipesAssumption == NumPipes \in 1 .. 4
ASSUME HeapSizeAssumption == HeapSize \in Nat \ {0}
ASSUME RingSizeAssumption == RingSize \in Nat \ {0}
ASSUME SessionsAssumption == UseSessions \in BOOLEAN

dev_port_to_pipe(port) == port \div 128

\* Every port belongs to a pipe, and forwarding stays within the ports.
ASSUME PortsAssumption ==
    /\ Ports \subseteq Nat
    /\ \A port \in Ports : dev_port_to_pipe(port) \in Pipes
    /\ DEVPORT_MAPPING \in [Ports -> Ports \cup {-1}]

\* The pipe of an id, and the index of its registers there.
flow_id_to_pipe(id) == id % 4
flow_id_to_register_index(id) == id \div 4

\* The ids flowdb_thread puts into the heaps of a pipe: 0 is never one of
\* them, heap_pop returns it for an empty heap.
IdsOf(pipe) == {(index + 1) * 4 + pipe : index \in 0 .. HeapSize - 1}
Ids == UNION {IdsOf(pipe) : pipe \in Pipes}

\* The part of a five tuple the session table is keyed by.
SessionKey(tuple) == IF UseSessions THEN Client[tuple] ELSE tuple
SessionKeys == {SessionKey(tuple) : tuple \in FiveTuples}

\* The pipe of the egress port relative to the pipe of the ingress port.
EgressOffset(port) == dev_port_to_pipe(DEVPORT_MAPPING[port]) - dev_port_to_pipe(port)

------------------------------------------------------------------------------
VARIABLES commands,     \* the data plane ring, oldest command first
          dropped       \* the dp_ringbuffer statistic: has a put been refused?

ringVars == <<commands, dropped>>

RingInit == commands = << >> /\ dropped = FALSE

Room == Len(commands) < RingSize

\* Put without its look at full.
PutUnchecked(command) ==
    /\ commands' = Append(commands, command)
    /\ UNCHANGED dropped

\* dataplane_ringbuffer_put
Put(command) ==
    /\ commands' = IF Room THEN Append(commands, command) ELSE commands
    /\ dropped' = (dropped \/ ~Room)

\* dataplane_ringbuffer_ensure_put
EnsurePut(command) ==
    /\ Room
    /\ Put(command)

AddFlowCommand(tuple, port, flow, session) ==
    [command |-> "DP_ADD_FLOW", tuple |-> tuple, port |-> port, flow |-> flow, session |-> session]

RemoveFlowCommand(tuple, flow) ==
    [command |-> "DP_REMOVE_FLOW", tuple |-> tuple, flow |-> flow]

ClearRegistersCommand(session, offset) ==
    [command |-> "DP_CLEAR_REGISTERS", session |-> session, offset |-> offset]

\* DP_ADD_BLOOM_FILTER and DP_REMOVE_BLOOM_FILTER: for the flows, a command that
\* takes up a place in the ring.
BloomFilterCommand == [command |-> "DP_BLOOM_FILTER"]

\* dataplane_command_t
Command ==
    [command : {"DP_ADD_FLOW"}, tuple : FiveTuples, port : Ports, flow : Ids, session : Ids]
        \cup [command : {"DP_REMOVE_FLOW"}, tuple : FiveTuples, flow : Ids]
        \cup [command : {"DP_CLEAR_REGISTERS"}, session : Ids, offset : Int]
        \cup {BloomFilterCommand}
=============================================================================
