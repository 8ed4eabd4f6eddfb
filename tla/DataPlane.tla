------------------------------ MODULE DataPlane ------------------------------
(***************************************************************************)
(* dataplane_thread (dataplane/dataplane.c) and the switch tables it       *)
(* writes through dp_api.c.  It executes the commands of the data plane    *)
(* ring in order; a command the switch rejects is only reported.           *)
(*                                                                         *)
(* The classification tables belong to the switch.  There is one for IPv4  *)
(* and one for IPv6; an entry is named by its table and the handle that    *)
(* table_add returned, and handles of deleted entries are given out again. *)
(***************************************************************************)
EXTENDS Commands

CONSTANTS l3_proto,     \* L3_IPV4 or L3_IPV6, of every five tuple
          TableSize     \* MAX_IP4_FLOWS and MAX_IP6_FLOWS: entries per pipe

Protocols == {"L3_IPV4", "L3_IPV6"}

ASSUME ProtocolsAssumption == l3_proto \in [FiveTuples -> Protocols]
ASSUME TableSizeAssumption == TableSize \in [Protocols -> Nat]

VARIABLES classification,   \* the switch's entries, by table and handle
          entry_hdls        \* the handle dataplane_thread remembers for a flow id

dataPlaneVars == <<classification, entry_hdls>>

Numbers(proto) == 1 .. NumPipes * TableSize[proto]
Handles == UNION {{proto} \X Numbers(proto) : proto \in Protocols}
NoEntry == [tuple |-> "none", pipe |-> -1, register |-> 0]

DataPlaneInit ==
    /\ classification = [h \in Handles |-> NoEntry]
    /\ entry_hdls = [id \in Ids |-> 0]

Installed == {h \in Handles : classification[h] # NoEntry}

\* The entries of a flow's table in a pipe.
Entries(proto, pipe) == {h \in Installed : h[1] = proto /\ classification[h].pipe = pipe}

\* The switch rejects a second entry with the same key, and an entry for which
\* its table has no room.
Accepts(tuple, pipe) ==
    /\ Cardinality(Entries(l3_proto[tuple], pipe)) < TableSize[l3_proto[tuple]]
    /\ \A h \in Entries(l3_proto[tuple], pipe) : classification[h].tuple # tuple

GetCommand(command) ==
    /\ commands # << >>
    /\ Head(commands).command = command
    /\ commands' = Tail(commands)
    /\ UNCHANGED dropped

\* switch_add_classification_entry, when the switch accepts: the entry goes into
\* the table of the flow's protocol and the pipe of its port, and holds the index
\* of the flow's registers; the switch chooses the handle.
switch_add_classification_entry(tuple, port, register_index, handle) ==
    /\ Accepts(tuple, dev_port_to_pipe(port))
    /\ handle[1] = l3_proto[tuple]
    /\ handle \notin Installed
    /\ classification' = [classification EXCEPT ![handle] =
          [tuple |-> tuple, pipe |-> dev_port_to_pipe(port), register |-> register_index]]

\* The handle is cached for the first flow of an id only.
InstallFlowOnce(handle) ==
    LET command == Head(commands)
    IN  /\ GetCommand("DP_ADD_FLOW")
        /\ switch_add_classification_entry(command.tuple, command.port,
              flow_id_to_register_index(command.session), handle)
        /\ entry_hdls' = [entry_hdls EXCEPT ![command.flow] = IF @ = 0 THEN handle[2] ELSE @]

\* DP_ADD_FLOW
InstallFlow(handle) ==
    LET command == Head(commands)
    IN  /\ GetCommand("DP_ADD_FLOW")
        /\ switch_add_classification_entry(command.tuple, command.port,
              flow_id_to_register_index(command.session), handle)
        /\ entry_hdls' = [entry_hdls EXCEPT ![command.flow] = handle[2]]

\* The flow id keeps the handle of the flow that had it before.
RejectFlow ==
    /\ GetCommand("DP_ADD_FLOW")
    /\ ~Accepts(Head(commands).tuple, dev_port_to_pipe(Head(commands).port))
    /\ UNCHANGED dataPlaneVars

UninstallNothing ==
    /\ GetCommand("DP_REMOVE_FLOW")
    /\ UNCHANGED dataPlaneVars

\* switch_remove_classification_entry: the table is that of the five tuple; the
\* switch rejects a handle without an entry.
switch_remove_classification_entry(tuple, entry_hdl) ==
    classification' = [h \in Handles |-> IF h = <<l3_proto[tuple], entry_hdl>> THEN NoEntry ELSE classification[h]]

\* A removal is tried again until the switch accepts it.
UninstallFlowRetried ==
    LET command == Head(commands)
    IN  /\ GetCommand("DP_REMOVE_FLOW")
        /\ <<l3_proto[command.tuple], entry_hdls[command.flow]>> \in Installed
        /\ switch_remove_classification_entry(command.tuple, entry_hdls[command.flow])
        /\ UNCHANGED entry_hdls

\* DP_REMOVE_FLOW: the entry is named by the handle cached for the flow id.
UninstallFlow ==
    LET command == Head(commands)
    IN  /\ GetCommand("DP_REMOVE_FLOW")
        /\ switch_remove_classification_entry(command.tuple, entry_hdls[command.flow])
        /\ UNCHANGED entry_hdls

\* DP_CLEAR_REGISTERS: no table is touched; module Features adds the feature
\* values that are zeroed.
ClearRegisters ==
    /\ GetCommand("DP_CLEAR_REGISTERS")
    /\ UNCHANGED dataPlaneVars

\* Only the bloom filter registers are written.
WriteBloomFilter ==
    /\ GetCommand("DP_BLOOM_FILTER")
    /\ UNCHANGED dataPlaneVars

DataPlaneStep ==
    \/ \E handle \in Handles : InstallFlow(handle)
    \/ RejectFlow
    \/ UninstallFlow
    \/ ClearRegisters
    \/ WriteBloomFilter
=============================================================================
