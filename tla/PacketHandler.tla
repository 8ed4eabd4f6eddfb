---------------------------- MODULE PacketHandler ----------------------------
(***************************************************************************)
(* The way of a packet into the flow database: the switch decides which    *)
(* packets the controller sees (control ingress of the P4 program), and    *)
(* packet_thread (packet_handler/packet_handler.c) looks a packet's        *)
(* addresses up in the DNS table and puts commands into the packet ring.   *)
(* Every lookup is a step of its own, and so is every put into the packet  *)
(* ring.                                                                   *)
(*                                                                         *)
(* What follows the packet ring is modelled in detail by FlowDB, DataPlane *)
(* and BloomFilter.  Here it is the set of known flows, which the switch    *)
(* classifies, and the set of UDP flows that its filters hide; both change *)
(* as soon as flowdb_thread takes the command, which may be long after the *)
(* packet.  The data plane ring refuses nothing here.                      *)
(***************************************************************************)
EXTENDS DnsDb

CONSTANTS FiveTuples,
          Src, Dst,         \* the addresses of a five tuple
          SrcPort,          \* its source port
          L3Proto, L4Proto,
          Flags,            \* the TCP flags its packets may have
          Payloads,         \* the answer sections they may carry
          UseDnsDb,         \* USE_DNS_DB
          PacketRingSize,   \* PACKET_RINGBUFFER_SIZE
          FlowIds           \* the number of flow ids

ASSUME PacketRingAssumption == PacketRingSize \in Nat \ {0} /\ FlowIds \in Nat
ASSUME UseDnsDbAssumption == UseDnsDb \in BOOLEAN
ASSUME TuplesAssumption ==
    /\ Src \in [FiveTuples -> Addresses] /\ Dst \in [FiveTuples -> Addresses]
    /\ L3Proto \in [FiveTuples -> L3] /\ L4Proto \in [FiveTuples -> {"L4_TCP", "L4_UDP"}]
ASSUME PortsAssumption == SrcPort \in [FiveTuples -> 0 .. 65535]
ASSUME PayloadsAssumption ==
    \A tuple \in FiveTuples : \A answers \in Payloads[tuple] : \A n \in AddressRecords(answers) :
        answers[n].address \in Addresses /\ answers[n].ttl \in 0 .. MaxTtl

VARIABLES cpu_port,         \* the packet on its way to the controller
          thread,           \* packet_thread
          packet_ring,
          known,            \* the flow table, and the switch's classification tables
          filtered,         \* the flows whose bits are set in all bloom filters
          captured          \* the relevant answers of the last DNS response to it

vars == <<dnsVars, cpu_port, thread, packet_ring, known, filtered, captured>>

Idle  == [step |-> "idle"]
Empty == [tuple |-> "none"]

IsTcp(tuple) == L4Proto[tuple] = "L4_TCP"
IsUdp(tuple) == L4Proto[tuple] = "L4_UDP"

\* A packet, as far as somebody looks at it: the TCP flags and, if it is a DNS
\* response, its answer section.
Packets ==
    UNION {[tuple : {tuple}, flags : Flags[tuple],
            answers : Payloads[tuple]] : tuple \in FiveTuples}

Init ==
    /\ DnsInit
    /\ cpu_port = Empty
    /\ thread = Idle
    /\ packet_ring = << >>
    /\ known = {} /\ filtered = {}
    /\ captured = {}

------------------------------------------------------------------------------
(* The switch *)

\* parse_udp and the tests of the DNS header.
IsDnsResponse(packet) == SrcPort[packet.tuple] = 53 /\ packet.answers # << >>

\* control ingress: the packets of a classified flow are counted and not shown
\* to the controller, but for a FIN; other UDP packets are shown unless all four
\* filters know their flow.
ToController(packet) ==
    LET tuple == packet.tuple
    IN  IF tuple \in known
          THEN IsTcp(tuple) /\ "FIN" \in packet.flags
          ELSE \/ IsTcp(tuple) /\ "SYN" \in packet.flags
               \/ IsUdp(tuple) /\ (IsDnsResponse(packet) \/ tuple \notin filtered)

\* What parse_dns_packet and the P4 program's authors want from a DNS message:
\* its relevant addresses, with the time they are valid until.
RelevantAnswers(packet) ==
    {[type |-> IF packet.answers[n].type = "ns_t_a" THEN "L3_IPV4" ELSE "L3_IPV6",
      address |-> packet.answers[n].address,
      timeout |-> now + packet.answers[n].ttl] : n \in Relevant(packet.answers)}

\* check_bloom: clr_bitc shows whether a bit was set, and clears it.
FilteredAfter(packet) == IF packet.tuple \in known THEN filtered ELSE filtered \ {packet.tuple}

\* A packet that gets lost, in a full buffer for instance, does not arrive.
Arrive(packet) ==
    /\ cpu_port = Empty
    /\ ToController(packet)
    /\ cpu_port' = packet
    /\ captured' = IF IsDnsResponse(packet) THEN RelevantAnswers(packet) ELSE captured
    /\ filtered' = FilteredAfter(packet)
    /\ UNCHANGED <<dnsVars, thread, packet_ring, known>>

\* A packet that its flow's bits hide from the controller.
Hide(packet) ==
    /\ ~ToController(packet)
    /\ packet.tuple \in filtered \ known
    /\ filtered' = FilteredAfter(packet)
    /\ UNCHANGED <<dnsVars, cpu_port, thread, packet_ring, known, captured>>

------------------------------------------------------------------------------
(* packet_thread *)

At(step) == thread.step = step
Goto(step) == thread' = [thread EXCEPT !.step = step]

Fits == Len(packet_ring) < PacketRingSize

\* packet_ringbuffer_put, whose result nobody looks at.
PutPacket(command) ==
    packet_ring' = IF Fits THEN Append(packet_ring, [command |-> command, tuple |-> thread.tuple])
                           ELSE packet_ring

\* The port as a little endian machine reads it from the header.
SwapEndian16(port) == (port % 256) * 256 + port \div 256

\* packet_handler up to its calls of setup_session_hash and dns_ringbuffer_put.
\* The source port is compared in network byte order.
Receive ==
    /\ At("idle")
    /\ cpu_port # Empty
    /\ cpu_port' = Empty
    /\ IF IsUdp(cpu_port.tuple) /\ SwapEndian16(SrcPort[cpu_port.tuple]) = 53
         THEN /\ PutDns(AddPkt(cpu_port.answers))
              /\ UNCHANGED thread
         ELSE /\ thread' = [step |-> "session src", tuple |-> cpu_port.tuple, flags |-> cpu_port.flags,
                         client |-> "none"]
              /\ UNCHANGED dns_ring
    /\ UNCHANGED <<now, dns_hashtable, dns_db, torn, packet_ring, known, filtered, captured>>

SrcKey == [type |-> L3Proto[thread.tuple], address |-> Src[thread.tuple]]
DstKey == [type |-> L3Proto[thread.tuple], address |-> Dst[thread.tuple]]

\* isInDnsHashtable: without the DNS database every address is.
InTable(value) == ~UseDnsDb \/ value # Absent

\* What a lookup of packet_thread leaves alone.
OnlyReads == UNCHANGED <<now, dns_hashtable, dns_db, cpu_port, packet_ring, known, filtered, captured>>

\* setup_session_hash: which of the addresses is the client's.
SessionSrc ==
    /\ At("session src")
    /\ \E value \in Lookups(SrcKey) :
          /\ Get(SrcKey, value)
          /\ IF InTable(value) THEN thread' = [thread EXCEPT !.step = "process", !.client = "dst"]
                               ELSE Goto("session dst")
    /\ OnlyReads /\ UNCHANGED dns_ring

SessionDstForgotten ==
    /\ At("session dst")
    /\ \E value \in Lookups(DstKey) : Get(DstKey, value) /\ Goto("process")
    /\ OnlyReads /\ UNCHANGED dns_ring

SessionDst ==
    /\ At("session dst")
    /\ \E value \in Lookups(DstKey) :
          /\ Get(DstKey, value)
          /\ thread' = [thread EXCEPT !.step = "process",
                                      !.client = IF InTable(value) THEN "src" ELSE "none"]
    /\ OnlyReads /\ UNCHANGED dns_ring

\* process_packet up to its call of heuristic, which reads the clock first.
Process ==
    /\ At("process")
    /\ LET restart == IsTcp(thread.tuple) /\ "SYN" \in thread.flags /\ thread.tuple \in known
           finish  == IsTcp(thread.tuple) /\ "FIN" \in thread.flags
       IN  /\ IF restart \/ finish THEN thread' = Idle
                                   ELSE thread' = [step |-> "src", tuple |-> thread.tuple,
                                                   client |-> thread.client, now |-> now]
           /\ IF ~restart /\ finish THEN PutPacket("PKT_REMOVE_FLOW") ELSE UNCHANGED packet_ring
    /\ UNCHANGED <<dnsVars, cpu_port, known, filtered, captured>>

ConsultEarly(key, otherwise) ==
    \E value \in Lookups(key) :
        /\ Get(key, value)
        /\ IF value # Absent /\ value <= thread.now THEN PutDns(RemoveIp(key)) ELSE UNCHANGED dns_ring
        /\ Goto(IF value > thread.now THEN "announce" ELSE otherwise)

\* One half of heuristic: a valid address decides, a timed out one is to be
\* removed.  The put into the DNS ring is part of the lookup's step: packet_thread
\* is the ring's only producer, so that it finds at most more room later.
Consult(key, otherwise) ==
    \E value \in Lookups(key) :
        /\ Get(key, value)
        /\ IF value # Absent /\ value < thread.now THEN PutDns(RemoveIp(key)) ELSE UNCHANGED dns_ring
        /\ Goto(IF value >= thread.now THEN "announce" ELSE otherwise)

HeuristicSrcSkipped == At("src") /\ Goto("dst") /\ OnlyReads /\ UNCHANGED <<dns_ring, torn>>

HeuristicSrc == At("src") /\ Consult(SrcKey, "dst") /\ OnlyReads

HeuristicDst == At("dst") /\ Consult(DstKey, IF UseDnsDb THEN "ignore" ELSE "announce") /\ OnlyReads

\* process_packet after heuristic.
Announce ==
    /\ At("announce")
    /\ PutPacket("PKT_ADD_FLOW")
    /\ IF IsUdp(thread.tuple) THEN Goto("fix") ELSE thread' = Idle
    /\ UNCHANGED <<dnsVars, cpu_port, known, filtered, captured>>

Fix ==
    /\ At("fix")
    /\ PutPacket("PKT_FIX_BLOOM_FILTER_RELEVANT")
    /\ thread' = Idle
    /\ UNCHANGED <<dnsVars, cpu_port, known, filtered, captured>>

Ignore ==
    /\ At("ignore")
    /\ IF IsUdp(thread.tuple) THEN PutPacket("PKT_ADD_BLOOM_FILTER_IRRELEVANT") ELSE UNCHANGED packet_ring
    /\ thread' = Idle
    /\ UNCHANGED <<dnsVars, cpu_port, known, filtered, captured>>

PacketStep ==
    \/ Receive \/ SessionSrc \/ SessionDst \/ Process
    \/ HeuristicSrc \/ HeuristicDst \/ Announce \/ Fix \/ Ignore

------------------------------------------------------------------------------
(* The rest of the controller *)

\* add_flow finds an id.
IdLeft == Cardinality(known) < FlowIds

\* flowdb_thread.  A marked flow's bits are only sent to the switch if they were
\* not marked before, which module BloomFilter has in detail, and no command
\* clears them: dataplane_thread ignores the one of bloom_filter_set_relevant.
FlowDbTakes ==
    /\ packet_ring # << >>
    /\ packet_ring' = Tail(packet_ring)
    /\ LET command == Head(packet_ring).command
           tuple   == Head(packet_ring).tuple
       IN  /\ known' = CASE command = "PKT_ADD_FLOW" -> IF IdLeft THEN known \cup {tuple} ELSE known
                         [] command \in {"PKT_REMOVE_FLOW", "PKT_TIMEOUT_FLOW"} -> known \ {tuple}
                         [] OTHER -> known
           /\ \/ filtered' = filtered
              \/ command = "PKT_ADD_BLOOM_FILTER_IRRELEVANT" /\ filtered' = filtered \cup {tuple}
    /\ UNCHANGED <<dnsVars, cpu_port, thread, captured>>

\* process_and_age_feature: the flow's features do not change any more.
TimeOut(tuple) ==
    /\ tuple \in known
    /\ Fits
    /\ packet_ring' = Append(packet_ring, [command |-> "PKT_TIMEOUT_FLOW", tuple |-> tuple])
    /\ UNCHANGED <<dnsVars, cpu_port, thread, known, filtered, captured>>

DnsStep ==
    /\ DnsDbStep \/ Tick
    /\ UNCHANGED <<cpu_port, thread, packet_ring, known, filtered, captured>>

Next ==
    \/ \E packet \in Packets : Arrive(packet) \/ Hide(packet)
    \/ PacketStep
    \/ DnsStep
    \/ FlowDbTakes
    \/ \E tuple \in FiveTuples : TimeOut(tuple)

Spec == Init /\ [][Next]_vars

\* The threads run for ever.  Nobody has to send packets, and no flow has to time
\* out.
FairSpec ==
    /\ Spec
    /\ WF_vars(PacketStep)
    /\ WF_vars(DnsDbStep /\ UNCHANGED <<cpu_port, thread, packet_ring, known, filtered, captured>>)
    /\ WF_vars(FlowDbTakes)

------------------------------------------------------------------------------
(* Properties *)

\* An address is removed because a lookup found it timed out, and the removal is
\* executed later: an address that is still valid is only removed when a lookup
\* ran into the moves of an earlier removal and read another entry's time.
ValidStays ==
    [][\A key \in Keys : dns_hashtable[key] >= now /\ dns_hashtable'[key] = Absent => torn]_vars

\* setup_session_hash and heuristic look the addresses up one after the other,
\* while dns_db_thread changes the table, and still agree: a flow that is
\* announced has a client, unless a lookup ran into moves.
AnnouncedHasClient == At("announce") /\ UseDnsDb /\ ~torn => thread.client # "none"

\* A put into the packet ring that is refused.
PutRefused ==
    /\ \E step \in {"announce", "fix", "ignore"} : At(step) /\ thread'.step # step
    /\ ~Fits

ArriveOf(tuple) == \E packet \in Packets : packet.tuple = tuple /\ Arrive(packet)

\* The packets of a five tuple keep coming, and not all of them get lost.
KeepsSending(tuple) == SF_vars(ArriveOf(tuple))

\* A UDP flow whose packets packet_handler does not take for DNS responses.
OrdinaryUdp(tuple) == IsUdp(tuple) /\ SwapEndian16(SrcPort[tuple]) # 53

\* Commands are not refused for ever, there is an id for the flow, and the DNS
\* table has room.
Served(tuple) ==
    <>[][~PutRefused]_vars /\ <>[](IdLeft \/ tuple \in known) /\ <>[]~Full

\* A UDP flow whose source address stays valid becomes known, again after every
\* timeout, although other flows' addresses time out and are removed meanwhile;
\* unless a lookup runs into the moves.
RelevantBecomesKnown ==
    \A tuple \in FiveTuples :
        OrdinaryUdp(tuple) /\ Served(tuple) /\ []~torn =>
            (KeepsSending(tuple) =>
                ([](dns_hashtable[[type |-> L3Proto[tuple], address |-> Src[tuple]]] >= now)
                    => []<>(tuple \in known)))

\* packet_thread comes back from its lookups; only a full DNS table keeps it for
\* ever, and then every packet waits.
LookupsEnd == <>[]Full \/ []<>At("idle")

\* heuristic queues the removal of an address that it found timed out.
QueueRemoval(key) ==
    /\ At("src") \/ At("dst")
    /\ Len(dns_ring') > Len(dns_ring)
    /\ dns_ring'[Len(dns_ring')] = RemoveIp(key)

\* A timed out address is not found timed out for ever: its removal, under the
\* key of the lookup, takes it out of the table.
TimedOutIsRemoved == \A key \in Keys : <>[][~QueueRemoval(key)]_vars

\* What the relevant DNS answers that the switch captured are for, see
\* p4/config.p4: when the controller has nothing left to do, the lookups of their
\* addresses find them.
AnswersAreUsed ==
    cpu_port = Empty /\ thread = Idle /\ dns_ring = << >> /\ dns_db = "waiting" /\ ~Full =>
        \A answer \in captured :
            answer.timeout >= now =>
                dns_hashtable[[type |-> answer.type, address |-> answer.address]] # Absent
=============================================================================
