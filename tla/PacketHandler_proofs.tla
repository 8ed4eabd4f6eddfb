------------------------ MODULE PacketHandler_proofs ------------------------
(***************************************************************************)
(* Theorems about PacketHandler and DnsDb, for any flows, addresses,       *)
(* answers, times and sizes: no valid address is removed, and the two      *)
(* passes over a packet's addresses agree, unless a lookup runs into the   *)
(* moves of a removal.                                                     *)
(***************************************************************************)
EXTENDS PacketHandler, TLAPS, WellFoundedInduction

------------------------------------------------------------------------------
(* The inductive invariant *)

\* The keys of lookups, which have the packet's type, as have those of removals.
TypedKeys == [type : L3, address : Addresses]

Answers  == UNION {Payloads[tuple] : tuple \in FiveTuples}
AllFlags == UNION {Flags[tuple] : tuple \in FiveTuples}
Commands ==
    [command : {"DNS_ADD_PKT"}, pkt : Answers] \cup [command : {"DNS_REMOVE_IP"}, address : TypedKeys]

Clients == {"none", "src", "dst"}
Sessions ==
    [step : {"session src", "session dst", "process"}, tuple : FiveTuples, flags : AllFlags,
     client : Clients]
Heuristics ==
    [step : {"src", "dst", "announce", "fix", "ignore"}, tuple : FiveTuples, client : Clients,
     now : 0 .. MaxTime]

DnsType ==
    /\ now \in 0 .. MaxTime
    /\ dns_hashtable \in [Keys -> Times \cup {Absent}]
    /\ dns_ring \in Seq(Commands)
    /\ dns_db \in {"waiting", "moving"}
    /\ torn \in BOOLEAN

ThreadType ==
    /\ cpu_port \in Packets \cup {Empty}
    /\ thread \in {Idle} \cup Sessions \cup Heuristics

TypeOK == DnsType /\ ThreadType

\* heuristic compares with a time that it took before.
ClockRead == thread \in Heuristics => thread.now <= now

\* A removal waits in the ring only for an address that has timed out: nobody
\* makes an address with a type valid again.
RemovalsAreDue ==
    ~torn => \A n \in 1 .. Len(dns_ring) :
                 dns_ring[n].command = "DNS_REMOVE_IP" => dns_hashtable[dns_ring[n].address] < now

\* What setup_session_hash did not find, heuristic does not find either.
StaysUnknown ==
    UseDnsDb /\ ~torn =>
        /\ At("session dst") => dns_hashtable[SrcKey] = Absent
        /\ (At("process") \/ At("src") \/ At("dst")) /\ thread.client = "none" =>
               dns_hashtable[SrcKey] = Absent /\ dns_hashtable[DstKey] = Absent
        /\ At("announce") => thread.client # "none"

Inv == TypeOK /\ ClockRead /\ RemovalsAreDue /\ StaysUnknown

------------------------------------------------------------------------------
(* Facts about the operators *)

LEMMA Numbers ==
    /\ MaxTime \in Nat /\ MaxTtl \in Nat
    /\ Absent \in Int /\ Absent < 0
    /\ \A t \in Times \cup {Absent} : t \in Int
    /\ \A t \in 0 .. MaxTime : t \in Nat
    /\ \A t \in 0 .. MaxTime : \A ttl \in 0 .. MaxTtl : t + ttl \in Times /\ t + ttl >= 0
    /\ TypedKeys \subseteq Keys
PROOF BY MaxTimeAssumption DEF Absent, Times, TypedKeys, Keys

\* A lookup returns a time or nothing, and the right one unless torn is set.
LEMMA LookupFacts ==
    ASSUME DnsType, NEW key \in Keys, NEW value \in Lookups(key), Get(key, value)
    PROVE  /\ value \in Times \cup {Absent}
           /\ torn' \in BOOLEAN
           /\ ~torn' => ~torn /\ value = dns_hashtable[key]
PROOF
<1>1. value \in Times \cup {Absent}
  <2>1. dns_hashtable[key] \in Times \cup {Absent}
    BY DEF DnsType
  <2> QED BY <2>1 DEF Lookups
<1>2. torn' = (torn \/ value # dns_hashtable[key])
  BY DEF Get
<1>3. torn' \in BOOLEAN
  BY <1>2, Zenon
<1>4. ~torn' => ~torn /\ value = dns_hashtable[key]
  BY <1>2, Zenon
<1> QED BY <1>1, <1>3, <1>4

\* dns_ringbuffer_put adds the command at the end, or nothing.
LEMMA PutDnsFacts ==
    ASSUME dns_ring \in Seq(Commands), NEW command \in Commands, PutDns(command)
    PROVE  /\ dns_ring' \in Seq(Commands)
           /\ dns_ring' = dns_ring \/ dns_ring' = Append(dns_ring, command)
PROOF BY DEF PutDns

\* A nonempty set of numbers has a first one, parse_dns_packet's matching record.
LEMMA FirstMatch ==
    ASSUME NEW matching, matching \subseteq Nat, matching # {}
    PROVE  (CHOOSE m \in matching : \A other \in matching : m <= other) \in matching
PROOF
<1>1. IsWellFoundedOn(OpToRel(<, Nat), Nat)
  BY NatLessThanWellFounded
<1>2. PICK m \in matching : \A other \in matching : ~(<<other, m>> \in OpToRel(<, Nat))
  BY <1>1, WFMin
<1>3. \A other \in matching : ~(other < m)
  BY <1>2 DEF OpToRel
<1>4. \A other \in matching : m <= other
  BY <1>3
<1> QED BY <1>4

\* What parse_dns_packet does to the table: it may set an entry whose key has no
\* type.
LEMMA AddAnswerFacts ==
    ASSUME DnsType, NEW answers \in Answers, AddAnswer(answers)
    PROVE  \/ dns_hashtable' = dns_hashtable
           \/ \E key \in Keys \ TypedKeys : \E value \in Times :
                  dns_hashtable' = [dns_hashtable EXCEPT ![key] = value]
PROOF
<1>1. PICK matching \in Matches(answers) :
        IF matching = {} THEN UNCHANGED dns_hashtable
        ELSE LET n == CHOOSE m \in matching : \A other \in matching : m <= other
             IN  AddOrChange([type |-> NoType, address |-> answers[n].address], now + answers[n].ttl)
  BY DEF AddAnswer
<1>2. matching \subseteq AddressRecords(answers) /\ matching \subseteq Nat
  BY DEF Matches, AddressRecords
<1>3. CASE matching = {}
  BY <1>1, <1>3
<1>4. CASE matching # {}
  <2> DEFINE n == CHOOSE m \in matching : \A other \in matching : m <= other
             key == [type |-> NoType, address |-> answers[n].address]
             value == now + answers[n].ttl
  <2>1. n \in AddressRecords(answers)
    BY <1>2, <1>4, FirstMatch
  <2>2. AddOrChange(key, value)
    BY <1>1, <1>4
  <2> HIDE DEF n
  <2>3. answers[n].address \in Addresses /\ answers[n].ttl \in 0 .. MaxTtl
    BY <2>1, PayloadsAssumption DEF Answers
  <2>4. key \in Keys \ TypedKeys
    BY <2>3 DEF Keys, TypedKeys, NoType, L3
  <2>5. value \in Times
    BY <2>3, Numbers DEF DnsType
  <2> QED BY <2>2, <2>4, <2>5 DEF AddOrChange
<1> QED BY <1>3, <1>4

\* The keys of lookups have the packet's type.
LEMMA LookupKeys ==
    ASSUME thread.tuple \in FiveTuples
    PROVE  SrcKey \in TypedKeys /\ DstKey \in TypedKeys
PROOF
<1>1. L3Proto[thread.tuple] \in L3
  <2>1. L3Proto \in [FiveTuples -> L3]
    BY TuplesAssumption, Zenon
  <2> QED BY <2>1
<1>2. Src[thread.tuple] \in Addresses /\ Dst[thread.tuple] \in Addresses
  <2>1. Src \in [FiveTuples -> Addresses] /\ Dst \in [FiveTuples -> Addresses]
    BY TuplesAssumption, Zenon
  <2> QED BY <2>1
<1> QED BY <1>1, <1>2 DEF SrcKey, DstKey, TypedKeys

\* The steps of packet_thread tell its records apart.
LEMMA ThreadSteps ==
    ASSUME ThreadType
    PROVE  /\ At("session src") \/ At("session dst") \/ At("process") => thread \in Sessions
           /\ At("src") \/ At("dst") \/ At("announce") \/ At("fix") \/ At("ignore") => thread \in Heuristics
           /\ thread \in Sessions \cup Heuristics => thread.tuple \in FiveTuples /\ thread.client \in Clients
PROOF
<1>1. thread = Idle \/ thread \in Sessions \/ thread \in Heuristics
  BY DEF ThreadType
<1>2. CASE thread = Idle
  <2>1. thread.step = "idle"
    BY <1>2 DEF Idle
  <2>2. thread \notin Sessions \cup Heuristics
    BY <2>1 DEF Sessions, Heuristics
  <2> QED BY <2>1, <2>2 DEF At
<1>3. CASE thread \in Sessions
  BY <1>3 DEF Sessions, At
<1>4. CASE thread \in Heuristics
  BY <1>4 DEF Heuristics, At
<1> QED BY <1>1, <1>2, <1>3, <1>4

------------------------------------------------------------------------------
(* Type correctness *)

LEMMA InitType == Init => TypeOK
PROOF
<1> SUFFICES ASSUME Init
             PROVE  TypeOK
  OBVIOUS
<1>1. DnsType
  <2>1. 0 \in 0 .. MaxTime
    BY Numbers
  <2>2. << >> \in Seq(Commands)
    OBVIOUS
  <2> QED BY <2>1, <2>2, SeededAssumption, Zenon DEF Init, DnsInit, DnsType
<1>2. ThreadType
  BY DEF Init, ThreadType
<1> QED BY <1>1, <1>2 DEF TypeOK

\* A lookup that decides by its value where packet_thread goes.
LEMMA ConsultFacts ==
    ASSUME TypeOK, NEW key \in TypedKeys, NEW otherwise \in {"dst", "ignore", "announce"},
           thread \in Heuristics, Consult(key, otherwise)
    PROVE  \E value \in Times \cup {Absent} :
               /\ torn' \in BOOLEAN
               /\ ~torn' => ~torn /\ value = dns_hashtable[key]
               /\ dns_ring' \in Seq(Commands)
               /\ \/ dns_ring' = dns_ring
                  \/ value < thread.now /\ dns_ring' = Append(dns_ring, RemoveIp(key))
               /\ thread' \in Heuristics
               /\ thread' = [thread EXCEPT !.step = IF value >= thread.now THEN "announce" ELSE otherwise]
PROOF
<1>1. PICK value \in Lookups(key) :
        /\ Get(key, value)
        /\ IF value # Absent /\ value < thread.now THEN PutDns(RemoveIp(key)) ELSE UNCHANGED dns_ring
        /\ Goto(IF value >= thread.now THEN "announce" ELSE otherwise)
  BY DEF Consult
<1>2. value \in Times \cup {Absent} /\ torn' \in BOOLEAN /\ (~torn' => ~torn /\ value = dns_hashtable[key])
  BY <1>1, LookupFacts, Numbers DEF TypeOK
<1>3. /\ dns_ring' \in Seq(Commands)
      /\ \/ dns_ring' = dns_ring
         \/ value < thread.now /\ dns_ring' = Append(dns_ring, RemoveIp(key))
  <2>1. dns_ring \in Seq(Commands) /\ RemoveIp(key) \in Commands
    BY DEF TypeOK, DnsType, Commands, RemoveIp
  <2> QED BY <1>1, <2>1, PutDnsFacts
<1>4. thread' = [thread EXCEPT !.step = IF value >= thread.now THEN "announce" ELSE otherwise]
  BY <1>1 DEF Goto
<1>5. thread' \in Heuristics
  BY <1>4 DEF Heuristics
<1> QED BY <1>2, <1>3, <1>4, <1>5

\* The type of the thread's record, through the steps of setup_session_hash and
\* heuristic.
LEMMA PacketStepType ==
    ASSUME TypeOK, PacketStep
    PROVE  TypeOK'
PROOF
<1> USE DEF TypeOK
<1>1. CASE Receive
  <2>1. /\ cpu_port # Empty /\ cpu_port' = Empty
        /\ UNCHANGED <<now, dns_hashtable, dns_db, torn>>
        /\ \/ PutDns(AddPkt(cpu_port.answers)) /\ thread' = thread
           \/ /\ thread' = [step |-> "session src", tuple |-> cpu_port.tuple, flags |-> cpu_port.flags,
                            client |-> "none"]
              /\ dns_ring' = dns_ring
    BY <1>1 DEF Receive
  <2>2. PICK tuple \in FiveTuples :
          cpu_port \in [tuple : {tuple}, flags : Flags[tuple], answers : Payloads[tuple]]
    BY <2>1 DEF ThreadType, Packets
  <2>3. cpu_port.tuple \in FiveTuples /\ cpu_port.flags \in AllFlags /\ cpu_port.answers \in Answers
    BY <2>2 DEF AllFlags, Answers
  <2>4. dns_ring' \in Seq(Commands)
    <3>1. AddPkt(cpu_port.answers) \in Commands
      BY <2>3 DEF AddPkt, Commands
    <3> QED BY <2>1, <3>1, PutDnsFacts DEF DnsType
  <2>5. thread' \in {Idle} \cup Sessions \cup Heuristics
    <3>1. [step |-> "session src", tuple |-> cpu_port.tuple, flags |-> cpu_port.flags,
           client |-> "none"] \in Sessions
      BY <2>3 DEF Sessions, Clients
    <3> QED BY <2>1, <3>1 DEF ThreadType
  <2> QED BY <2>1, <2>4, <2>5 DEF DnsType, ThreadType
<1>2. CASE SessionSrc
  <2>1. At("session src") /\ OnlyReads /\ UNCHANGED dns_ring
    BY <1>2 DEF SessionSrc
  <2>2. thread \in Sessions /\ SrcKey \in Keys
    BY <2>1, ThreadSteps, LookupKeys, Numbers
  <2>3. PICK value \in Lookups(SrcKey) :
          /\ Get(SrcKey, value)
          /\ IF InTable(value) THEN thread' = [thread EXCEPT !.step = "process", !.client = "dst"]
                               ELSE Goto("session dst")
    BY <1>2 DEF SessionSrc
  <2>4. torn' \in BOOLEAN
    BY <2>2, <2>3, LookupFacts
  <2>5. thread' \in Sessions
    BY <2>2, <2>3 DEF Sessions, Goto, Clients
  <2> QED BY <2>1, <2>4, <2>5 DEF DnsType, ThreadType, OnlyReads
<1>3. CASE SessionDst
  <2>1. At("session dst") /\ OnlyReads /\ UNCHANGED dns_ring
    BY <1>3 DEF SessionDst
  <2>2. thread \in Sessions /\ DstKey \in Keys
    BY <2>1, ThreadSteps, LookupKeys, Numbers
  <2>3. PICK value \in Lookups(DstKey) :
          /\ Get(DstKey, value)
          /\ thread' = [thread EXCEPT !.step = "process", !.client = IF InTable(value) THEN "src" ELSE "none"]
    BY <1>3 DEF SessionDst
  <2>4. torn' \in BOOLEAN
    BY <2>2, <2>3, LookupFacts
  <2>5. thread' \in Sessions
    BY <2>2, <2>3 DEF Sessions, Clients
  <2> QED BY <2>1, <2>4, <2>5 DEF DnsType, ThreadType, OnlyReads
<1>4. CASE Process
  <2>1. At("process") /\ UNCHANGED dnsVars /\ UNCHANGED cpu_port
    BY <1>4 DEF Process
  <2>2. thread \in Sessions
    BY <2>1, ThreadSteps
  <2>3. \/ thread' = Idle
        \/ thread' = [step |-> "src", tuple |-> thread.tuple, client |-> thread.client, now |-> now]
    BY <1>4 DEF Process
  <2>4. thread' \in {Idle} \cup Heuristics
    <3>1. thread.tuple \in FiveTuples /\ thread.client \in Clients /\ now \in 0 .. MaxTime
      BY <2>2, ThreadSteps DEF DnsType
    <3>2. [step |-> "src", tuple |-> thread.tuple, client |-> thread.client, now |-> now] \in Heuristics
      BY <3>1 DEF Heuristics
    <3> QED BY <2>3, <3>2
  <2> QED BY <2>1, <2>4 DEF DnsType, ThreadType, dnsVars
<1>5. CASE HeuristicSrc
  <2>1. At("src") /\ OnlyReads /\ Consult(SrcKey, "dst")
    BY <1>5 DEF HeuristicSrc
  <2>2. thread \in Heuristics /\ SrcKey \in TypedKeys
    BY <2>1, ThreadSteps, LookupKeys
  <2>3. torn' \in BOOLEAN /\ dns_ring' \in Seq(Commands) /\ thread' \in Heuristics
    BY <2>1, <2>2, ConsultFacts
  <2> QED BY <2>1, <2>3 DEF DnsType, ThreadType, OnlyReads
<1>6. CASE HeuristicDst
  <2>1. At("dst") /\ OnlyReads /\ Consult(DstKey, IF UseDnsDb THEN "ignore" ELSE "announce")
    BY <1>6 DEF HeuristicDst
  <2>2. thread \in Heuristics /\ DstKey \in TypedKeys
    BY <2>1, ThreadSteps, LookupKeys
  <2>3. torn' \in BOOLEAN /\ dns_ring' \in Seq(Commands) /\ thread' \in Heuristics
    BY <2>1, <2>2, ConsultFacts
  <2> QED BY <2>1, <2>3 DEF DnsType, ThreadType, OnlyReads
<1>7. CASE Announce \/ Fix \/ Ignore
  <2>1. UNCHANGED dnsVars /\ UNCHANGED cpu_port
    BY <1>7 DEF Announce, Fix, Ignore
  <2>2. thread \in Heuristics
    BY <1>7, ThreadSteps DEF Announce, Fix, Ignore
  <2>3. thread' = Idle \/ thread' = [thread EXCEPT !.step = "fix"]
    BY <1>7 DEF Announce, Fix, Ignore, Goto
  <2>4. thread' \in {Idle} \cup Heuristics
    BY <2>2, <2>3 DEF Heuristics
  <2> QED BY <2>1, <2>4 DEF DnsType, ThreadType, dnsVars
<1> QED BY <1>1, <1>2, <1>3, <1>4, <1>5, <1>6, <1>7 DEF PacketStep

\* dns_db_thread and the clock.  Entries whose key has a type are only removed.
LEMMA DnsStepFacts ==
    ASSUME TypeOK, DnsStep
    PROVE  /\ TypeOK'
           /\ now <= now'
           /\ dns_ring' = dns_ring \/ (dns_ring # << >> /\ dns_ring' = Tail(dns_ring))
           /\ \A key \in TypedKeys :
                  \/ dns_hashtable'[key] = dns_hashtable[key]
                  \/ /\ dns_hashtable'[key] = Absent
                     /\ dns_ring # << >>
                     /\ Head(dns_ring).command = "DNS_REMOVE_IP" /\ Head(dns_ring).address = key
           /\ \A key \in Keys \ TypedKeys :
                  dns_hashtable'[key] = Absent => dns_hashtable[key] = Absent
PROOF
<1>1. UNCHANGED <<cpu_port, thread>>
  BY DEF DnsStep
<1>2. dns_ring # << >> => Head(dns_ring) \in Commands /\ Tail(dns_ring) \in Seq(Commands)
  BY DEF TypeOK, DnsType
<1>3. CASE Tick
  <2>1. now' \in 0 .. MaxTime /\ now <= now'
    BY <1>3, Numbers DEF Tick, TypeOK, DnsType
  <2>2. UNCHANGED <<dns_hashtable, dns_ring, dns_db, torn>>
    BY <1>3 DEF Tick
  <2> QED BY <1>1, <2>1, <2>2 DEF TypeOK, DnsType, ThreadType
<1>4. CASE ExecuteAdd
  <2>1. /\ dns_ring # << >> /\ Head(dns_ring).command = "DNS_ADD_PKT"
        /\ AddAnswer(Head(dns_ring).pkt) /\ dns_ring' = Tail(dns_ring)
        /\ UNCHANGED <<now, dns_db, torn>>
    BY <1>4 DEF ExecuteAdd
  <2>2. Head(dns_ring).pkt \in Answers
    BY <2>1, <1>2 DEF Commands
  <2>3. \/ dns_hashtable' = dns_hashtable
        \/ \E key \in Keys \ TypedKeys : \E value \in Times :
               dns_hashtable' = [dns_hashtable EXCEPT ![key] = value]
    BY <2>1, <2>2, AddAnswerFacts DEF TypeOK
  <2>4. dns_hashtable \in [Keys -> Times \cup {Absent}] /\ now \in Nat
    BY Numbers DEF TypeOK, DnsType
  <2>5. /\ dns_hashtable' \in [Keys -> Times \cup {Absent}]
        /\ \A key \in TypedKeys : dns_hashtable'[key] = dns_hashtable[key]
        /\ \A key \in Keys \ TypedKeys : dns_hashtable'[key] = Absent => dns_hashtable[key] = Absent
    <3>1. CASE dns_hashtable' = dns_hashtable
      BY <3>1, <2>4
    <3>2. ASSUME NEW key \in Keys \ TypedKeys, NEW value \in Times,
                 dns_hashtable' = [dns_hashtable EXCEPT ![key] = value]
          PROVE  /\ dns_hashtable' \in [Keys -> Times \cup {Absent}]
                 /\ \A k \in TypedKeys : dns_hashtable'[k] = dns_hashtable[k]
                 /\ \A k \in Keys \ TypedKeys : dns_hashtable'[k] = Absent => dns_hashtable[k] = Absent
      <4>1. value # Absent
        BY MaxTimeAssumption DEF Times, Absent
      <4>2. \A k \in Keys : dns_hashtable'[k] = IF k = key THEN value ELSE dns_hashtable[k]
        BY <3>2, <2>4
      <4> QED BY <3>2, <2>4, <4>1, <4>2, Numbers
    <3> QED BY <2>3, <3>1, <3>2
  <2> QED BY <1>1, <1>2, <2>1, <2>4, <2>5 DEF TypeOK, DnsType, ThreadType
<1>5. CASE ExecuteRemove
  <2>1. /\ dns_ring # << >> /\ Head(dns_ring).command = "DNS_REMOVE_IP"
        /\ dns_hashtable' = [dns_hashtable EXCEPT ![Head(dns_ring).address] = Absent]
        /\ dns_db' \in {"waiting", "moving"}
        /\ dns_ring' = Tail(dns_ring)
        /\ UNCHANGED <<now, torn>>
    BY <1>5 DEF ExecuteRemove
  <2>2. Head(dns_ring).address \in TypedKeys
    BY <2>1, <1>2 DEF Commands
  <2>3. dns_hashtable \in [Keys -> Times \cup {Absent}] /\ now \in Nat
    BY Numbers DEF TypeOK, DnsType
  <2>4. \A k \in Keys : dns_hashtable'[k] = IF k = Head(dns_ring).address THEN Absent ELSE dns_hashtable[k]
    BY <2>1, <2>3
  <2>5. dns_hashtable' \in [Keys -> Times \cup {Absent}]
    BY <2>1, <2>3
  <2> QED BY <1>1, <1>2, <2>1, <2>2, <2>3, <2>4, <2>5, Numbers DEF TypeOK, DnsType, ThreadType
<1>6. CASE EntriesMoved
  <2>1. dns_db' = "waiting" /\ UNCHANGED <<now, dns_hashtable, dns_ring, torn>>
    BY <1>6 DEF EntriesMoved
  <2>2. now \in Nat
    BY Numbers DEF TypeOK, DnsType
  <2> QED BY <1>1, <2>1, <2>2 DEF TypeOK, DnsType, ThreadType
<1> QED BY <1>3, <1>4, <1>5, <1>6 DEF DnsStep, DnsDbStep

\* The steps of the switch and of the other threads.
LEMMA OtherStepFacts ==
    ASSUME TypeOK,
           \/ \E packet \in Packets : Arrive(packet) \/ Hide(packet)
           \/ FlowDbTakes
           \/ \E tuple \in FiveTuples : TimeOut(tuple)
    PROVE  TypeOK' /\ UNCHANGED <<dnsVars, thread>>
PROOF
<1>1. UNCHANGED <<dnsVars, thread>> /\ cpu_port' \in Packets \cup {Empty}
  BY DEF Arrive, Hide, FlowDbTakes, TimeOut, TypeOK, ThreadType
<1> QED BY <1>1 DEF TypeOK, DnsType, ThreadType, dnsVars

LEMMA NextType == TypeOK /\ [Next]_vars => TypeOK'
PROOF
<1> SUFFICES ASSUME TypeOK, [Next]_vars
             PROVE  TypeOK'
  OBVIOUS
<1>1. CASE PacketStep
  BY <1>1, PacketStepType
<1>2. CASE DnsStep
  BY <1>2, DnsStepFacts
<1>3. CASE \/ \E packet \in Packets : Arrive(packet) \/ Hide(packet)
           \/ FlowDbTakes
           \/ \E tuple \in FiveTuples : TimeOut(tuple)
  BY <1>3, OtherStepFacts
<1>4. CASE UNCHANGED vars
  BY <1>4 DEF vars, dnsVars, TypeOK, DnsType, ThreadType
<1> QED BY <1>1, <1>2, <1>3, <1>4 DEF Next

\* Every variable of the DNS database and of packet_thread keeps its type, for
\* any set of packets; in particular only addresses with a type are to be removed.
THEOREM PacketHandlerTypeCorrect == Spec => []TypeOK
PROOF
<1>1. Init => TypeOK
  BY InitType
<1>2. TypeOK /\ [Next]_vars => TypeOK'
  BY NextType
<1> QED BY <1>1, <1>2, PTL DEF Spec

------------------------------------------------------------------------------
(* The invariant *)

LEMMA InitInv == Init => Inv
PROOF
<1> SUFFICES ASSUME Init
             PROVE  Inv
  OBVIOUS
<1>1. TypeOK
  BY InitType
<1>2. thread.step = "idle"
  BY DEF Init, Idle
<1>3. ClockRead
  BY <1>2 DEF ClockRead, Heuristics
<1>4. RemovalsAreDue
  BY DEF Init, DnsInit, RemovalsAreDue
<1>5. StaysUnknown
  BY <1>2 DEF StaysUnknown, At
<1> QED BY <1>1, <1>3, <1>4, <1>5 DEF Inv

\* A removal that is due stays so while time passes and the table forgets.
LEMMA DueStaysDue ==
    ASSUME TypeOK, TypeOK', RemovalsAreDue,
           ~torn' => ~torn, now <= now',
           \A key \in TypedKeys : dns_hashtable'[key] \in {dns_hashtable[key], Absent},
           dns_ring' = dns_ring \/ (dns_ring # << >> /\ dns_ring' = Tail(dns_ring))
    PROVE  RemovalsAreDue'
PROOF
<1> SUFFICES ASSUME ~torn', NEW n \in 1 .. Len(dns_ring'), dns_ring'[n].command = "DNS_REMOVE_IP"
             PROVE  dns_hashtable'[dns_ring'[n].address] < now'
  BY DEF RemovalsAreDue
<1>1. dns_ring \in Seq(Commands) /\ dns_ring' \in Seq(Commands)
  BY DEF TypeOK, DnsType
<1>2. PICK m \in 1 .. Len(dns_ring) : dns_ring'[n] = dns_ring[m]
  <2>1. CASE dns_ring' = dns_ring
    BY <2>1
  <2>2. CASE dns_ring # << >> /\ dns_ring' = Tail(dns_ring)
    <3>1. n + 1 \in 1 .. Len(dns_ring) /\ dns_ring'[n] = dns_ring[n + 1]
      BY <1>1, <2>2
    <3> QED BY <3>1
  <2> QED BY <2>1, <2>2
<1> DEFINE key == dns_ring[m].address
<1>3. dns_ring[m] \in Commands
  BY <1>1, <1>2
<1>4. key \in TypedKeys
  BY <1>2, <1>3 DEF Commands
<1>5. dns_hashtable[key] < now
  BY <1>2 DEF RemovalsAreDue
<1> HIDE DEF key
<1>6. now \in Int /\ now' \in Int /\ dns_hashtable[key] \in Int
  BY <1>4, Numbers DEF TypeOK, DnsType
<1>7. Absent < now'
  BY Numbers DEF TypeOK, DnsType
<1>8. dns_hashtable'[key] < now'
  BY <1>4, <1>5, <1>6, <1>7
<1> QED BY <1>2, <1>8 DEF key

\* heuristic queues the removal of an address that it found timed out.
LEMMA ConsultDue ==
    ASSUME TypeOK, TypeOK', RemovalsAreDue, ClockRead, thread \in Heuristics,
           UNCHANGED <<now, dns_hashtable>>,
           NEW key \in TypedKeys, NEW value \in Times \cup {Absent},
           ~torn' => ~torn /\ value = dns_hashtable[key],
           \/ dns_ring' = dns_ring
           \/ value < thread.now /\ dns_ring' = Append(dns_ring, RemoveIp(key))
    PROVE  RemovalsAreDue'
PROOF
<1> SUFFICES ASSUME ~torn', NEW n \in 1 .. Len(dns_ring'), dns_ring'[n].command = "DNS_REMOVE_IP"
             PROVE  dns_hashtable[dns_ring'[n].address] < now
  BY DEF RemovalsAreDue
<1>1. dns_ring \in Seq(Commands)
  BY DEF TypeOK, DnsType
<1>2. CASE n \in 1 .. Len(dns_ring) /\ dns_ring'[n] = dns_ring[n]
  BY <1>2 DEF RemovalsAreDue
<1>3. CASE value < thread.now /\ dns_ring'[n] = RemoveIp(key)
  <2>1. value < now
    <3>1. thread.now \in Int /\ now \in Int /\ value \in Int /\ thread.now <= now
      BY Numbers DEF ClockRead, Heuristics, TypeOK, DnsType
    <3> QED BY <1>3, <3>1
  <2>2. dns_ring'[n].address = key
    BY <1>3 DEF RemoveIp
  <2> QED BY <2>1, <2>2
<1>4. dns_ring' = dns_ring \/ (value < thread.now /\ dns_ring' = Append(dns_ring, RemoveIp(key)))
  OBVIOUS
<1> QED BY <1>1, <1>2, <1>3, <1>4

\* A typed address that is not in the table stays out of it.
LEMMA UnknownStaysUnknown ==
    ASSUME TypeOK, StaysUnknown, thread' = thread, ~torn' => ~torn,
           \A key \in TypedKeys : dns_hashtable'[key] \in {dns_hashtable[key], Absent}
    PROVE  StaysUnknown'
PROOF
<1> SUFFICES ASSUME UseDnsDb, ~torn'
             PROVE  StaysUnknown'
  BY DEF StaysUnknown
<1>1. CASE thread \in Sessions \cup Heuristics
  <2>1. SrcKey \in TypedKeys /\ DstKey \in TypedKeys
    BY <1>1, ThreadSteps, LookupKeys DEF TypeOK
  <2>2. SrcKey' = SrcKey /\ DstKey' = DstKey
    BY DEF SrcKey, DstKey
  <2> QED BY <2>1, <2>2 DEF StaysUnknown, At
<1>2. CASE thread = Idle
  BY <1>2 DEF StaysUnknown, At, Idle
<1> QED BY <1>1, <1>2 DEF TypeOK, ThreadType

LEMMA PacketStepInv ==
    ASSUME Inv, PacketStep
    PROVE  Inv'
PROOF
<1>t. TypeOK /\ TypeOK' /\ ClockRead /\ RemovalsAreDue /\ StaysUnknown
  BY PacketStepType DEF Inv
<1> SUFFICES ClockRead' /\ RemovalsAreDue' /\ StaysUnknown'
  BY <1>t DEF Inv
<1>n. now \in Nat
  BY <1>t, Numbers DEF TypeOK, DnsType
<1>i. ASSUME thread' = Idle
      PROVE  ClockRead' /\ StaysUnknown'
  <2>1. thread'.step = "idle"
    BY <1>i DEF Idle
  <2> QED BY <2>1 DEF ClockRead, StaysUnknown, Heuristics, At
<1>u. ASSUME UNCHANGED dnsVars
      PROVE  RemovalsAreDue'
  BY <1>u, <1>t DEF dnsVars, RemovalsAreDue
<1>s. ASSUME thread' \in Sessions
      PROVE  ClockRead'
  BY <1>s DEF ClockRead, Sessions, Heuristics
<1>1. CASE Receive
  <2>1. /\ UNCHANGED <<now, dns_hashtable, dns_db, torn>>
        /\ \/ PutDns(AddPkt(cpu_port.answers)) /\ thread' = thread
           \/ /\ thread' = [step |-> "session src", tuple |-> cpu_port.tuple, flags |-> cpu_port.flags,
                            client |-> "none"]
              /\ dns_ring' = dns_ring
    BY <1>1 DEF Receive
  <2>2. CASE PutDns(AddPkt(cpu_port.answers)) /\ thread' = thread
    <3>1. ClockRead' /\ StaysUnknown'
      BY <2>1, <2>2, <1>t DEF ClockRead, StaysUnknown, At, SrcKey, DstKey
    <3>2. dns_ring' = dns_ring \/ dns_ring' = Append(dns_ring, AddPkt(cpu_port.answers))
      BY <2>2 DEF PutDns
    <3>3. ASSUME ~torn', NEW n \in 1 .. Len(dns_ring'), dns_ring'[n].command = "DNS_REMOVE_IP"
          PROVE  n \in 1 .. Len(dns_ring) /\ dns_ring'[n] = dns_ring[n]
      <4>1. dns_ring \in Seq(Commands)
        BY <1>t DEF TypeOK, DnsType
      <4>2. AddPkt(cpu_port.answers).command # "DNS_REMOVE_IP"
        BY DEF AddPkt
      <4> QED BY <3>2, <3>3, <4>1, <4>2
    <3>4. RemovalsAreDue'
      BY <2>1, <3>3, <1>t DEF RemovalsAreDue
    <3> QED BY <3>1, <3>4
  <2>3. CASE /\ thread' = [step |-> "session src", tuple |-> cpu_port.tuple, flags |-> cpu_port.flags,
                           client |-> "none"]
             /\ dns_ring' = dns_ring
    <3>1. thread'.step = "session src"
      BY <2>3
    <3> QED BY <2>1, <2>3, <3>1, <1>t DEF ClockRead, StaysUnknown, At, RemovalsAreDue, Heuristics
  <2> QED BY <2>1, <2>2, <2>3
<1>2. CASE SessionSrc
  <2>1. /\ At("session src") /\ thread \in Sessions /\ SrcKey \in Keys
        /\ UNCHANGED <<now, dns_hashtable, dns_ring>>
    BY <1>2, <1>t, ThreadSteps, LookupKeys, Numbers DEF SessionSrc, OnlyReads, TypeOK
  <2>2. PICK value \in Lookups(SrcKey) :
          /\ Get(SrcKey, value)
          /\ IF InTable(value) THEN thread' = [thread EXCEPT !.step = "process", !.client = "dst"]
                               ELSE Goto("session dst")
    BY <1>2 DEF SessionSrc
  <2>3. ~torn' => ~torn /\ value = dns_hashtable[SrcKey]
    BY <1>t, <2>1, <2>2, LookupFacts DEF TypeOK
  <2>4. \/ /\ thread' = [thread EXCEPT !.step = "process", !.client = "dst"]
        \/ /\ UseDnsDb => value = Absent
           /\ thread' = [thread EXCEPT !.step = "session dst"]
    BY <2>2 DEF InTable, Goto
  <2>5. thread' \in Sessions /\ SrcKey' = SrcKey
    BY <2>1, <2>4 DEF Sessions, Clients, SrcKey
  <2>6. StaysUnknown'
    <3>1. CASE thread' = [thread EXCEPT !.step = "process", !.client = "dst"]
      <4>1. thread'.step = "process" /\ thread'.client = "dst"
        BY <2>1, <3>1 DEF Sessions
      <4> QED BY <4>1 DEF StaysUnknown, At
    <3>2. CASE /\ UseDnsDb => value = Absent
               /\ thread' = [thread EXCEPT !.step = "session dst"]
      <4>1. thread'.step = "session dst"
        BY <2>1, <3>2 DEF Sessions
      <4> QED BY <2>1, <2>3, <2>5, <3>2, <4>1 DEF StaysUnknown, At
    <3> QED BY <2>4, <3>1, <3>2
  <2>7. RemovalsAreDue'
    BY <2>1, <2>3, <1>t DEF RemovalsAreDue
  <2> QED BY <2>5, <2>6, <2>7, <1>s
<1>3. CASE SessionDst
  <2>1. /\ At("session dst") /\ thread \in Sessions /\ DstKey \in Keys
        /\ UNCHANGED <<now, dns_hashtable, dns_ring>>
    BY <1>3, <1>t, ThreadSteps, LookupKeys, Numbers DEF SessionDst, OnlyReads, TypeOK
  <2>2. PICK value \in Lookups(DstKey) :
          /\ Get(DstKey, value)
          /\ thread' = [thread EXCEPT !.step = "process", !.client = IF InTable(value) THEN "src" ELSE "none"]
    BY <1>3 DEF SessionDst
  <2>3. ~torn' => ~torn /\ value = dns_hashtable[DstKey]
    BY <1>t, <2>1, <2>2, LookupFacts DEF TypeOK
  <2>4. /\ thread' \in Sessions /\ SrcKey' = SrcKey /\ DstKey' = DstKey
        /\ thread'.step = "process"
        /\ UseDnsDb => (thread'.client = "none" => value = Absent)
    BY <2>1, <2>2 DEF Sessions, Clients, SrcKey, DstKey, InTable
  <2>5. StaysUnknown'
    BY <2>1, <2>3, <2>4, <1>t DEF StaysUnknown, At
  <2>6. RemovalsAreDue'
    BY <2>1, <2>3, <1>t DEF RemovalsAreDue
  <2> QED BY <2>4, <2>5, <2>6, <1>s
<1>4. CASE Process
  <2>1. At("process") /\ UNCHANGED dnsVars
    BY <1>4 DEF Process
  <2>2. CASE thread' = Idle
    BY <2>1, <2>2, <1>i, <1>u
  <2>3. CASE thread' = [step |-> "src", tuple |-> thread.tuple, client |-> thread.client, now |-> now]
    <3>1. thread'.step = "src" /\ thread'.tuple = thread.tuple /\ thread'.client = thread.client /\ thread'.now = now
      BY <2>3
    <3>2. ClockRead'
      BY <2>1, <3>1, <1>n DEF ClockRead, dnsVars
    <3>3. StaysUnknown'
      BY <2>1, <3>1, <1>t DEF StaysUnknown, At, SrcKey, DstKey, dnsVars
    <3> QED BY <2>1, <3>2, <3>3, <1>u
  <2> QED BY <1>4, <2>2, <2>3 DEF Process
<1>5. ASSUME NEW key \in TypedKeys, NEW otherwise \in {"dst", "ignore", "announce"},
             \/ At("src") /\ key = SrcKey /\ otherwise = "dst"
             \/ At("dst") /\ key = DstKey /\ (UseDnsDb => otherwise = "ignore"),
             OnlyReads, Consult(key, otherwise)
      PROVE  ClockRead' /\ RemovalsAreDue' /\ StaysUnknown'
  <2>1. thread \in Heuristics /\ UNCHANGED <<now, dns_hashtable>>
    BY <1>5, <1>t, ThreadSteps DEF OnlyReads, TypeOK
  <2>2. PICK value \in Times \cup {Absent} :
          /\ ~torn' => ~torn /\ value = dns_hashtable[key]
          /\ \/ dns_ring' = dns_ring
             \/ value < thread.now /\ dns_ring' = Append(dns_ring, RemoveIp(key))
          /\ thread' = [thread EXCEPT !.step = IF value >= thread.now THEN "announce" ELSE otherwise]
    BY <1>5, <1>t, <2>1, ConsultFacts
  <2>3. /\ thread'.now = thread.now /\ thread'.client = thread.client /\ thread'.tuple = thread.tuple
        /\ thread'.step = IF value >= thread.now THEN "announce" ELSE otherwise
    BY <2>1, <2>2 DEF Heuristics
  <2>4. ClockRead'
    BY <2>1, <2>3, <1>t DEF ClockRead
  <2>5. RemovalsAreDue'
    BY <2>1, <2>2, <1>t, ConsultDue
  <2>6. StaysUnknown'
    <3> SUFFICES ASSUME UseDnsDb, ~torn'
                 PROVE  StaysUnknown'
      BY DEF StaysUnknown
    <3>1. thread.now \in Nat
      BY <2>1, Numbers DEF Heuristics
    <3>2. thread.client = "none" => value = Absent /\ dns_hashtable[SrcKey] = Absent /\ dns_hashtable[DstKey] = Absent
      BY <1>5, <1>t, <2>2 DEF StaysUnknown
    <3>3. thread.client = "none" => ~(value >= thread.now)
      BY <3>1, <3>2, Numbers
    <3>4. SrcKey' = SrcKey /\ DstKey' = DstKey
      BY <2>3 DEF SrcKey, DstKey
    <3>5. thread.client = "none" => thread'.step \in {"dst", "ignore"}
      BY <1>5, <2>3, <3>3
    <3> QED BY <2>1, <2>3, <3>2, <3>4, <3>5 DEF StaysUnknown, At
  <2> QED BY <2>4, <2>5, <2>6
<1>6. CASE HeuristicSrc
  <2>1. At("src") /\ OnlyReads /\ Consult(SrcKey, "dst")
    BY <1>6 DEF HeuristicSrc
  <2>2. SrcKey \in TypedKeys
    BY <2>1, <1>t, ThreadSteps, LookupKeys DEF TypeOK
  <2> QED BY <2>1, <2>2, <1>5
<1>7. CASE HeuristicDst
  <2>1. At("dst") /\ OnlyReads /\ Consult(DstKey, IF UseDnsDb THEN "ignore" ELSE "announce")
    BY <1>7 DEF HeuristicDst
  <2>2. DstKey \in TypedKeys
    BY <2>1, <1>t, ThreadSteps, LookupKeys DEF TypeOK
  <2>3. CASE UseDnsDb
    <3>1. Consult(DstKey, "ignore")
      BY <2>1, <2>3
    <3> QED BY <2>1, <2>2, <3>1, <1>5
  <2>4. CASE ~UseDnsDb
    <3>1. Consult(DstKey, "announce")
      BY <2>1, <2>4
    <3> QED BY <2>1, <2>2, <2>4, <3>1, <1>5
  <2> QED BY <2>3, <2>4
<1>8. CASE Announce \/ Fix \/ Ignore
  <2>1. UNCHANGED dnsVars
    BY <1>8 DEF Announce, Fix, Ignore
  <2>2. CASE thread' = Idle
    BY <2>1, <2>2, <1>i, <1>u
  <2>3. CASE thread' = [thread EXCEPT !.step = "fix"]
    <3>1. thread \in Heuristics
      BY <1>8, <1>t, ThreadSteps DEF Announce, Fix, Ignore, TypeOK
    <3>2. thread'.step = "fix" /\ thread'.now = thread.now
      BY <2>3, <3>1 DEF Heuristics
    <3>3. ClockRead' /\ StaysUnknown'
      BY <2>1, <3>1, <3>2, <1>t DEF ClockRead, StaysUnknown, At, dnsVars
    <3> QED BY <2>1, <3>3, <1>u
  <2> QED BY <1>8, <2>2, <2>3 DEF Announce, Fix, Ignore, Goto
<1> QED BY <1>1, <1>2, <1>3, <1>4, <1>6, <1>7, <1>8 DEF PacketStep

LEMMA NextInv == Inv /\ [Next]_vars => Inv'
PROOF
<1> SUFFICES ASSUME Inv, [Next]_vars
             PROVE  Inv'
  OBVIOUS
<1>t. TypeOK /\ TypeOK' /\ ClockRead /\ RemovalsAreDue /\ StaysUnknown
  BY NextType DEF Inv
<1>1. CASE PacketStep
  BY <1>1, PacketStepInv
<1>2. CASE DnsStep
  <2>1. UNCHANGED <<thread, torn>>
    BY <1>2 DEF DnsStep, DnsDbStep, Tick, ExecuteAdd, ExecuteRemove, EntriesMoved
  <2>2. /\ now <= now'
        /\ dns_ring' = dns_ring \/ (dns_ring # << >> /\ dns_ring' = Tail(dns_ring))
        /\ \A key \in TypedKeys : dns_hashtable'[key] \in {dns_hashtable[key], Absent}
    BY <1>2, <1>t, DnsStepFacts
  <2>3. ClockRead'
    <3>1. thread \in Heuristics => thread.now \in Int
      BY Numbers DEF Heuristics
    <3>2. now \in Int /\ now' \in Int
      BY <1>t, Numbers DEF TypeOK, DnsType
    <3> QED BY <2>1, <2>2, <3>1, <3>2, <1>t DEF ClockRead
  <2>4. RemovalsAreDue'
    BY <1>t, <2>1, <2>2, DueStaysDue
  <2>5. StaysUnknown'
    BY <1>t, <2>1, <2>2, UnknownStaysUnknown
  <2> QED BY <1>t, <2>3, <2>4, <2>5 DEF Inv
<1>3. ASSUME UNCHANGED <<dnsVars, thread>>
      PROVE  Inv'
  BY <1>3, <1>t DEF dnsVars, Inv, ClockRead, RemovalsAreDue, StaysUnknown, At, SrcKey, DstKey
<1>4. CASE \/ \E packet \in Packets : Arrive(packet) \/ Hide(packet)
           \/ FlowDbTakes
           \/ \E tuple \in FiveTuples : TimeOut(tuple)
  BY <1>3, <1>4, <1>t, OtherStepFacts
<1>5. CASE UNCHANGED vars
  BY <1>3, <1>5 DEF vars
<1> QED BY <1>1, <1>2, <1>4, <1>5 DEF Next

\* For any flows and addresses: the session hash and the heuristic agree.  An
\* address that setup_session_hash did not find cannot be found by heuristic,
\* since no thread ever adds an entry under a key with a type.
THEOREM FlowsHaveClients == Spec => []AnnouncedHasClient
PROOF
<1>1. Init => Inv
  BY InitInv
<1>2. Inv /\ [Next]_vars => Inv'
  BY NextInv
<1>3. Inv => AnnouncedHasClient
  BY DEF Inv, StaysUnknown, AnnouncedHasClient
<1> QED BY <1>1, <1>2, <1>3, PTL DEF Spec

\* For any ring and table, however late dns_db_thread executes a removal: a step
\* takes an address that is still valid out of the table only after a lookup has
\* read another entry's time.
THEOREM ValidAddressesStay == Spec => ValidStays
PROOF
<1>1. Init => Inv
  BY InitInv
<1>2. Inv /\ [Next]_vars => Inv'
  BY NextInv
<1>3. Inv /\ [Next]_vars =>
        [\A key \in Keys : dns_hashtable[key] >= now /\ dns_hashtable'[key] = Absent => torn]_vars
  <2> SUFFICES ASSUME Inv, [Next]_vars, ~torn,
                      NEW key \in Keys, dns_hashtable[key] >= now, dns_hashtable'[key] = Absent
               PROVE  FALSE
    BY Zenon
  <2>t. TypeOK /\ RemovalsAreDue
    BY DEF Inv
  <2>n. now \in Nat /\ dns_hashtable[key] # Absent
    BY <2>t, Numbers DEF TypeOK, DnsType
  <2>1. CASE DnsStep
    <3>1. key \in TypedKeys
      BY <2>1, <2>t, <2>n, DnsStepFacts
    <3>2. /\ dns_ring # << >>
          /\ Head(dns_ring).command = "DNS_REMOVE_IP" /\ Head(dns_ring).address = key
      BY <2>1, <2>t, <2>n, <3>1, DnsStepFacts
    <3>3. 1 \in 1 .. Len(dns_ring) /\ Head(dns_ring) = dns_ring[1]
      BY <3>2, <2>t DEF TypeOK, DnsType
    <3>4. dns_hashtable[key] < now
      BY <2>t, <3>2, <3>3 DEF RemovalsAreDue
    <3>5. dns_hashtable[key] \in Int
      BY <2>t, Numbers DEF TypeOK, DnsType
    <3> QED BY <2>n, <3>4, <3>5
  <2>2. dns_hashtable' = dns_hashtable
        => FALSE
    BY <2>n
  <2>3. CASE PacketStep
    <3>1. dns_hashtable' = dns_hashtable
      BY <2>3 DEF PacketStep, Receive, SessionSrc, SessionDst, Process, HeuristicSrc, HeuristicDst,
                  Announce, Fix, Ignore, OnlyReads, dnsVars
    <3> QED BY <2>2, <3>1
  <2>4. CASE \/ \E packet \in Packets : Arrive(packet) \/ Hide(packet)
             \/ FlowDbTakes
             \/ \E tuple \in FiveTuples : TimeOut(tuple)
    BY <2>2, <2>4, <2>t, OtherStepFacts DEF dnsVars
  <2>5. CASE UNCHANGED vars
    BY <2>2, <2>5 DEF vars, dnsVars
  <2> QED BY <2>1, <2>3, <2>4, <2>5 DEF Next
<1> QED BY <1>1, <1>2, <1>3, PTL DEF Spec, ValidStays
=============================================================================
