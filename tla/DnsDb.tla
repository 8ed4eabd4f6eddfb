-------------------------------- MODULE DnsDb --------------------------------
(***************************************************************************)
(* The DNS database: the table of relevant server addresses                *)
(* (datastructures/dns_hashtable.c), the ring of DNS commands              *)
(* (datastructures/dns_ringbuffer.h) and dns_db_thread (dns_db/dns_db.c),  *)
(* which alone writes the table.  packet_thread reads it without a lock.   *)
(*                                                                         *)
(* The table is the dictionary that module ProbeTable shows an open        *)
(* addressed table to implement, except for two things the DNS table does  *)
(* differently: a lookup in a full table does not end when the address is  *)
(* unknown, and a lookup reads the value after it has found the entry, so  *)
(* that it may read another entry's value while a removal moves entries.   *)
(***************************************************************************)
EXTENDS Integers, Sequences, FiniteSets

CONSTANTS Addresses,
          Seeded,           \* entries that are put into the table directly, as
                            \* evaluation/packet_handler_eval.c does
          MaxTime,          \* bound on the clock, for TLC
          MaxTtl,           \* the longest time to live of an answer
          DnsTableSize,     \* DNS_HASHTABLE_SIZE
          DnsRingSize       \* DNS_RINGBUFFER_SIZE

ASSUME MaxTimeAssumption == MaxTime \in Nat /\ MaxTtl \in Nat
ASSUME DnsSizesAssumption == DnsTableSize \in Nat \ {0} /\ DnsRingSize \in Nat \ {0}

\* l3_proto_t: AF_INET and AF_INET6, and the 0 of a key that nobody gave a type.
L3 == {"L3_IPV4", "L3_IPV6"}
NoType == "0"

\* dns_hashtable_key_t
Keys == [type : L3 \cup {NoType}, address : Addresses]

\* The time an address is valid until, or no entry.
Times  == 0 .. MaxTime + MaxTtl
Absent == -1

ASSUME SeededAssumption == Seeded \in [Keys -> Times \cup {Absent}]

VARIABLES now,              \* CLOCK_MONOTONIC_COARSE, in seconds
          dns_hashtable,
          dns_ring,
          dns_db,           \* whether dns_db_thread is moving entries
          torn              \* has a lookup met entries being moved?

dnsVars == <<now, dns_hashtable, dns_ring, dns_db, torn>>

DnsInit ==
    /\ now = 0
    /\ dns_hashtable = Seeded
    /\ dns_ring = << >>
    /\ dns_db = "waiting"
    /\ torn = FALSE

Tick ==
    /\ now < MaxTime
    /\ now' = now + 1
    /\ UNCHANGED <<dns_hashtable, dns_ring, dns_db, torn>>

------------------------------------------------------------------------------
(* The table *)

Occupied == {key \in Keys : dns_hashtable[key] # Absent}
Full == Cardinality(Occupied) = DnsTableSize

LookupsUntilFound(key) ==
    IF dns_db = "moving" THEN Times \cup {Absent} ELSE {dns_hashtable[key]} \ {Absent}

\* dns_hashtable_get: what the lookup of a key may return.  Nothing, when it
\* searches a full table for a key that is not there.
Lookups(key) ==
    IF dns_db = "moving" THEN Times \cup {Absent}
    ELSE {value \in {dns_hashtable[key]} : value # Absent \/ ~Full}

\* The lookup of a key returns value.
Get(key, value) ==
    /\ value \in Lookups(key)
    /\ torn' = (torn \/ value # dns_hashtable[key])

\* dns_hashtable_add_or_change: a full table is not even searched.
AddOrChange(key, value) ==
    dns_hashtable' = IF Full THEN dns_hashtable ELSE [dns_hashtable EXCEPT ![key] = value]

------------------------------------------------------------------------------
(* The ring: the bounded queue of module CommandRing.  A put that finds it     *)
(* full is refused, and nobody looks at the result.                            *)

PutDns(command) ==
    dns_ring' = IF Len(dns_ring) < DnsRingSize THEN Append(dns_ring, command) ELSE dns_ring

AddPkt(answers) == [command |-> "DNS_ADD_PKT", pkt |-> answers]
RemoveIp(key)   == [command |-> "DNS_REMOVE_IP", address |-> key]

------------------------------------------------------------------------------
(* dns_db_thread *)

\* The records with an address, and those of the RELEVANT_DOMAIN_NAMES.
AddressRecords(answers) == {n \in 1 .. Len(answers) : answers[n].type \in {"ns_t_a", "ns_t_aaaa"}}
Relevant(answers) == {n \in AddressRecords(answers) : answers[n].relevant}

\* The loop over RELEVANT_DOMAIN_NAMES counts to its size in bytes: the names
\* that are compared beyond its end are whatever the memory holds there, where
\* an empty one matches every record.
Matches(answers) == {matching \in SUBSET AddressRecords(answers) : Relevant(answers) \subseteq matching}

\* parse_dns_packet returns after the first matching record.  The type of the
\* key is never set.
AddAnswer(answers) ==
    \E matching \in Matches(answers) :
        IF matching = {} THEN UNCHANGED dns_hashtable
        ELSE LET n == CHOOSE m \in matching : \A other \in matching : m <= other
             IN  AddOrChange([type |-> NoType, address |-> answers[n].address], now + answers[n].ttl)

ExecuteAdd ==
    /\ dns_db = "waiting"
    /\ dns_ring # << >>
    /\ Head(dns_ring).command = "DNS_ADD_PKT"
    /\ AddAnswer(Head(dns_ring).pkt)
    /\ dns_ring' = Tail(dns_ring)
    /\ UNCHANGED <<now, dns_db, torn>>

ExecuteRemoveUntyped ==
    /\ dns_db = "waiting"
    /\ dns_ring # << >>
    /\ Head(dns_ring).command = "DNS_REMOVE_IP"
    /\ dns_hashtable' = [dns_hashtable EXCEPT ![[Head(dns_ring).address EXCEPT !.type = NoType]] = Absent]
    /\ dns_db' = "moving"
    /\ dns_ring' = Tail(dns_ring)
    /\ UNCHANGED <<now, torn>>

\* dns_hashtable_remove: the entry is taken out, and then the entries of its
\* chain are moved.  It searches for the entry as a lookup does.
ExecuteRemove ==
    /\ dns_db = "waiting"
    /\ dns_ring # << >>
    /\ Head(dns_ring).command = "DNS_REMOVE_IP"
    /\ Head(dns_ring).address \in Occupied \/ ~Full
    /\ dns_hashtable' = [dns_hashtable EXCEPT ![Head(dns_ring).address] = Absent]
    /\ dns_db' = IF Head(dns_ring).address \in Occupied THEN "moving" ELSE "waiting"
    /\ dns_ring' = Tail(dns_ring)
    /\ UNCHANGED <<now, torn>>

EntriesMoved ==
    /\ dns_db = "moving"
    /\ dns_db' = "waiting"
    /\ UNCHANGED <<now, dns_hashtable, dns_ring, torn>>

DnsDbStep == ExecuteAdd \/ ExecuteRemove \/ EntriesMoved
==============================================================================
