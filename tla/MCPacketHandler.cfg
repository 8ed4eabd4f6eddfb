SPECIFICATION FairSpec
CONSTANTS
    server = server
    stale = stale
    client = client
    udp = udp
    tcp = tcp
    dns = dns
    Addresses = {server, stale, client}
    FiveTuples <- Tuples
    Src <- SrcOf
    Dst <- DstOf
    SrcPort <- Swapped
    L3Proto <- AllIPv4
    L4Proto <- L4Of
    Flags <- FlagsOf
    Payloads <- Carried
    Seeded <- Known4
    MaxTime = 1
    MaxTtl = 0
    DnsTableSize = 3
    DnsRingSize = 1
    UseDnsDb = TRUE
    PacketRingSize = 1
    FlowIds = 1
INVARIANT AnnouncedHasClient
PROPERTIES ValidStays RelevantBecomesKnown LookupsEnd TimedOutIsRemoved
CHECK_DEADLOCK FALSE
