SPECIFICATION Spec
CONSTANTS
    server = server
    stale = stale
    client = client
    udp = udp
    tcp = tcp
    dns = dns
    Addresses = {server, stale, client}
    FiveTuples <- Tuples
    Src <- SrcOf
    Dst <- DstOf
    SrcPort <- Standard
    L3Proto <- AllIPv4
    L4Proto <- L4Of
    Flags <- FlagsOf
    Payloads <- Carried
    Seeded <- Nothing
    MaxTime = 1
    MaxTtl = 0
    DnsTableSize = 4
    DnsRingSize = 1
    UseDnsDb = TRUE
    PacketRingSize = 1
    FlowIds = 1
INVARIANT AnswersAreUsed
CHECK_DEADLOCK FALSE
