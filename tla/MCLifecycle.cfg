SPECIFICATION LifecycleSpec
CONSTANTS
    f1 = f1
    f2 = f2
    FiveTuples = {f1, f2}
    Ports = {0, 128}
    DEVPORT_MAPPING <- ToOther
    NumPipes = 2
    HeapSize = 1
    RingSize = 1
    PacketRingSize = 2
    UseSessions = FALSE
    Client <- OneClient
    Arrivals <- PortZero
    Garbage = {0}
    CountBound = 0
    l3_proto <- AllIPv4
    TableSize <- FullIPv4
    TcpFlows = {f1}
    FLOW_TIMEOUT = 2
    Uptimes = {1}
PROPERTIES TimeoutsAreDue IdleFlowsEnd
