SPECIFICATION Spec
CONSTANTS
    f1 = f1
    f2 = f2
    f3 = f3
    FiveTuples = {f1, f2}
    Ports = {0}
    DEVPORT_MAPPING <- SelfPort
    NumPipes = 1
    HeapSize = 2
    RingSize = 2
    UseSessions = TRUE
    Client <- OneClient
    Arrivals <- PipeZero
    Garbage = {0}
    CountBound = 2
    l3_proto <- AllIPv4
    TableSize <- FullIPv4
INVARIANT IdsConserved
