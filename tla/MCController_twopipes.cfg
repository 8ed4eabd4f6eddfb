SPECIFICATION FairSpec
CONSTANTS
    f1 = f1
    f2 = f2
    f3 = f3
    FiveTuples = {f1, f2, f3}
    Ports = {0, 128}
    DEVPORT_MAPPING <- SwapPorts
    NumPipes = 2
    HeapSize = 1
    RingSize = 2
    UseSessions = FALSE
    Client <- OneClient
    Arrivals <- OnePort
    Garbage = {0}
    CountBound = 2
    l3_proto <- MixedProtocols
    TableSize <- FullTables
INVARIANTS TypeOK IdsConserved IdShowsPipe IdsInLockstep NothingRejected CountersNotShared SwitchFollowsFlowTable RemovalHitsItsFlow
PROPERTIES Converges RemovalFinishes
