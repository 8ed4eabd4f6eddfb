SPECIFICATION SessionSpec
CONSTANTS
    k1 = k1
    k2 = k2
    k3 = k3
    Keys = {k1, k2, k3}
    Values = {1, 2}
    Size = 3
    MurmurHash3 <- Colliding
    NoKey = NoKey
    StoreGroups <- SeenByExport
    Watched = {1}
INVARIANT SettledIsExported
