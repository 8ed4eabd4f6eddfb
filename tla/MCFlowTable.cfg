SPECIFICATION Spec
SYMMETRY SymmetricValues
CONSTANTS
    k1 = k1
    k2 = k2
    k3 = k3
    Keys = {k1, k2, k3}
    Values = {v1, v2, v3}
    Size = 3
    MurmurHash3 <- Colliding
    NoKey = NoKey
    StoreGroups <- SeenByLookups
    Sought = {k3}
INVARIANTS ProbesUnbroken MapExact RemovalsEnd FoundWasThere OnlyShiftsHide
PROPERTY ImplementsDictionary
