SPECIFICATION Spec
CONSTANTS
    AllIds = {4, 8, 12, 16, 20, 24}
    Fills <- Permuted
INVARIANT ArrayNotExceeded
PROPERTY ImplementsIdPool
