SPECIFICATION FairSpec
CONSTANTS
    WordSize = 3
    LongSize = 6
    Bursts = {1, 2}
INVARIANTS CorrectModuloWord ValueExact
PROPERTY CatchesUp
