SPECIFICATION FairSpec
CONSTANTS
    t1 = t1
    FiveTuples = {t1}
    NUM_BLOOMFILTERS = 2
    BLOOMFILTER_WIDTH = 2
    hashes <- OneTuple
    RingSize = 2
    Modulus = 8
    MarkBound = 2
INVARIANT CountedIsWritten
PROPERTY LocksAreReleased
