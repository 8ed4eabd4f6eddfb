SPECIFICATION FairSpec
CONSTANTS
    Size = 3
    Producers = {p1, p2}
    Consumer = c
    Items = {a, b}
    NoItem = NoItem
    NoThread = NoThread
INVARIANTS GetNeverUnderflows PutNeverOverwrites FlagsExact IndInv
PROPERTIES ImplementsQueue ConsumerNotStarved CallsReturn
