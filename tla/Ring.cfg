SPECIFICATION FairSpec
CONSTANTS
    t1 = t1  t2 = t2
    NoRing = NoRing  NoEvent = NoEvent
    Threads <- TwoThreads
    Capacity = 2
    MaxEvents <- ThreeAndOne
    Backoffs = 1
    Overlap = FALSE
INVARIANTS
    TypeOK
    FinalDrain
    FileWellFormed
PROPERTIES
    RefinesChannel
    NothingWaits
CHECK_DEADLOCK FALSE
