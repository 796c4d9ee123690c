SPECIFICATION Spec
CONSTANTS
    t1 = t1  t2 = t2  b1 = b1  b2 = b2  A = A  B = B  C = C  r1 = r1  r2 = r2
    NoBlock = NoBlock  NoSite = NoSite  NoRoutine = NoRoutine
    Threads <- TwoThreads
    Blocks <- TwoBlocks
    ReuseBlocks = TRUE
    Sites <- ThreeSites
    Hot <- TwoSites
    Routines <- TwoRoutines
    TABLE_SIZE = 2
    Home <- Colliding
    MaxGeneration = 1
INVARIANTS
    ScanComplete
