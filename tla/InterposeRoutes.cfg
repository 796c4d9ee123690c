SPECIFICATION Spec
CONSTANTS
    t1 = t1  t2 = t2  a1 = a1  a2 = a2
    Null = Null
    Threads <- TwoThreads
    Addrs <- TwoAddrs
    BootCap = 1
    TABLE_SIZE = 2
    Home <- Colliding
SYMMETRY Symmetry
INVARIANTS
    TypeOK
    FreeReachesOwner
    ResolvedBeforeUse
    RecursionBounded
    GuardExact
    ReallocReachesOwner
    ShadowExact
\* All calls may be waiting for memory, or have aborted in libc.
CHECK_DEADLOCK FALSE
