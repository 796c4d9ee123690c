SPECIFICATION Spec
CONSTANTS
    t1 = t1  t2 = t2  s1 = s1  s2 = s2  p1 = p1  p2 = p2
    NoPage = NoPage  NoSite = NoSite
    Threads <- TwoThreads
    Sites <- OneSite
    Pages <- TwoPages
    SafePointPeriod = 1
    QueueCap = 1
    MaxPending = 1
    DeoptLimit = 1
    MaxSlots = 2
    Warm <- TwoThreads
    FreshMmap = TRUE
    DeoptEnabled = TRUE
SYMMETRY Symmetry
INVARIANTS
    CacheCoherent
    PageSafe
    InstalledMapped
    CondemnedUnreachable
    StragglerPinned
