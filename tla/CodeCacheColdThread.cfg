SPECIFICATION Spec
CONSTANTS
    t1 = t1  t2 = t2  s1 = s1  s2 = s2  p1 = p1  p2 = p2
    NoPage = NoPage  NoSite = NoSite
    Threads <- TwoThreads
    Sites <- OneSite
    Pages <- OnePage
    SafePointPeriod = 2
    QueueCap = 1
    MaxPending = 2
    DeoptLimit = 2
    MaxSlots = 1
    Warm <- NoThreads
    FreshMmap = TRUE
    DeoptEnabled = TRUE
SYMMETRY Symmetry
INVARIANTS
    PageSafe
