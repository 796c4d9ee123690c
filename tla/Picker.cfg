SPECIFICATION Spec
CONSTANTS
    A = A  B = B  t1 = t1  t2 = t2  p1 = p1  p2 = p2
    NoPtr = NoPtr  NoSite = NoSite  NoTid = NoTid
    Allocs <- MCAllocs
    Frees <- MCFrees
    MAX_SIZE = 64
    CAP = 2
    LiveKnobs <- MCStricter
    DefaultKnobs <- MCDefault
    DeoptLimit = 2
    MaxSites = 2
    LifoCap = 2
    PtrWidth = 8
    ReapPct = 20  HoldPct = 10
    TidPct = 75  PairPct = 15  LifoPct = 95
    MonoPct = 100  CoverPct = 100
    MaxClasses = 4
    Forced = "Generic"
    TraceOnly = FALSE
    MaxAllocs <- MCMaxAllocs
    MaxFrees <- MCMaxFrees
    MaxResets = 2
INVARIANTS
    TypeOK
    VotesSound
    FreesConserved
    CompiledOnEvidence
    BlacklistFinal
    OracleUpperBound
    ReportAddsUp
PROPERTIES
    StrategyEarned
CHECK_DEADLOCK FALSE
