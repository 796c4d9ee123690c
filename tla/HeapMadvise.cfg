SPECIFICATION FairSpec
CONSTANTS
    t1 = t1  t2 = t2  b1 = b1  b2 = b2  b3 = b3  b4 = b4  b5 = b5  g1 = g1  g2 = g2  g3 = g3
    NoSeg = NoSeg  NoBin = NoBin  NoThread = NoThread
    Threads <- TwoThreads
    ListBins <- OneBin
    PcBins <- OtherBin
    BumpBins <- FifthBin
    PairedBins <- ThirdBin
    ArenaBins <- FourthBin
    Segs <- TwoSegs
    ChunksPerSeg = 2
    CountMod = 8
    MaxSegments = 3
    ReapMode = "Madvise"
INVARIANTS
    NoDoubleUse
PROPERTIES
    ReturnedReaped
\* Every thread may be waiting for an address that mmap cannot find.
CHECK_DEADLOCK FALSE
