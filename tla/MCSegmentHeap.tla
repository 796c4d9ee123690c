---------------------------- MODULE MCSegmentHeap ----------------------------
(* Instances of SegmentHeap for TLC.                                        *)
EXTENDS SegmentHeap, TLC

CONSTANTS t1, t2, b1, b2, b3, b4, b5, g1, g2, g3

TwoThreads == {t1, t2}
NoBins     == {}
OtherBin   == {b2}
ThirdBin   == {b3}
FourthBin  == {b4}
FifthBin   == {b5}
OneBin     == {b1}
TwoBins    == {b1, b2}
TwoSegs    == {g1, g2}
ThreeSegs  == {g1, g2, g3}

\* Threads, segments and bins of a kind are interchangeable.
Symmetry == Permutations(Threads) \cup Permutations(Segs) \cup Permutations(ListBins)
=============================================================================
