--------------------------- MODULE MCSharedTables ---------------------------
(* Instances of SharedTables for TLC.                                       *)
EXTENDS SharedTables, TLC

CONSTANTS t1, t2, b1, b2, A, B, C, r1, r2

TwoThreads == {t1, t2}
TwoBlocks  == {b1, b2}
ThreeSites == {A, B, C}
TwoSites   == {A, B}
TwoRoutines == {r1, r2}

\* All sites have the last slot for their home.
Colliding == [s \in Sites |-> TABLE_SIZE - 1]

\* Threads, blocks, compiled sites and routines are interchangeable.
Symmetry == Permutations(Threads) \cup Permutations(Blocks)
                \cup Permutations(Hot) \cup Permutations(Routines)
=============================================================================
