----------------------------- MODULE MCCodeCache -----------------------------
(* Instances of CodeCache for TLC.                                          *)
EXTENDS CodeCache, TLC

CONSTANTS t1, t2, s1, s2, p1, p2

OneThread  == {t1}
TwoThreads == {t1, t2}
OneSite    == {s1}
TwoSites   == {s1, s2}
OnePage    == {p1}
TwoPages   == {p1, p2}
NoThreads  == {}

\* Threads and pages are interchangeable; sound for safety only.
Symmetry == Permutations(Threads) \cup Permutations(Sites) \cup Permutations(Pages)
=============================================================================
