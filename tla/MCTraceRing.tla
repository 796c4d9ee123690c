----------------------------- MODULE MCTraceRing -----------------------------
(* An instance of TraceRing for TLC.                                          *)
EXTENDS TraceRing, TLC

CONSTANTS t1, t2

TwoThreads == {t1, t2}

\* One thread overruns its ring, the other races it.
ThreeAndOne == (t1 :> 3) @@ (t2 :> 1)
=============================================================================
