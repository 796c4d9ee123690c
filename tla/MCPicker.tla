------------------------------ MODULE MCPicker ------------------------------
(* An instance of Picker for TLC.                                           *)
EXTENDS Picker, TLC

CONSTANTS A, B, t1, t2, p1, p2

KnobValues(w, n, c) == [window |-> w, stable |-> n, crit |-> c]

\* The defaults, a stricter test, and a smaller window.
MCDefault   == KnobValues(3, 1, 700)
MCStricter  == KnobValues(3, 1, 400)
MCSmaller   == KnobValues(2, 1, 700)

Alloc(s, t, n, p) == [site |-> s, tid |-> t, size |-> n, ptr |-> p]
Free(s, t, p)     == [site |-> s, tid |-> t, ptr |-> p]

a1 == Alloc(A, t1, 16, p1)
a2 == Alloc(A, t1, 32, NoPtr)
a3 == Alloc(A, t2, 4, p2)
a4 == Alloc(A, t1, 64, p1)
b1 == Alloc(B, t2, 16, p1)
f1 == Free(A, t1, p1)
f2 == Free(B, t2, p2)

\* A site of three sizes and two threads, one of its sizes too large to be
\* recorded, and a site that is given an address of the first.
MCAllocs == {a1, a2, a3, a4, b1}
MCFrees  == {f1, f2}
MCMaxAllocs == (a1 :> 8) @@ (a2 :> 3) @@ (a3 :> 1) @@ (a4 :> 1) @@ (b1 :> 1)
MCMaxFrees == (f1 :> 1) @@ (f2 :> 1)
=============================================================================
