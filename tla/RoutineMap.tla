------------------------------ MODULE RoutineMap ------------------------------
(***************************************************************************)
(* What the dispatch table promises: a map from call sites to routines.    *)
(* An install or a revert takes effect at once. A lookup takes a while and *)
(* returns a routine that the site had at some moment in between, or no    *)
(* routine if there was a moment when it had none.                         *)
(***************************************************************************)
CONSTANTS Threads, Sites, NoSite, Routines, NoRoutine

VARIABLES
    map,     \* the routine of each site, or NoRoutine
    asked,   \* the site a thread is looking up, or NoSite
    seen,    \* the routines that site has had since the lookup began
    got      \* what the last lookup of a thread returned

vars == <<map, asked, seen, got>>

Init ==
    /\ map = [s \in Sites |-> NoRoutine]
    /\ asked = [t \in Threads |-> NoSite]
    /\ seen = [t \in Threads |-> {}]
    /\ got = [t \in Threads |-> NoRoutine]

Set(s, r) ==
    /\ map' = [map EXCEPT ![s] = r]
    /\ seen' = [t \in Threads |-> IF asked[t] = s THEN seen[t] \cup {r} ELSE seen[t]]
    /\ UNCHANGED <<asked, got>>

Ask(t, s) ==
    /\ asked[t] = NoSite
    /\ asked' = [asked EXCEPT ![t] = s]
    /\ seen' = [seen EXCEPT ![t] = {map[s]}]
    /\ UNCHANGED <<map, got>>

Answer(t) ==
    /\ asked[t] # NoSite
    /\ \E r \in seen[t] : got' = [got EXCEPT ![t] = r]
    /\ asked' = [asked EXCEPT ![t] = NoSite]
    /\ seen' = [seen EXCEPT ![t] = {}]
    /\ UNCHANGED map

\* The thread has no more use for what it got.
Forget(t) ==
    /\ asked[t] = NoSite
    /\ got' = [got EXCEPT ![t] = NoRoutine]
    /\ UNCHANGED <<map, asked, seen>>

Next ==
    \/ \E s \in Sites, r \in Routines \cup {NoRoutine} : Set(s, r)
    \/ \E t \in Threads : (\E s \in Sites : Ask(t, s)) \/ Answer(t) \/ Forget(t)

Spec == Init /\ [][Next]_vars
=============================================================================
