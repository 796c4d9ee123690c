----------------------------- MODULE MCInterpose -----------------------------
(* Instances of Interpose for TLC.                                          *)
EXTENDS Interpose, TLC

CONSTANTS t1, t2, a1, a2

TwoThreads == {t1, t2}
TwoAddrs   == {a1, a2}

\* Every address has the last slot for its home.
Colliding == [a \in Addrs |-> TABLE_SIZE - 1]

\* Threads and addresses are interchangeable.
Symmetry == Permutations(Threads) \cup Permutations(Addrs)

\* The shadow validator's table by itself, with every way for three pointers to
\* collide in four slots, and in three, where it can be full. Whatever is erased
\* from a table in which each entry is found, exactly that entry is gone and
\* all others are still found.
Table(n, h) == INSTANCE ShadowTable WITH TABLE_SIZE <- n, Home <- h, Null <- 0

Found(n, h, table) ==
    \A i \in 0..(n - 1) : table[i] # 0 => Table(n, h)!SlotOf(table, table[i]) = i

ASSUME EraseTakesOneOut ==
    \A n \in {3, 4} : \A h \in [1..3 -> 0..(n - 1)] :
        \A table \in {u \in [0..(n - 1) -> 0..3] : Found(n, h, u)}, p \in 1..3 :
            LET left == Table(n, h)!Erase(table, p)
            IN  Found(n, h, left) /\ Range(left) \ {0} = Range(table) \ {0, p}
=============================================================================
