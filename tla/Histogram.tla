------------------------------ MODULE Histogram ------------------------------
(***************************************************************************)
(* The statistics the picker decides by: the sparse size histogram of a    *)
(* window, the two-sample Kolmogorov-Smirnov test on two of them, and the  *)
(* majority vote that stands for a distribution of thread ids or of        *)
(* freeing sites.                                                          *)
(*                                                                         *)
(* A histogram is a function from the sizes it tracks to their counts, a   *)
(* flag for sizes it had no room for, and the number of sizes recorded.    *)
(* Fractions are in percent and rounded down, as the casts in the code do; *)
(* the rounding errors of its double arithmetic are left out.              *)
(***************************************************************************)
EXTENDS Naturals, FiniteSets, Functions

CONSTANTS
    MAX_SIZE,   \* sizes from here on are not recorded (4096)
    CAP         \* distinct sizes a window can track (64)

ASSUME HistogramAssumption == MAX_SIZE \in Nat /\ CAP \in Nat \ {0}

EmptyHist == [counts |-> [x \in {} |-> 0], overflow |-> FALSE, total |-> 0]

Tracked(h) == DOMAIN h.counts

IsHistogram(h) ==
    /\ Tracked(h) \subseteq 0..(MAX_SIZE - 1) /\ Cardinality(Tracked(h)) <= CAP
    /\ \A x \in Tracked(h) : h.counts[x] \in Nat
    /\ h.overflow \in BOOLEAN /\ h.total \in Nat

\* A size that is not tracked yet takes a free entry, or overflows.
HistRecord(h, size) ==
    LET hasRoom == size \in Tracked(h) \/ Cardinality(Tracked(h)) < CAP
    IN  IF size >= MAX_SIZE THEN h
        ELSE [total    |-> h.total + 1,
              overflow |-> h.overflow \/ ~hasRoom,
              counts   |-> IF ~hasRoom THEN h.counts
                           ELSE [x \in Tracked(h) \cup {size} |->
                                    (IF x \in Tracked(h) THEN h.counts[x] ELSE 0)
                                    + (IF x = size THEN 1 ELSE 0)]]

\* Events of the sizes in S.
Mass(h, S) == SumFunctionOnSet(h.counts, S \cap Tracked(h))

\* The tracked sizes that come before x: higher counts, ties by lowest size.
Ahead(h, x) ==
    {y \in Tracked(h) : \/ h.counts[y] > h.counts[x]
                        \/ h.counts[y] = h.counts[x] /\ y < x}

DominantSize(h) ==
    IF Tracked(h) = {} THEN 0
    ELSE CHOOSE x \in Tracked(h) : Ahead(h, x) = {}

Percent(pct, n) == (pct * n) \div 100

IsMonomorphic(h, pct) ==
    h.total > 0 /\ h.counts[DominantSize(h)] >= Percent(pct, h.total)

\* The sizes in order of Ahead, until k are taken or they cover the target.
TopKModes(h, k, pct) ==
    {x \in Tracked(h) :
        /\ Cardinality(Ahead(h, x)) < k
        /\ Ahead(h, x) = {} \/ Mass(h, Ahead(h, x)) < Percent(pct, h.total)}

\* The smallest tracked size that more than p percent of the other events do
\* not exceed; the largest one if the tracked sizes are too few.
Quantile(h, p) ==
    LET below(x) == Mass(h, {y \in Tracked(h) : y <= x})
        over     == {x \in Tracked(h) : below(x) > Percent(p, h.total - 1)}
    IN  IF h.total = 0 THEN 0
        ELSE IF over # {} THEN CHOOSE x \in over : \A y \in over : x <= y
        ELSE CHOOSE x \in Tracked(h) : \A y \in Tracked(h) : y <= x

Distance(m, n) == IF m > n THEN m - n ELSE n - m

\* n_a * n_b * |F_a(x) - F_b(x)|
CdfGap(a, b, x) ==
    Distance(Mass(a, {y \in Tracked(a) : y <= x}) * b.total,
             Mass(b, {y \in Tracked(b) : y <= x}) * a.total)

\* ks_stable: max_d < c_alpha * sqrt((n_a + n_b) / (n_a * n_b)), in integers.
\* critSq is 1000 * c_alpha^2: 2649, 1844 or 1498, depending on alpha.
KsStable(a, b, critSq) ==
    /\ a.total > 0 /\ b.total > 0
    /\ ~a.overflow /\ ~b.overflow
    /\ \A x \in Tracked(a) \cup Tracked(b) :
          1000 * CdfGap(a, b, x) * CdfGap(a, b, x)
             < critSq * a.total * b.total * (a.total + b.total)

-----------------------------------------------------------------------------
\* A vote: the leading candidate and its score. The events seen (total) are
\* the site's event_count or free_count.
NoVotes(nobody) == [top |-> nobody, score |-> 0]

\* Faulty variant of Vote: nothing is taken off the leader's score.
VoteIgnoresOthers(v, x) ==
    IF v.score = 0 \/ v.top = x THEN [top |-> x, score |-> v.score + 1] ELSE v

\* ThreadDist::record. Unlike in Boyer and Moore's algorithm the event that
\* brings the score to zero takes the lead at once, with a score of one.
Vote(v, x) ==
    IF v.score = 0 \/ v.top = x THEN [top |-> x, score |-> v.score + 1]
    ELSE IF v.score = 1 THEN [top |-> x, score |-> 1]
    ELSE [v EXCEPT !.score = @ - 1]
=============================================================================
