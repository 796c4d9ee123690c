--------------------------- MODULE HistogramProofs ---------------------------
(***************************************************************************)
(* Proofs about the statistics of Histogram, for every value of its        *)
(* constants: what recording a size keeps true of a histogram, that the    *)
(* test on two windows does not depend on their order, that no more modes  *)
(* are learned than asked for, that quantiles are in order, and that the   *)
(* majority vote tells the truth.                                          *)
(***************************************************************************)
EXTENDS Histogram, FiniteSums

-----------------------------------------------------------------------------
(* What a histogram keeps true of its counts.                               *)

\* As long as no size was turned away, the counts account for every event;
\* and there are sizes on record once there are events.
Accounted(h) ==
    /\ Mass(h, Tracked(h)) <= h.total
    /\ ~h.overflow => Mass(h, Tracked(h)) = h.total
    /\ h.total > 0 => Tracked(h) # {}

\* The sizes a histogram tracks are finitely many natural numbers.
LEMMA TrackedFinite ==
    ASSUME NEW h, IsHistogram(h)
    PROVE  /\ IsFiniteSet(Tracked(h)) /\ Cardinality(Tracked(h)) \in Nat
           /\ Tracked(h) \subseteq Nat
           /\ \A S : /\ S \cap Tracked(h) \in SUBSET Tracked(h)
                     /\ IsFiniteSet(S \cap Tracked(h))
                     /\ NatOn(h.counts, S \cap Tracked(h))
<1>1. IsFiniteSet(0..(MAX_SIZE - 1))
  BY HistogramAssumption, FS_Interval
<1>2. Tracked(h) \in SUBSET (0..(MAX_SIZE - 1))
  BY DEF IsHistogram
<1>3. IsFiniteSet(Tracked(h))
  BY <1>1, <1>2, FS_Subset
<1>4. Cardinality(Tracked(h)) \in Nat
  BY <1>3, FS_CardinalityType
<1>5. Tracked(h) \subseteq Nat
  BY <1>2, HistogramAssumption
<1>6. ASSUME NEW S
      PROVE  IsFiniteSet(S \cap Tracked(h)) /\ NatOn(h.counts, S \cap Tracked(h))
  BY <1>3, FS_Subset DEF IsHistogram, NatOn
<1> QED
  BY <1>3, <1>4, <1>5, <1>6

\* The mass of a set of sizes is a natural number, and grows with the set.
LEMMA MassMonotone ==
    ASSUME NEW h, IsHistogram(h), NEW S, NEW T, S \subseteq T
    PROVE  /\ Mass(h, S) \in Nat /\ Mass(h, T) \in Nat
           /\ Mass(h, S) <= Mass(h, T)
<1>1. /\ IsFiniteSet(S \cap Tracked(h)) /\ NatOn(h.counts, S \cap Tracked(h))
      /\ IsFiniteSet(T \cap Tracked(h)) /\ NatOn(h.counts, T \cap Tracked(h))
  BY TrackedFinite
<1>2. Mass(h, S) \in Nat /\ Mass(h, T) \in Nat
  BY <1>1, SumNat DEF Mass
<1>3. S \cap Tracked(h) \in SUBSET (T \cap Tracked(h))
  OBVIOUS
<1> QED
  BY <1>1, <1>2, <1>3, SumOfSubset DEF Mass

\* A histogram starts without events.
LEMMA EmptyHistOK ==
    IsHistogram(EmptyHist) /\ Accounted(EmptyHist) /\ EmptyHist.total = 0
<1>1. Tracked(EmptyHist) = {} /\ EmptyHist.total = 0 /\ EmptyHist.overflow = FALSE
  BY DEF Tracked, EmptyHist
<1>2. Mass(EmptyHist, Tracked(EmptyHist)) = 0
  <2>1. Tracked(EmptyHist) \cap Tracked(EmptyHist) = {}
    BY <1>1
  <2> QED
    BY <2>1, SumEmpty DEF Mass
<1>3. IsHistogram(EmptyHist)
  <2>1. Cardinality(Tracked(EmptyHist)) = 0
    BY <1>1, FS_EmptySet
  <2>2. Cardinality(Tracked(EmptyHist)) <= CAP
    BY <2>1, HistogramAssumption
  <2>3. /\ Tracked(EmptyHist) \subseteq 0..(MAX_SIZE - 1)
        /\ \A x \in Tracked(EmptyHist) : EmptyHist.counts[x] \in Nat
    BY <1>1
  <2>4. EmptyHist.overflow \in BOOLEAN
    BY <1>1, Zenon
  <2>5. EmptyHist.total \in Nat
    BY <1>1
  <2> QED
    BY <2>2, <2>3, <2>4, <2>5 DEF IsHistogram
<1>4. Accounted(EmptyHist)
  BY <1>1, <1>2 DEF Accounted
<1> QED
  BY <1>1, <1>3, <1>4

\* Recording a size keeps the histogram within its entries and its counts
\* accounted for, and is one more event.
LEMMA HistRecordOK ==
    ASSUME NEW h, IsHistogram(h), Accounted(h), NEW size \in Nat, size < MAX_SIZE
    PROVE  /\ IsHistogram(HistRecord(h, size))
           /\ Accounted(HistRecord(h, size))
           /\ HistRecord(h, size).total = h.total + 1
<1> DEFINE n == HistRecord(h, size)
           D == Tracked(h)
           room == size \in D \/ Cardinality(D) < CAP
           bumped == [x \in D \cup {size} |-> (IF x \in D THEN h.counts[x] ELSE 0)
                                              + (IF x = size THEN 1 ELSE 0)]
<1>0. h.total \in Nat /\ h.overflow \in BOOLEAN /\ \A x \in D : h.counts[x] \in Nat
  BY DEF IsHistogram
<1>1. /\ n.total = h.total + 1
      /\ n.overflow = (h.overflow \/ ~room)
      /\ n.counts = IF ~room THEN h.counts ELSE bumped
  BY HistogramAssumption DEF HistRecord
<1>2. IsFiniteSet(D) /\ Cardinality(D) \in Nat /\ NatOn(h.counts, D) /\ D \subseteq Nat
  <2>1. D \cap D = D
    OBVIOUS
  <2> QED
    BY <2>1, TrackedFinite
<1>3. Mass(h, D) = SumFunctionOnSet(h.counts, D) /\ Mass(h, D) \in Nat
  <2>1. D \cap D = D
    OBVIOUS
  <2> QED
    BY <1>2, <2>1, SumNat DEF Mass
<1>4. n.total \in Nat /\ n.overflow \in BOOLEAN /\ n.total > 0
  BY <1>0, <1>1
<1>5. Mass(n, Tracked(n)) = SumFunctionOnSet(n.counts, Tracked(n))
  <2>1. Tracked(n) \cap Tracked(n) = Tracked(n)
    OBVIOUS
  <2> QED
    BY <2>1 DEF Mass
<1>6. CASE ~room
  <2>1. n.counts = h.counts /\ Tracked(n) = D /\ n.overflow = TRUE
    BY <1>0, <1>1, <1>6 DEF Tracked
  <2>2. IsHistogram(n)
    BY <1>4, <2>1 DEF IsHistogram
  <2>3. D # {}
    BY <1>6, FS_EmptySet, HistogramAssumption
  <2> QED
    BY <1>0, <1>1, <1>3, <1>5, <2>1, <2>2, <2>3 DEF Accounted
<1>7. CASE room
  <2>1. n.counts = bumped /\ Tracked(n) = D \cup {size} /\ n.overflow = h.overflow
    BY <1>0, <1>1, <1>7 DEF Tracked
  <2>2. \A x \in D \cup {size} : bumped[x] \in Nat
    BY <1>0
  <2>3. Cardinality(D \cup {size}) <= CAP
    <3>1. Cardinality(D) <= CAP
      BY DEF IsHistogram
    <3>2. Cardinality(D \cup {size}) = IF size \in D THEN Cardinality(D) ELSE Cardinality(D) + 1
      BY <1>2, FS_AddElement
    <3> QED
      BY <1>2, <1>7, <3>1, <3>2, HistogramAssumption
  <2>4. D \cup {size} \subseteq 0..(MAX_SIZE - 1)
    BY HistogramAssumption DEF IsHistogram
  <2>5. IsHistogram(n)
    BY <1>4, <2>1, <2>2, <2>3, <2>4 DEF IsHistogram
  <2>6. SumFunctionOnSet(bumped, D \cup {size}) = SumFunctionOnSet(h.counts, D) + 1
    <3> DEFINE E == D \cup {size}
               old == [x \in E |-> IF x \in D THEN h.counts[x] ELSE 0]
    <3>1. IsFiniteSet(E) /\ NatOn(old, E) /\ size \in E
      BY <1>0, <1>2, FS_AddElement DEF NatOn
    <3>2. bumped[size] = old[size] + 1 /\ \A y \in E \ {size} : bumped[y] = old[y]
      BY <1>0
    <3>3. SumFunctionOnSet(bumped, E) = SumFunctionOnSet(old, E) + 1
      <4> HIDE DEF bumped, old, E
      <4> QED
        BY <3>1, <3>2, SumBump
    <3>4. SumFunctionOnSet(old, E) = SumFunctionOnSet(h.counts, D)
      <4>1. SumFunctionOnSet(old, D) = SumFunctionOnSet(h.counts, D)
        <5>1. NatOn(old, D) /\ \A x \in D : old[x] = h.counts[x]
          BY <1>0 DEF NatOn
        <5> HIDE DEF old
        <5> QED
          BY <1>2, <5>1, SumSame
      <4>2. CASE size \in D
        <5>1. E = D
          BY <4>2
        <5> QED
          BY <4>1, <5>1
      <4>3. CASE size \notin D
        <5>1. E \ {size} = D /\ old[size] = 0
          BY <4>3
        <5>2. SumFunctionOnSet(old, E) = old[size] + SumFunctionOnSet(old, E \ {size})
          <6> HIDE DEF old, E
          <6> QED
            BY <3>1, SumTakeOut
        <5>3. SumFunctionOnSet(h.counts, D) \in Nat
          BY <1>2, SumNat
        <5> HIDE DEF old, E
        <5> QED
          BY <4>1, <5>1, <5>2, <5>3
      <4> QED
        BY <4>2, <4>3
    <3> QED
      BY <3>3, <3>4
  <2> HIDE DEF bumped, n, room
  <2>7. Mass(n, Tracked(n)) = Mass(h, D) + 1
    BY <1>3, <1>5, <2>1, <2>6
  <2>8. Accounted(n)
    <3>1. Mass(h, D) <= h.total /\ (~h.overflow => Mass(h, D) = h.total)
      BY DEF Accounted
    <3> QED
      BY <1>0, <1>1, <1>3, <2>1, <2>7, <3>1 DEF Accounted
  <2> QED
    BY <1>1, <2>5, <2>8 DEF n
<1> QED
  BY <1>6, <1>7

-----------------------------------------------------------------------------
(* The test on two windows, and the modes learned from one.                 *)

\* The gap between two distribution functions is a natural number and does not
\* depend on which comes first.
LEMMA GapSymmetric ==
    ASSUME NEW a, NEW b, IsHistogram(a), IsHistogram(b), NEW x
    PROVE  CdfGap(a, b, x) = CdfGap(b, a, x) /\ CdfGap(a, b, x) \in Nat
<1> DEFINE p == Mass(a, {y \in Tracked(a) : y <= x}) * b.total
           q == Mass(b, {y \in Tracked(b) : y <= x}) * a.total
<1>1. p \in Nat /\ q \in Nat
  <2>1. a.total \in Nat /\ b.total \in Nat
    BY DEF IsHistogram
  <2>2. /\ Mass(a, {y \in Tracked(a) : y <= x}) \in Nat
        /\ Mass(b, {y \in Tracked(b) : y <= x}) \in Nat
    BY MassMonotone
  <2> QED
    BY <2>1, <2>2
<1>2. CdfGap(a, b, x) = Distance(p, q) /\ CdfGap(b, a, x) = Distance(q, p)
  BY DEF CdfGap
<1> HIDE DEF p, q
<1> QED
  BY <1>1, <1>2 DEF Distance

\* The outcome of the test does not depend on the order of the windows, which
\* the code passes by role, not by index.
LEMMA KsStableSymmetric ==
    ASSUME NEW a, NEW b, NEW critSq \in Nat, IsHistogram(a), IsHistogram(b),
           KsStable(a, b, critSq)
    PROVE  KsStable(b, a, critSq)
<1>1. a.total \in Nat /\ b.total \in Nat
  BY DEF IsHistogram
<1>2. critSq * a.total * b.total * (a.total + b.total)
        = critSq * b.total * a.total * (b.total + a.total)
  <2>1. ASSUME NEW c \in Nat, NEW m \in Nat, NEW n \in Nat
        PROVE  c * m * n * (m + n) = c * n * m * (n + m)
    OBVIOUS
  <2> QED
    BY <1>1, <2>1
<1>3. ASSUME NEW x \in Tracked(b) \cup Tracked(a)
      PROVE  1000 * CdfGap(b, a, x) * CdfGap(b, a, x)
               < critSq * b.total * a.total * (b.total + a.total)
  <2>1. CdfGap(a, b, x) = CdfGap(b, a, x)
    BY GapSymmetric
  <2>2. 1000 * CdfGap(a, b, x) * CdfGap(a, b, x)
          < critSq * a.total * b.total * (a.total + b.total)
    BY DEF KsStable
  <2> QED
    BY <1>2, <2>1, <2>2
<1> QED
  BY <1>3 DEF KsStable

\* A larger critical value accepts whatever a smaller one does.
LEMMA KsStableMonotone ==
    ASSUME NEW a, NEW b, NEW c \in Nat, NEW d \in Nat, c <= d,
           IsHistogram(a), IsHistogram(b), KsStable(a, b, c)
    PROVE  KsStable(a, b, d)
<1>1. a.total \in Nat /\ b.total \in Nat
  BY DEF IsHistogram
<1>2. c * a.total * b.total * (a.total + b.total)
        <= d * a.total * b.total * (a.total + b.total)
  <2>1. ASSUME NEW x \in Nat, NEW m \in Nat, NEW n \in Nat, m <= n
        PROVE  m * x <= n * x /\ m * x \in Nat /\ n * x \in Nat
    <3>1. PICK e \in Nat : n = m + e
      <4>1. n - m \in Nat /\ n = m + (n - m)
        BY <2>1
      <4> QED
        BY <4>1
    <3>2. n * x = m * x + e * x /\ e * x \in Nat /\ m * x \in Nat
      BY <3>1
    <3> QED
      BY <3>2
  <2>2. c * a.total <= d * a.total /\ c * a.total \in Nat /\ d * a.total \in Nat
    BY <1>1, <2>1
  <2>3. /\ c * a.total * b.total <= d * a.total * b.total
        /\ c * a.total * b.total \in Nat /\ d * a.total * b.total \in Nat
    BY <1>1, <2>1, <2>2
  <2>4. a.total + b.total \in Nat
    BY <1>1
  <2> QED
    BY <2>1, <2>3, <2>4
<1>3. ASSUME NEW x \in Tracked(a) \cup Tracked(b)
      PROVE  1000 * CdfGap(a, b, x) * CdfGap(a, b, x)
               < d * a.total * b.total * (a.total + b.total)
  <2>1. 1000 * CdfGap(a, b, x) * CdfGap(a, b, x)
          < c * a.total * b.total * (a.total + b.total)
    BY DEF KsStable
  <2>2. 1000 * CdfGap(a, b, x) * CdfGap(a, b, x) \in Nat
    <3>1. CdfGap(a, b, x) \in Nat
      BY GapSymmetric
    <3> QED
      BY <3>1
  <2>3. ASSUME NEW n \in Nat
        PROVE  n * a.total * b.total * (a.total + b.total) \in Nat
    <3>1. n * a.total \in Nat
      BY <1>1
    <3>2. n * a.total * b.total \in Nat
      BY <1>1, <3>1
    <3> QED
      BY <1>1, <3>2
  <2> QED
    BY <1>2, <2>1, <2>2, <2>3
<1> QED
  BY <1>3 DEF KsStable

\* The order of the modes is a strict order: what is ahead of what is ahead of
\* x is ahead of x.
LEMMA AheadOrder ==
    ASSUME NEW h, IsHistogram(h), NEW x \in Tracked(h), NEW y \in Tracked(h), x # y,
           y \notin Ahead(h, x)
    PROVE  /\ Ahead(h, x) \in SUBSET Ahead(h, y) /\ x \in Ahead(h, y)
           /\ x \notin Ahead(h, x)
<1>1. /\ \A z \in Tracked(h) : h.counts[z] \in Nat
      /\ Tracked(h) \subseteq Nat
  BY TrackedFinite DEF IsHistogram
<1>2. x \in Ahead(h, y) /\ x \notin Ahead(h, x)
  BY <1>1 DEF Ahead
<1>3. ASSUME NEW z \in Ahead(h, x)
      PROVE  z \in Ahead(h, y)
  BY <1>1, <1>2, <1>3 DEF Ahead
<1> QED
  BY <1>2, <1>3

\* No more modes are taken than asked for: the array of size classes is not
\* overrun.
LEMMA TopKModesBounded ==
    ASSUME NEW h, IsHistogram(h), NEW k \in Nat, NEW pct
    PROVE  /\ TopKModes(h, k, pct) \subseteq Nat
           /\ IsFiniteSet(TopKModes(h, k, pct))
           /\ Cardinality(TopKModes(h, k, pct)) \in Nat
           /\ Cardinality(TopKModes(h, k, pct)) <= k
<1> DEFINE T == TopKModes(h, k, pct)
           rank(x) == Cardinality(Ahead(h, x))
<1>1. /\ T \in SUBSET Tracked(h) /\ Tracked(h) \subseteq Nat /\ IsFiniteSet(Tracked(h))
      /\ \A x \in T : rank(x) < k
  BY TrackedFinite DEF TopKModes
<1>2. IsFiniteSet(T) /\ Cardinality(T) \in Nat
  BY <1>1, FS_Subset, FS_CardinalityType
<1>3. \A x : IsFiniteSet(Ahead(h, x)) /\ rank(x) \in Nat
  <2>1. \A x : Ahead(h, x) \in SUBSET Tracked(h)
    BY DEF Ahead
  <2> QED
    BY <1>1, <2>1, FS_Subset, FS_CardinalityType
<1>4. CASE T = {}
  BY <1>1, <1>2, <1>4, FS_EmptySet
<1>5. CASE T # {}
  <2> DEFINE Slack == {k - rank(x) : x \in T}
  <2>1. Slack \in SUBSET Nat /\ Slack # {}
    BY <1>1, <1>3, <1>5
  <2>2. PICK m \in Slack : \A n \in Slack : m <= n
    BY <2>1, NatHasLeast
  <2>3. PICK x \in T : m = k - rank(x)
    BY <2>2
  <2>4. ASSUME NEW y \in T
        PROVE  rank(y) <= rank(x)
    <3>1. k - rank(x) <= k - rank(y)
      BY <2>2, <2>3
    <3>2. rank(x) \in Nat /\ rank(y) \in Nat
      BY <1>3
    <3> HIDE DEF rank
    <3> QED
      BY <3>1, <3>2
  <2>5. T \ {x} \in SUBSET Ahead(h, x)
    <3> SUFFICES ASSUME NEW y \in T \ {x}, y \notin Ahead(h, x)
                 PROVE  FALSE
      OBVIOUS
    <3>1. Ahead(h, x) \in SUBSET Ahead(h, y) /\ x \in Ahead(h, y) /\ x \notin Ahead(h, x)
      BY <1>1, <2>3, AheadOrder
    <3>2. rank(x) <= rank(y) /\ (rank(y) = rank(x) => Ahead(h, y) = Ahead(h, x))
      BY <1>3, <3>1, FS_Subset
    <3> QED
      BY <1>3, <2>4, <3>1, <3>2
  <2>6. Cardinality(T \ {x}) <= rank(x)
    BY <1>3, <2>5, FS_Subset
  <2>7. Cardinality(T \ {x}) = Cardinality(T) - 1
    BY <1>2, <2>3, FS_RemoveElement
  <2>8. rank(x) < k
    BY <1>1, <2>3
  <2> HIDE DEF T, rank
  <2>9. Cardinality(T) <= k
    BY <1>2, <1>3, <2>6, <2>7, <2>8
  <2> QED
    BY <1>1, <1>2, <2>9 DEF T
<1> QED
  BY <1>4, <1>5

-----------------------------------------------------------------------------
(* Quantiles.                                                               *)

\* A larger share of the same events is not less.
LEMMA PercentMonotone ==
    ASSUME NEW p \in Nat, NEW q \in Nat, NEW n \in Nat, p <= q
    PROVE  /\ Percent(p, n) \in Nat /\ Percent(q, n) \in Nat
           /\ Percent(p, n) <= Percent(q, n)
<1>1. p * n \in Nat /\ q * n \in Nat /\ p * n <= q * n
  OBVIOUS
<1>2. ASSUME NEW a \in Nat, NEW b \in Nat, a <= b
      PROVE  a \div 100 \in Nat /\ b \div 100 \in Nat /\ a \div 100 <= b \div 100
  BY <1>2
<1> QED
  BY <1>1, <1>2 DEF Percent

\* A higher quantile of a window is not smaller than a lower one, so what the
\* dump prints as p50, p95 and p99 is in order.
LEMMA QuantilesOrdered ==
    ASSUME NEW h, IsHistogram(h), Accounted(h), NEW p \in Nat, NEW q \in Nat, p <= q
    PROVE  /\ Quantile(h, p) \in Nat /\ Quantile(h, q) \in Nat
           /\ Quantile(h, p) <= Quantile(h, q)
<1> DEFINE below(x) == Mass(h, {y \in Tracked(h) : y <= x})
           over(r)  == {x \in Tracked(h) : below(x) > Percent(r, h.total - 1)}
           top      == CHOOSE x \in Tracked(h) : \A y \in Tracked(h) : y <= x
           low(r)   == CHOOSE x \in over(r) : \A y \in over(r) : x <= y
<1>1. h.total \in Nat /\ Tracked(h) \subseteq Nat
  BY TrackedFinite DEF IsHistogram
<1>2. \A r : Quantile(h, r) = IF h.total = 0 THEN 0 ELSE IF over(r) # {} THEN low(r) ELSE top
  BY DEF Quantile
<1>3. CASE h.total = 0
  BY <1>2, <1>3
<1>4. CASE h.total > 0
  <2>1. top \in Tracked(h) /\ \A y \in Tracked(h) : y <= top
    <3>1. Tracked(h) # {} /\ Tracked(h) \in SUBSET Nat
      BY <1>1, <1>4 DEF Accounted
    <3>2. MAX_SIZE \in Nat /\ \A x \in Tracked(h) : x <= MAX_SIZE
      BY HistogramAssumption DEF IsHistogram
    <3>3. \E x \in Tracked(h) : \A y \in Tracked(h) : y <= x
      BY <3>1, <3>2, NatHasGreatest
    <3> QED
      BY <3>3
  <2>2. ASSUME NEW r, over(r) # {}
        PROVE  low(r) \in over(r) /\ \A y \in over(r) : low(r) <= y
    <3>1. over(r) \in SUBSET Nat
      BY <1>1
    <3> HIDE DEF over
    <3>2. \E x \in over(r) : \A y \in over(r) : x <= y
      BY <2>2, <3>1, NatHasLeast
    <3> QED
      BY <3>2
  <2>3. over(q) \subseteq over(p)
    <3>1. /\ Percent(p, h.total - 1) \in Nat /\ Percent(q, h.total - 1) \in Nat
          /\ Percent(p, h.total - 1) <= Percent(q, h.total - 1)
      <4>1. h.total - 1 \in Nat
        BY <1>1, <1>4
      <4> QED
        BY <4>1, PercentMonotone
    <3>2. \A x \in Tracked(h) : below(x) \in Nat
      BY MassMonotone
    <3> HIDE DEF below
    <3> QED
      BY <3>1, <3>2
  <2>4. \A r : over(r) \subseteq Tracked(h)
    OBVIOUS
  <2> HIDE DEF over, low, top
  <2>5. CASE over(q) # {}
    BY <1>1, <1>2, <1>4, <2>2, <2>3, <2>4, <2>5
  <2>6. CASE over(q) = {} /\ over(p) # {}
    BY <1>1, <1>2, <1>4, <2>1, <2>2, <2>4, <2>6
  <2>7. CASE over(q) = {} /\ over(p) = {}
    BY <1>1, <1>2, <1>4, <2>1, <2>7
  <2> QED
    BY <2>5, <2>6, <2>7
<1> QED
  BY <1>1, <1>3, <1>4

-----------------------------------------------------------------------------
(* The majority vote.                                                       *)

\* What is true of a vote v on total events, counts[x] of them for x. The
\* leader's score is less than the true lead by at most what the others have
\* taken from each other, and nobody but the leader can have more than half.
Leads(v, counts, total) ==
    /\ total \in Nat /\ \A x \in DOMAIN counts : counts[x] \in Nat
    /\ total = 0 => v.score = 0
    /\ total > 0 => /\ v.score > 0 /\ v.top \in DOMAIN counts
                    /\ v.score <= counts[v.top]
    /\ \A x \in DOMAIN counts : IF x = v.top THEN 2 * counts[x] <= total + v.score
                                ELSE 2 * counts[x] + v.score <= total + 1

\* The next event, of x, keeps it so.
LEMMA VoteLeads ==
    ASSUME NEW S, NEW v \in [top : S, score : Nat], NEW c, NEW d, NEW n, Leads(v, c, n),
           NEW x \in S, x \in DOMAIN c, DOMAIN d = DOMAIN c, d[x] = c[x] + 1,
           \A y \in DOMAIN c \ {x} : d[y] = c[y]
    PROVE  Vote(v, x) \in [top : S, score : Nat] /\ Leads(Vote(v, x), d, n + 1)
<1>1. /\ n \in Nat /\ \A y \in DOMAIN c : c[y] \in Nat
      /\ \A y \in DOMAIN d : d[y] \in Nat
  BY DEF Leads
<1>2. CASE v.score = 0 \/ v.top = x
  <2>1. Vote(v, x) = [top |-> x, score |-> v.score + 1]
    BY <1>2 DEF Vote
  <2>2. Vote(v, x).top = x /\ Vote(v, x).score = v.score + 1
    BY <2>1
  <2>3. v.score \in Nat
    OBVIOUS
  <2>4. v.score = 0 => n = 0
    BY <1>1 DEF Leads
  <2>5. Vote(v, x).score <= d[x]
    BY <1>1, <1>2, <2>2, <2>3, <2>4 DEF Leads
  <2>6. ASSUME NEW y \in DOMAIN d
        PROVE  IF y = x THEN 2 * d[y] <= n + 1 + v.score + 1
               ELSE 2 * d[y] + v.score + 1 <= n + 1 + 1
    BY <1>1, <1>2, <2>3, <2>4 DEF Leads
  <2> QED
    BY <1>1, <2>1, <2>2, <2>3, <2>5, <2>6 DEF Leads
<1>3. CASE v.score = 1 /\ v.top # x
  <2>1. Vote(v, x) = [top |-> x, score |-> 1]
    BY <1>3 DEF Vote
  <2>2. Vote(v, x).top = x /\ Vote(v, x).score = 1
    BY <2>1
  <2>3. ASSUME NEW y \in DOMAIN d
        PROVE  IF y = x THEN 2 * d[y] <= n + 1 + 1 ELSE 2 * d[y] + 1 <= n + 1 + 1
    BY <1>1, <1>3 DEF Leads
  <2> QED
    BY <1>1, <2>1, <2>2, <2>3 DEF Leads
<1>4. CASE v.score > 1 /\ v.top # x
  <2>1. Vote(v, x) = [v EXCEPT !.score = @ - 1]
    BY <1>4 DEF Vote
  <2>2. Vote(v, x).top = v.top /\ Vote(v, x).score = v.score - 1 /\ v.score \in Nat
    BY <2>1
  <2>3. Vote(v, x) \in [top : S, score : Nat]
    BY <1>4, <2>1
  <2>4. n > 0 /\ v.top \in DOMAIN d /\ v.score - 1 <= d[v.top]
    BY <1>1, <1>4 DEF Leads
  <2>5. ASSUME NEW y \in DOMAIN d
        PROVE  IF y = v.top THEN 2 * d[y] <= n + 1 + (v.score - 1)
               ELSE 2 * d[y] + (v.score - 1) <= n + 1 + 1
    BY <1>1, <1>4 DEF Leads
  <2> QED
    BY <1>1, <1>4, <2>2, <2>3, <2>4, <2>5 DEF Leads
<1> QED
  BY <1>2, <1>3, <1>4
=============================================================================
