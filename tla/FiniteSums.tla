----------------------------- MODULE FiniteSums -----------------------------
(***************************************************************************)
(* Facts about SumFunctionOnSet, the sum of a function over a finite set,  *)
(* that the proofs about the analysis rest on. The library defines the sum *)
(* as a fold, by recursion over the subsets of the set; that the recursion *)
(* defines a function, and that the order of summation does not matter,    *)
(* is shown here by induction over the subsets. The induction is over a    *)
(* set of subsets rather than over a predicate, so that it can be cited    *)
(* like any other lemma.                                                   *)
(***************************************************************************)
EXTENDS Functions, FiniteSets, FiniteSetTheorems, WellFoundedInduction, TLAPS

\* A set of natural numbers that is not empty has a least element.
LEMMA NatHasLeast ==
    ASSUME NEW T \in SUBSET Nat, T # {}
    PROVE  \E x \in T : \A y \in T : x <= y
<1>1. PICK x \in T : \A y \in T : ~(<<y, x>> \in OpToRel(<, Nat))
  BY WFMin, NatLessThanWellFounded
<1>2. \A y \in T : ~(y < x)
  BY <1>1 DEF OpToRel
<1> QED
  BY <1>2

\* A bounded set of natural numbers that is not empty has a greatest element.
LEMMA NatHasGreatest ==
    ASSUME NEW T \in SUBSET Nat, T # {}, NEW m \in Nat, \A x \in T : x <= m
    PROVE  \E x \in T : \A y \in T : y <= x
<1> DEFINE Slack == {m - x : x \in T}
<1>1. \A x \in T : x \in Nat /\ m - x \in Nat
  OBVIOUS
<1>2. Slack \in SUBSET Nat /\ Slack # {}
  BY <1>1
<1>3. PICK d \in Slack : \A e \in Slack : d <= e
  BY <1>2, NatHasLeast
<1>4. PICK x \in T : d = m - x
  BY <1>3
<1>5. ASSUME NEW y \in T
      PROVE  y <= x
  <2>1. m - x <= m - y
    BY <1>3, <1>4
  <2>2. x \in Nat /\ y \in Nat
    BY <1>1
  <2> QED
    BY <2>1, <2>2
<1> QED
  BY <1>5

\* Induction over the subsets of a finite set, smallest first.
LEMMA SubsetInduction ==
    ASSUME NEW S, IsFiniteSet(S), NEW Good,
           \A T \in SUBSET S : (\A x \in T : T \ {x} \in Good) => T \in Good
    PROVE  S \in Good
<1> SUFFICES ASSUME S \notin Good
             PROVE  FALSE
  OBVIOUS
<1> DEFINE Bad   == {T \in SUBSET S : T \notin Good}
           Sizes == {Cardinality(T) : T \in Bad}
<1>1. \A T \in SUBSET S : IsFiniteSet(T) /\ Cardinality(T) \in Nat
  BY FS_Subset, FS_CardinalityType
<1>2. Sizes \in SUBSET Nat /\ Sizes # {}
  BY <1>1
<1>3. PICK n \in Sizes : \A m \in Sizes : n <= m
  BY <1>2, NatHasLeast
<1>4. PICK T \in Bad : Cardinality(T) = n
  BY <1>3
<1>5. PICK x \in T : T \ {x} \notin Good
  BY <1>4
<1>6. T \ {x} \in Bad
  BY <1>4, <1>5
<1>7. Cardinality(T \ {x}) = Cardinality(T) - 1
  BY <1>1, <1>4, <1>5, FS_RemoveElement
<1>8. n <= Cardinality(T \ {x})
  BY <1>3, <1>6
<1>9. n \in Nat
  BY <1>2, <1>3
<1> QED
  BY <1>4, <1>7, <1>8, <1>9

-----------------------------------------------------------------------------
(* The recursion of the fold has a solution, and only one.                  *)

\* The element that the fold takes out of s first.
First(s) == CHOOSE x \in s : TRUE

\* g solves the recursion over the subsets of S.
Solves(g, fun, S) ==
    g = [s \in SUBSET S |-> IF s = {} THEN 0 ELSE fun[First(s)] + g[s \ {First(s)}]]

\* What a solution is at a subset of S.
LEMMA SolvesAt ==
    ASSUME NEW g, NEW fun, NEW S, Solves(g, fun, S), NEW s \in SUBSET S
    PROVE  /\ s = {} => g[s] = 0
           /\ s # {} => /\ First(s) \in s
                        /\ s \ {First(s)} \in SUBSET S
                        /\ g[s] = fun[First(s)] + g[s \ {First(s)}]
<1>1. g[s] = IF s = {} THEN 0 ELSE fun[First(s)] + g[s \ {First(s)}]
  BY DEF Solves
<1>2. s # {} => First(s) \in s
  BY DEF First
<1> QED
  BY <1>1, <1>2

\* The sum is the value of some solution, if there is one.
LEMMA SumIsSolution ==
    ASSUME NEW fun, NEW S, \E g : Solves(g, fun, S)
    PROVE  \E g : Solves(g, fun, S) /\ SumFunctionOnSet(fun, S) = g[S]
<1> DEFINE c == CHOOSE g : Solves(g, fun, S)
<1>1. SumFunctionOnSet(fun, S) = c[S]
  BY DEF SumFunctionOnSet, FoldFunctionOnSet, MapThenFoldSet, Solves, First
<1>2. Solves(c, fun, S)
  OBVIOUS
<1> QED
  BY <1>1, <1>2

\* Two solutions agree where both are defined.
LEMMA SolutionsAgree ==
    ASSUME NEW fun, NEW S, NEW T, NEW g, NEW h, Solves(g, fun, S), Solves(h, fun, T),
           NEW s \in (SUBSET S) \cap (SUBSET T), IsFiniteSet(s)
    PROVE  g[s] = h[s]
<1> DEFINE Good == {u \in SUBSET s : g[u] = h[u]}
<1>1. ASSUME NEW u \in SUBSET s, \A x \in u : u \ {x} \in Good
      PROVE  u \in Good
  <2>1. u \in SUBSET S /\ u \in SUBSET T
    OBVIOUS
  <2>2. CASE u = {}
    BY <2>1, <2>2, SolvesAt
  <2>3. CASE u # {}
    <3>1. First(u) \in u /\ g[u] = fun[First(u)] + g[u \ {First(u)}]
      BY <2>1, <2>3, SolvesAt
    <3>2. h[u] = fun[First(u)] + h[u \ {First(u)}]
      BY <2>1, <2>3, SolvesAt
    <3> QED
      BY <1>1, <3>1, <3>2
  <2> QED
    BY <2>2, <2>3
<1> HIDE DEF Good
<1>2. s \in Good
  BY <1>1, SubsetInduction
<1> QED
  BY <1>2 DEF Good

\* The recursion over the subsets of a finite set has a solution.
LEMMA SolutionExists ==
    ASSUME NEW fun, NEW S, IsFiniteSet(S)
    PROVE  \E g : Solves(g, fun, S)
<1> DEFINE Good == {u \in SUBSET S : \A v \in SUBSET u : \E g : Solves(g, fun, v)}
<1>1. ASSUME NEW u \in SUBSET S, \A x \in u : u \ {x} \in Good
      PROVE  u \in Good
  <2>1. \A v \in SUBSET u : v # u => \E g : Solves(g, fun, v)
    <3> SUFFICES ASSUME NEW v \in SUBSET u, v # u
                 PROVE  \E g : Solves(g, fun, v)
      OBVIOUS
    <3>1. PICK x \in u : x \notin v
      OBVIOUS
    <3>2. v \in SUBSET (u \ {x})
      BY <3>1
    <3> QED
      BY <1>1, <3>1, <3>2
  <2> DEFINE Rest(v) == v \ {First(v)}
             g == [v \in SUBSET u |-> IF v = {} THEN 0
                                      ELSE fun[First(v)] + SumFunctionOnSet(fun, Rest(v))]
  <2>2. \A v \in SUBSET u : v # u => SumFunctionOnSet(fun, v) = g[v]
    <3> SUFFICES ASSUME NEW v \in SUBSET u, v # u
                 PROVE  SumFunctionOnSet(fun, v) = g[v]
      OBVIOUS
    <3>1. PICK h : Solves(h, fun, v) /\ SumFunctionOnSet(fun, v) = h[v]
      BY <2>1, SumIsSolution
    <3>2. CASE v = {}
      BY <3>1, <3>2, SolvesAt
    <3>3. CASE v # {}
      <4>1. h[v] = fun[First(v)] + h[Rest(v)] /\ First(v) \in v
        BY <3>1, <3>3, SolvesAt
      <4>2. PICK k : Solves(k, fun, Rest(v)) /\ SumFunctionOnSet(fun, Rest(v)) = k[Rest(v)]
        <5>1. Rest(v) \in SUBSET u /\ Rest(v) # u
          BY <4>1
        <5> QED
          BY <2>1, <5>1, SumIsSolution
      <4>3. IsFiniteSet(Rest(v)) /\ Rest(v) \in (SUBSET v) \cap (SUBSET Rest(v))
        BY FS_Subset
      <4>4. k[Rest(v)] = h[Rest(v)]
        BY <3>1, <4>2, <4>3, SolutionsAgree
      <4> QED
        BY <3>1, <3>3, <4>1, <4>2, <4>4
    <3> QED
      BY <3>2, <3>3
  <2>3. \A v \in SUBSET u : v # {} => SumFunctionOnSet(fun, Rest(v)) = g[Rest(v)]
    <3> SUFFICES ASSUME NEW v \in SUBSET u, v # {}
                 PROVE  SumFunctionOnSet(fun, Rest(v)) = g[Rest(v)]
      OBVIOUS
    <3>1. First(v) \in v
      BY DEF First
    <3>2. Rest(v) \in SUBSET u /\ Rest(v) # u
      BY <3>1
    <3> QED
      BY <2>2, <3>2
  <2>4. g = [v \in SUBSET u |-> IF v = {} THEN 0 ELSE fun[First(v)] + g[Rest(v)]]
    BY <2>3
  <2>5. Solves(g, fun, u)
    BY <2>4 DEF Solves
  <2>6. \E f : Solves(f, fun, u)
    BY <2>5
  <2> HIDE DEF g
  <2> QED
    BY <2>1, <2>6
<1> HIDE DEF Good
<1>2. S \in Good
  BY <1>1, SubsetInduction
<1> QED
  BY <1>2 DEF Good

-----------------------------------------------------------------------------
(* Sums over finite sets.                                                   *)

\* The sum over a set of no elements.
LEMMA SumEmpty ==
    ASSUME NEW fun
    PROVE  SumFunctionOnSet(fun, {}) = 0
<1>1. PICK g : Solves(g, fun, {}) /\ SumFunctionOnSet(fun, {}) = g[{}]
  BY SolutionExists, SumIsSolution, FS_EmptySet
<1> QED
  BY <1>1, SolvesAt

\* The sum as the fold computes it.
LEMMA SumFirst ==
    ASSUME NEW fun, NEW S, IsFiniteSet(S), S # {}
    PROVE  /\ First(S) \in S
           /\ SumFunctionOnSet(fun, S)
                = fun[First(S)] + SumFunctionOnSet(fun, S \ {First(S)})
<1> DEFINE R == S \ {First(S)}
<1>1. IsFiniteSet(R) /\ R \in (SUBSET S) \cap (SUBSET R) /\ S \in SUBSET S
  BY FS_Subset
<1>2. PICK g : Solves(g, fun, S) /\ SumFunctionOnSet(fun, S) = g[S]
  BY SolutionExists, SumIsSolution
<1>3. PICK h : Solves(h, fun, R) /\ SumFunctionOnSet(fun, R) = h[R]
  BY <1>1, SolutionExists, SumIsSolution
<1>4. g[R] = h[R]
  BY <1>1, <1>2, <1>3, SolutionsAgree
<1>5. First(S) \in S /\ g[S] = fun[First(S)] + g[R]
  BY <1>1, <1>2, SolvesAt
<1> QED
  BY <1>2, <1>3, <1>4, <1>5

\* A function whose values on S are natural numbers.
NatOn(fun, S) == \A x \in S : fun[x] \in Nat

\* The sum of natural numbers is a natural number.
LEMMA SumNat ==
    ASSUME NEW fun, NEW S, IsFiniteSet(S), NatOn(fun, S)
    PROVE  SumFunctionOnSet(fun, S) \in Nat
<1> DEFINE Good == {T \in SUBSET S : SumFunctionOnSet(fun, T) \in Nat}
<1>1. ASSUME NEW T \in SUBSET S, \A x \in T : T \ {x} \in Good
      PROVE  T \in Good
  <2>1. CASE T = {}
    BY <2>1, SumEmpty
  <2>2. CASE T # {}
    <3>1. IsFiniteSet(T)
      BY FS_Subset
    <3>2. /\ First(T) \in T
          /\ SumFunctionOnSet(fun, T) = fun[First(T)] + SumFunctionOnSet(fun, T \ {First(T)})
      BY <2>2, <3>1, SumFirst
    <3> QED
      BY <1>1, <3>2 DEF NatOn
  <2> QED
    BY <2>1, <2>2
<1> HIDE DEF Good
<1>2. S \in Good
  BY <1>1, SubsetInduction
<1> QED
  BY <1>2 DEF Good

\* Any element may be taken out of a sum.
LEMMA SumTakeOut ==
    ASSUME NEW fun, NEW S, IsFiniteSet(S), NatOn(fun, S), NEW x0 \in S
    PROVE  SumFunctionOnSet(fun, S) = fun[x0] + SumFunctionOnSet(fun, S \ {x0})
<1> DEFINE Sum(T) == SumFunctionOnSet(fun, T)
           Good == {T \in SUBSET S : \A x \in T : Sum(T) = fun[x] + Sum(T \ {x})}
<1>1. ASSUME NEW T \in SUBSET S, \A x \in T : T \ {x} \in Good
      PROVE  T \in Good
  <2>1. CASE T = {}
    BY <2>1
  <2>2. CASE T # {}
    <3> DEFINE c == First(T)
    <3>1. IsFiniteSet(T)
      BY FS_Subset
    <3>2. c \in T /\ Sum(T) = fun[c] + Sum(T \ {c})
      BY <2>2, <3>1, SumFirst
    <3>3. ASSUME NEW x \in T, x # c
          PROVE  Sum(T) = fun[x] + Sum(T \ {x})
      <4>1. Sum(T \ {c}) = fun[x] + Sum((T \ {c}) \ {x})
        BY <1>1, <3>2, <3>3
      <4>2. Sum(T \ {x}) = fun[c] + Sum((T \ {x}) \ {c})
        BY <1>1, <3>2, <3>3
      <4>3. (T \ {c}) \ {x} = (T \ {x}) \ {c}
        OBVIOUS
      <4>4. Sum((T \ {x}) \ {c}) \in Nat
        <5>1. IsFiniteSet((T \ {x}) \ {c}) /\ NatOn(fun, (T \ {x}) \ {c})
          BY FS_Subset DEF NatOn
        <5> QED
          BY <5>1, SumNat
      <4> QED
        BY <3>2, <4>1, <4>2, <4>3, <4>4 DEF NatOn
    <3> HIDE DEF c
    <3> QED
      BY <3>2, <3>3
  <2> QED
    BY <2>1, <2>2
<1> HIDE DEF Good
<1>2. S \in Good
  BY <1>1, SubsetInduction
<1> QED
  BY <1>2 DEF Good

\* A larger summand makes a larger sum.
LEMMA SumMonotone ==
    ASSUME NEW f, NEW g, NEW S, IsFiniteSet(S), NatOn(f, S), NatOn(g, S),
           \A x \in S : f[x] <= g[x]
    PROVE  SumFunctionOnSet(f, S) <= SumFunctionOnSet(g, S)
<1> DEFINE Good == {T \in SUBSET S : SumFunctionOnSet(f, T) <= SumFunctionOnSet(g, T)}
<1>1. ASSUME NEW T \in SUBSET S, \A x \in T : T \ {x} \in Good
      PROVE  T \in Good
  <2>1. CASE T = {}
    BY <2>1, SumEmpty
  <2>2. CASE T # {}
    <3>1. PICK x \in T : TRUE
      BY <2>2
    <3>2. IsFiniteSet(T) /\ NatOn(f, T) /\ NatOn(g, T)
      BY FS_Subset DEF NatOn
    <3>3. IsFiniteSet(T \ {x}) /\ NatOn(f, T \ {x}) /\ NatOn(g, T \ {x})
      BY FS_Subset DEF NatOn
    <3>4. /\ SumFunctionOnSet(f, T) = f[x] + SumFunctionOnSet(f, T \ {x})
          /\ SumFunctionOnSet(g, T) = g[x] + SumFunctionOnSet(g, T \ {x})
      BY <3>1, <3>2, SumTakeOut
    <3>5. SumFunctionOnSet(f, T \ {x}) \in Nat /\ SumFunctionOnSet(g, T \ {x}) \in Nat
      BY <3>3, SumNat
    <3>6. SumFunctionOnSet(f, T \ {x}) <= SumFunctionOnSet(g, T \ {x})
      BY <1>1, <3>1
    <3>7. f[x] \in Nat /\ g[x] \in Nat /\ f[x] <= g[x]
      BY <3>1, <3>2 DEF NatOn
    <3> QED
      BY <3>4, <3>5, <3>6, <3>7
  <2> QED
    BY <2>1, <2>2
<1> HIDE DEF Good
<1>2. S \in Good
  BY <1>1, SubsetInduction
<1> QED
  BY <1>2 DEF Good

\* The sum depends only on the values of the function on the set.
LEMMA SumSame ==
    ASSUME NEW f, NEW g, NEW S, IsFiniteSet(S), NatOn(f, S), \A x \in S : f[x] = g[x]
    PROVE  SumFunctionOnSet(f, S) = SumFunctionOnSet(g, S)
<1>1. NatOn(g, S) /\ \A x \in S : f[x] <= g[x] /\ g[x] <= f[x]
  BY DEF NatOn
<1>2. /\ SumFunctionOnSet(f, S) <= SumFunctionOnSet(g, S)
      /\ SumFunctionOnSet(g, S) <= SumFunctionOnSet(f, S)
  BY <1>1, SumMonotone
<1>3. SumFunctionOnSet(f, S) \in Nat /\ SumFunctionOnSet(g, S) \in Nat
  BY <1>1, SumNat
<1> QED
  BY <1>2, <1>3

\* Counting one more of one kind makes the sum one larger.
LEMMA SumBump ==
    ASSUME NEW f, NEW g, NEW S, IsFiniteSet(S), NatOn(f, S), NEW x \in S,
           g[x] = f[x] + 1, \A y \in S \ {x} : g[y] = f[y]
    PROVE  SumFunctionOnSet(g, S) = SumFunctionOnSet(f, S) + 1
<1>1. NatOn(g, S) /\ NatOn(f, S \ {x}) /\ IsFiniteSet(S \ {x})
  BY FS_Subset DEF NatOn
<1>2. SumFunctionOnSet(f, S \ {x}) = SumFunctionOnSet(g, S \ {x})
  BY <1>1, SumSame
<1>3. /\ SumFunctionOnSet(f, S) = f[x] + SumFunctionOnSet(f, S \ {x})
      /\ SumFunctionOnSet(g, S) = g[x] + SumFunctionOnSet(g, S \ {x})
  BY <1>1, SumTakeOut
<1>4. SumFunctionOnSet(f, S \ {x}) \in Nat /\ f[x] \in Nat
  BY <1>1, SumNat DEF NatOn
<1> QED
  BY <1>2, <1>3, <1>4

\* Nothing counted, nothing summed.
LEMMA SumZero ==
    ASSUME NEW f, NEW S, IsFiniteSet(S), \A x \in S : f[x] = 0
    PROVE  SumFunctionOnSet(f, S) = 0
<1> DEFINE Good == {T \in SUBSET S : SumFunctionOnSet(f, T) = 0}
<1>1. ASSUME NEW T \in SUBSET S, \A x \in T : T \ {x} \in Good
      PROVE  T \in Good
  <2>1. CASE T = {}
    BY <2>1, SumEmpty
  <2>2. CASE T # {}
    <3>1. IsFiniteSet(T)
      BY FS_Subset
    <3>2. First(T) \in T /\ SumFunctionOnSet(f, T) = f[First(T)] + SumFunctionOnSet(f, T \ {First(T)})
      BY <2>2, <3>1, SumFirst
    <3> QED
      BY <1>1, <3>2
  <2> QED
    BY <2>1, <2>2
<1> HIDE DEF Good
<1>2. S \in Good
  BY <1>1, SubsetInduction
<1> QED
  BY <1>2 DEF Good

\* A sum over more elements is not smaller.
LEMMA SumOfSubset ==
    ASSUME NEW f, NEW S, IsFiniteSet(S), NatOn(f, S), NEW T \in SUBSET S
    PROVE  SumFunctionOnSet(f, T) <= SumFunctionOnSet(f, S)
<1> DEFINE Good == {U \in SUBSET S : T \subseteq U => SumFunctionOnSet(f, T) <= SumFunctionOnSet(f, U)}
<1>0. SumFunctionOnSet(f, T) \in Nat
  BY FS_Subset, SumNat DEF NatOn
<1>1. ASSUME NEW U \in SUBSET S, \A x \in U : U \ {x} \in Good
      PROVE  U \in Good
  <2>1. CASE U = T
    BY <1>0, <2>1
  <2>2. CASE U # T /\ T \subseteq U
    <3>1. PICK x \in U : x \notin T
      BY <2>2
    <3>2. IsFiniteSet(U) /\ NatOn(f, U) /\ IsFiniteSet(U \ {x}) /\ NatOn(f, U \ {x})
      BY FS_Subset DEF NatOn
    <3>3. SumFunctionOnSet(f, U) = f[x] + SumFunctionOnSet(f, U \ {x})
      BY <3>1, <3>2, SumTakeOut
    <3>4. SumFunctionOnSet(f, U \ {x}) \in Nat /\ f[x] \in Nat
      BY <3>1, <3>2, SumNat DEF NatOn
    <3>5. SumFunctionOnSet(f, T) <= SumFunctionOnSet(f, U \ {x})
      BY <1>1, <2>2, <3>1
    <3> QED
      BY <1>0, <3>3, <3>4, <3>5
  <2> QED
    BY <2>1, <2>2
<1> HIDE DEF Good
<1>2. S \in Good
  BY <1>1, SubsetInduction
<1> QED
  BY <1>2 DEF Good
=============================================================================
