------------------------------- MODULE SetSums -------------------------------
(***************************************************************************)
(* Facts about sums over finite sets, SumFunctionOnSet of the community    *)
(* modules, which the budget of a mission and the costs of its runs are     *)
(* stated with.  The sum is a recursive function that takes its elements   *)
(* in an order nothing is known of.  Induction over the summed set is by   *)
(* a smallest counterexample, since the strict subsets of a finite set are *)
(* well-founded.                                                           *)
(***************************************************************************)
EXTENDS Integers, FiniteSets, Functions, FiniteSetTheorems, WellFoundedInduction, TLAPS

\* The element a fold takes next, and the function it computes.
Pick(s) == CHOOSE x \in s : TRUE

Folds(g, f, S) ==
  g = [s \in SUBSET S |-> IF s = {} THEN 0 ELSE f[Pick(s)] + g[s \ {Pick(s)}]]

\* An element is picked from a set that has one.
LEMMA Picked ==
  ASSUME NEW s, s # {}
  PROVE  Pick(s) \in s
  BY DEF Pick

\* The sum, by its definition.
LEMMA Unfolded ==
  ASSUME NEW f, NEW S
  PROVE  SumFunctionOnSet(f, S) = (CHOOSE g : Folds(g, f, S))[S]
  BY DEF SumFunctionOnSet, FoldFunctionOnSet, MapThenFoldSet, Folds, Pick

\* A set of subsets of a finite set has one without a strict subset in it.
LEMMA Smallest ==
  ASSUME NEW S, IsFiniteSet(S), NEW Bad \in SUBSET (SUBSET S), Bad # {}
  PROVE  \E s \in Bad : \A t \in SUBSET s : t # s => t \notin Bad
<1>1. IsWellFoundedOn(StrictSubsetOrdering(S), SUBSET S)
  BY FS_StrictSubsetOrderingWellFounded, FS_FiniteSubsetsOfFinite
<1>2. PICK s \in Bad : \A t \in Bad : <<t, s>> \notin StrictSubsetOrdering(S)
  BY <1>1, WFMin
<1>3. ASSUME NEW t \in SUBSET s, t # s, t \in Bad
      PROVE  FALSE
  <2>1. t \in SUBSET S /\ s \in SUBSET S
    OBVIOUS
  <2> QED
    BY <1>2, <1>3, <2>1 DEF StrictSubsetOrdering
<1> QED
  BY <1>2, <1>3

\* The function's value at a subset.
LEMMA FoldAt ==
  ASSUME NEW g, NEW f, NEW S, Folds(g, f, S), NEW s \in SUBSET S
  PROVE  g[s] = IF s = {} THEN 0 ELSE f[Pick(s)] + g[s \ {Pick(s)}]
  BY DEF Folds

\* Whatever set they were started for, two such functions agree.
LEMMA FoldUnique ==
  ASSUME NEW g, NEW h, NEW f, NEW S, IsFiniteSet(S), NEW T, NEW R,
         Folds(g, f, T), Folds(h, f, R), S \in SUBSET T, S \in SUBSET R
  PROVE  g[S] = h[S]
<1> DEFINE Bad == {s \in SUBSET S : g[s] # h[s]}
<1>1. SUFFICES ASSUME Bad # {} PROVE FALSE
  <2>1. S \in SUBSET S
    OBVIOUS
  <2> QED BY <1>1, <2>1
<1>2. PICK s \in Bad : \A t \in SUBSET s : t # s => t \notin Bad
  <2> HIDE DEF Bad
  <2>1. Bad \in SUBSET (SUBSET S)
    BY DEF Bad
  <2> QED BY <1>1, <2>1, Smallest
<1>3. s \in SUBSET T /\ s \in SUBSET R
  OBVIOUS
<1>4. /\ g[s] = IF s = {} THEN 0 ELSE f[Pick(s)] + g[s \ {Pick(s)}]
      /\ h[s] = IF s = {} THEN 0 ELSE f[Pick(s)] + h[s \ {Pick(s)}]
  BY <1>3, FoldAt
<1>5. s # {}
  BY <1>4
<1>6. s \ {Pick(s)} \in SUBSET s /\ s \ {Pick(s)} # s
  BY <1>5, Picked
<1>7. g[s \ {Pick(s)}] = h[s \ {Pick(s)}]
  BY <1>2, <1>6
<1> QED
  BY <1>4, <1>7

\* Such a function exists for a finite set.
LEMMA FoldExists ==
  ASSUME NEW f, NEW S, IsFiniteSet(S)
  PROVE  \E g : Folds(g, f, S)
<1> DEFINE Bad == {s \in SUBSET S : ~\E g : Folds(g, f, s)}
<1>1. SUFFICES ASSUME Bad # {} PROVE FALSE
  <2>1. S \in SUBSET S
    OBVIOUS
  <2> QED BY <1>1, <2>1
<1>2. PICK s \in Bad : \A t \in SUBSET s : t # s => t \notin Bad
  <2> HIDE DEF Bad
  <2>1. Bad \in SUBSET (SUBSET S)
    BY DEF Bad
  <2> QED BY <1>1, <2>1, Smallest
<1> DEFINE G(t) == CHOOSE g : Folds(g, f, t)
           g == [t \in SUBSET s |-> IF t = {} THEN 0 ELSE f[Pick(t)] + G(t \ {Pick(t)})[t \ {Pick(t)}]]
<1>3. ASSUME NEW t \in SUBSET s, t # s
      PROVE  Folds(G(t), f, t)
  <2>1. t \in SUBSET S
    OBVIOUS
  <2>2. \E h : Folds(h, f, t)
    BY <1>2, <1>3, <2>1
  <2> QED BY <2>2
<1>4. ASSUME NEW t \in SUBSET s, t # s
      PROVE  G(t)[t] = g[t]
  <2>1. Folds(G(t), f, t)
    BY <1>3, <1>4
  <2> HIDE DEF G
  <2>2. t \in SUBSET t
    OBVIOUS
  <2>3. G(t)[t] = IF t = {} THEN 0 ELSE f[Pick(t)] + G(t)[t \ {Pick(t)}]
    BY <2>1, <2>2, FoldAt
  <2>4. CASE t = {}
    BY <2>3, <2>4
  <2>5. CASE t # {}
    <3> DEFINE u == t \ {Pick(t)}
    <3>1. u \in SUBSET t /\ u \in SUBSET s /\ u # s
      BY <2>5, Picked, <1>4
    <3>2. Folds(G(u), f, u)
      BY <3>1, <1>3
    <3>3. IsFiniteSet(u)
      <4>1. u \in SUBSET S
        OBVIOUS
      <4> QED BY <4>1, FS_Subset
    <3>4. G(t)[u] = G(u)[u]
      <4> HIDE DEF u
      <4>1. u \in SUBSET u
        OBVIOUS
      <4> QED BY <2>1, <3>1, <3>2, <3>3, <4>1, FoldUnique
    <3> QED BY <2>3, <2>5, <3>4
  <2> QED BY <2>4, <2>5
<1>5. Folds(g, f, s)
  <2>1. ASSUME NEW t \in SUBSET s, t # {}
        PROVE  G(t \ {Pick(t)})[t \ {Pick(t)}] = g[t \ {Pick(t)}]
    <3>1. t \ {Pick(t)} \in SUBSET s /\ t \ {Pick(t)} # s
      BY <2>1, Picked
    <3> HIDE DEF g, G
    <3> QED BY <3>1, <1>4
  <2>2. g = [t \in SUBSET s |-> IF t = {} THEN 0 ELSE f[Pick(t)] + g[t \ {Pick(t)}]]
    <3> DEFINE k == [t \in SUBSET s |-> IF t = {} THEN 0 ELSE f[Pick(t)] + g[t \ {Pick(t)}]]
    <3>1. DOMAIN g = SUBSET s /\ DOMAIN k = SUBSET s
      OBVIOUS
    <3>2. ASSUME NEW t \in SUBSET s PROVE g[t] = k[t]
      <4>1. g[t] = IF t = {} THEN 0 ELSE f[Pick(t)] + G(t \ {Pick(t)})[t \ {Pick(t)}]
        OBVIOUS
      <4>2. k[t] = IF t = {} THEN 0 ELSE f[Pick(t)] + g[t \ {Pick(t)}]
        <5> HIDE DEF g
        <5> QED OBVIOUS
      <4> HIDE DEF g, G, k
      <4> QED BY <4>1, <4>2, <2>1
    <3>3. g = [t \in SUBSET s |-> g[t]] /\ k = [t \in SUBSET s |-> k[t]]
      <4>1. g = [t \in SUBSET s |-> g[t]]
        OBVIOUS
      <4>2. k = [t \in SUBSET s |-> k[t]]
        <5> HIDE DEF g
        <5> QED OBVIOUS
      <4> QED BY <4>1, <4>2
    <3>4. g = k
      <4> HIDE DEF g, k
      <4> QED BY <3>2, <3>3
    <3> HIDE DEF g
    <3> QED BY <3>4
  <2> HIDE DEF g
  <2> QED BY <2>2 DEF Folds
<1>6. s \in Bad /\ \E h : Folds(h, f, s)
  <2> HIDE DEF g
  <2> QED BY <1>2, <1>5
<1> QED BY <1>6

-----------------------------------------------------------------------------
\* A sum is the picked value and the sum of the rest.
LEMMA SumPick ==
  ASSUME NEW f, NEW S, IsFiniteSet(S), S # {}
  PROVE  SumFunctionOnSet(f, S) = f[Pick(S)] + SumFunctionOnSet(f, S \ {Pick(S)})
<1> DEFINE T == S \ {Pick(S)}
           g == CHOOSE h : Folds(h, f, S)
           k == CHOOSE h : Folds(h, f, T)
<1>1. T \in SUBSET S /\ IsFiniteSet(T) /\ S \in SUBSET S /\ T \in SUBSET T
  BY FS_Subset
<1>2. Folds(g, f, S)
  BY FoldExists
<1>3. Folds(k, f, T)
  BY <1>1, FoldExists
<1>4. SumFunctionOnSet(f, S) = g[S] /\ SumFunctionOnSet(f, T) = k[T]
  BY Unfolded
<1> HIDE DEF g, k, T
<1>5. g[T] = k[T]
  BY <1>1, <1>2, <1>3, FoldUnique
<1>6. g[S] = f[Pick(S)] + g[S \ {Pick(S)}]
  BY <1>1, <1>2, FoldAt
<1> QED
  BY <1>4, <1>5, <1>6 DEF T

\* The empty sum.
LEMMA SumEmpty ==
  ASSUME NEW f
  PROVE  SumFunctionOnSet(f, {}) = 0
<1> DEFINE g == CHOOSE h : Folds(h, f, {})
<1>1. IsFiniteSet({})
  BY FS_EmptySet
<1>2. Folds(g, f, {})
  BY <1>1, FoldExists
<1> HIDE DEF g
<1>3. g[{}] = 0
  BY <1>2, FoldAt
<1> QED
  BY <1>3, Unfolded DEF g

\* A sum of naturals is one.
LEMMA SumType ==
  ASSUME NEW f, NEW S, IsFiniteSet(S), \A x \in S : f[x] \in Nat
  PROVE  SumFunctionOnSet(f, S) \in Nat
<1> DEFINE Bad == {s \in SUBSET S : SumFunctionOnSet(f, s) \notin Nat}
<1>1. SUFFICES ASSUME Bad # {} PROVE FALSE
  <2>1. S \in SUBSET S
    OBVIOUS
  <2> QED BY <1>1, <2>1
<1>2. PICK s \in Bad : \A t \in SUBSET s : t # s => t \notin Bad
  <2>1. Bad \in SUBSET (SUBSET S)
    OBVIOUS
  <2> HIDE DEF Bad
  <2> QED BY <1>1, <2>1, Smallest
<1>3. s # {}
  BY SumEmpty
<1>4. IsFiniteSet(s) /\ Pick(s) \in S /\ s \ {Pick(s)} \in SUBSET s /\ s \ {Pick(s)} # s
  BY <1>3, Picked, FS_Subset
<1>5. SumFunctionOnSet(f, s \ {Pick(s)}) \in Nat
  BY <1>2, <1>4
<1> QED
  BY <1>3, <1>4, <1>5, SumPick

\* Any element can be taken out, not only the picked one.
LEMMA SumWithout ==
  ASSUME NEW f, NEW S, IsFiniteSet(S), \A x \in S : f[x] \in Nat, NEW x \in S
  PROVE  SumFunctionOnSet(f, S) = f[x] + SumFunctionOnSet(f, S \ {x})
<1> DEFINE Sum(s) == SumFunctionOnSet(f, s)
           Bad == {s \in SUBSET S : \E y \in s : Sum(s) # f[y] + Sum(s \ {y})}
<1>1. SUFFICES ASSUME Bad # {} PROVE FALSE
  <2>1. S \in SUBSET S
    OBVIOUS
  <2> QED BY <1>1, <2>1
<1>2. PICK s \in Bad : \A t \in SUBSET s : t # s => t \notin Bad
  <2>1. Bad \in SUBSET (SUBSET S)
    OBVIOUS
  <2> HIDE DEF Bad
  <2> QED BY <1>1, <2>1, Smallest
<1>3. PICK y \in s : Sum(s) # f[y] + Sum(s \ {y})
  OBVIOUS
<1> DEFINE p == Pick(s)
           sy == s \ {y}
           sp == s \ {p}
           syp == (s \ {p}) \ {y}
<1>4. s # {} /\ p \in s /\ IsFiniteSet(s) /\ s \in SUBSET S
  BY Picked, FS_Subset
<1>5. Sum(s) = f[p] + Sum(sp)
  BY <1>4, SumPick
<1>6. p # y
  BY <1>3, <1>5
<1>7. /\ sp \in SUBSET s /\ sp # s /\ sp \in SUBSET S /\ y \in sp
      /\ sy \in SUBSET s /\ sy # s /\ sy \in SUBSET S /\ p \in sy
      /\ sy \ {p} = syp /\ syp \in SUBSET S
  BY <1>4, <1>6
<1>8. Sum(sp) = f[y] + Sum(syp)
  BY <1>2, <1>7
<1>9. Sum(sy) = f[p] + Sum(syp)
  BY <1>2, <1>7
<1>10. f[p] \in Nat /\ f[y] \in Nat /\ Sum(syp) \in Nat
  <2>1. IsFiniteSet(syp)
    BY <1>7, FS_Subset
  <2> HIDE DEF syp, p
  <2> QED BY <1>4, <1>7, <2>1, SumType
<1> HIDE DEF Sum, p, syp
<1> QED
  BY <1>3, <1>5, <1>8, <1>9, <1>10

\* Only the values in the set matter.
LEMMA SumSame ==
  ASSUME NEW f, NEW g, NEW S, IsFiniteSet(S), \A x \in S : f[x] = g[x]
  PROVE  SumFunctionOnSet(f, S) = SumFunctionOnSet(g, S)
<1> DEFINE Bad == {s \in SUBSET S : SumFunctionOnSet(f, s) # SumFunctionOnSet(g, s)}
<1>1. SUFFICES ASSUME Bad # {} PROVE FALSE
  <2>1. S \in SUBSET S
    OBVIOUS
  <2> QED BY <1>1, <2>1
<1>2. PICK s \in Bad : \A t \in SUBSET s : t # s => t \notin Bad
  <2>1. Bad \in SUBSET (SUBSET S)
    OBVIOUS
  <2> HIDE DEF Bad
  <2> QED BY <1>1, <2>1, Smallest
<1>3. s # {}
  BY SumEmpty
<1>4. IsFiniteSet(s) /\ Pick(s) \in S /\ s \ {Pick(s)} \in SUBSET s /\ s \ {Pick(s)} # s
  BY <1>3, Picked, FS_Subset
<1>5. SumFunctionOnSet(f, s \ {Pick(s)}) = SumFunctionOnSet(g, s \ {Pick(s)})
  BY <1>2, <1>4
<1> QED
  BY <1>3, <1>4, <1>5, SumPick

\* Changing one value.
LEMMA SumChanged ==
  ASSUME NEW f, NEW g, NEW S, IsFiniteSet(S), NEW x \in S,
         \A y \in S : f[y] \in Nat /\ g[y] \in Nat, \A y \in S : y # x => g[y] = f[y]
  PROVE  SumFunctionOnSet(g, S) = SumFunctionOnSet(f, S) - f[x] + g[x]
<1>1. IsFiniteSet(S \ {x})
  BY FS_Subset
<1>2. /\ SumFunctionOnSet(f, S) = f[x] + SumFunctionOnSet(f, S \ {x})
      /\ SumFunctionOnSet(g, S) = g[x] + SumFunctionOnSet(g, S \ {x})
  BY SumWithout
<1>3. SumFunctionOnSet(f, S \ {x}) = SumFunctionOnSet(g, S \ {x})
  BY <1>1, SumSame
<1>4. SumFunctionOnSet(f, S \ {x}) \in Nat
  BY <1>1, SumType
<1> QED
  BY <1>2, <1>3, <1>4

\* Setting the values of a part to zero.
LEMMA SumCleared ==
  ASSUME NEW f, NEW g, NEW S, IsFiniteSet(S), NEW T \in SUBSET S, \A y \in S : f[y] \in Nat,
         \A y \in S : g[y] = IF y \in T THEN 0 ELSE f[y]
  PROVE  SumFunctionOnSet(f, S) = SumFunctionOnSet(g, S) + SumFunctionOnSet(f, T)
<1> DEFINE F(s) == SumFunctionOnSet(f, s)
           G(s) == SumFunctionOnSet(g, s)
           Bad == {s \in SUBSET S : F(s) # G(s) + F(s \cap T)}
<1>1. SUFFICES ASSUME Bad # {} PROVE FALSE
  <2>1. S \in SUBSET S /\ S \cap T = T
    OBVIOUS
  <2>2. F(S) = G(S) + F(S \cap T)
    BY <1>1, <2>1
  <2> QED BY <2>1, <2>2
<1>2. PICK s \in Bad : \A t \in SUBSET s : t # s => t \notin Bad
  <2>1. Bad \in SUBSET (SUBSET S)
    OBVIOUS
  <2> HIDE DEF Bad
  <2> QED BY <1>1, <2>1, Smallest
<1>3. s # {}
  <2>1. F({}) = 0 /\ G({}) = 0 /\ {} \cap T = {}
    BY SumEmpty
  <2>2. F(s) # G(s) + F(s \cap T)
    OBVIOUS
  <2> HIDE DEF F, G, Bad
  <2>3. ASSUME s = {} PROVE FALSE
    <3>1. s \cap T = {}
      BY <2>3
    <3> QED BY <2>1, <2>2, <2>3, <3>1
  <2> QED BY <2>3
<1> DEFINE p == Pick(s)
           t == s \ {p}
<1>4. /\ IsFiniteSet(s) /\ p \in s /\ p \in S /\ t \in SUBSET s /\ t # s /\ t \in SUBSET S
      /\ IsFiniteSet(t)
  <2>1. IsFiniteSet(s) /\ p \in s /\ p \in S
    BY <1>3, Picked, FS_Subset
  <2>2. t \in SUBSET s /\ t # s /\ t \in SUBSET S
    BY <2>1
  <2> HIDE DEF p, t
  <2> QED BY <2>1, <2>2, FS_Subset
<1>5. F(t) = G(t) + F(t \cap T)
  BY <1>2, <1>4
<1>6. F(s) = f[p] + F(t) /\ G(s) = g[p] + G(t)
  BY <1>3, <1>4, SumPick
<1>7. F(s \cap T) = IF p \in T THEN f[p] + F(t \cap T) ELSE F(t \cap T)
  <2>1. CASE p \in T
    <3>1. p \in s \cap T /\ (s \cap T) \ {p} = t \cap T /\ IsFiniteSet(s \cap T) /\ s \cap T \in SUBSET S
      BY <1>4, <2>1, FS_Subset
    <3>2. \A y \in s \cap T : f[y] \in Nat
      BY <3>1
    <3> HIDE DEF p, t
    <3> QED BY <2>1, <3>1, <3>2, SumWithout
  <2>2. CASE p \notin T
    <3>1. s \cap T = t \cap T
      BY <2>2
    <3> QED BY <2>2, <3>1
  <2> QED BY <2>1, <2>2
<1>8. f[p] \in Nat /\ F(t) \in Nat /\ G(t) \in Nat /\ F(t \cap T) \in Nat
  <2>1. IsFiniteSet(t \cap T) /\ t \cap T \in SUBSET S
    BY <1>4, FS_Subset
  <2>2. \A y \in S : f[y] \in Nat /\ g[y] \in Nat
    OBVIOUS
  <2> HIDE DEF p, t
  <2> QED BY <1>4, <2>1, <2>2, SumType
<1>9. g[p] = IF p \in T THEN 0 ELSE f[p]
  BY <1>4
<1>10. F(s) # G(s) + F(s \cap T)
  OBVIOUS
<1> HIDE DEF F, G, p, t
<1> QED
  BY <1>5, <1>6, <1>7, <1>8, <1>9, <1>10

\* A sum of values of at most K each.
LEMMA SumBounded ==
  ASSUME NEW f, NEW S, IsFiniteSet(S), NEW K \in Nat, \A x \in S : f[x] \in 0..K
  PROVE  SumFunctionOnSet(f, S) <= Cardinality(S) * K
<1> DEFINE Bad == {s \in SUBSET S : ~(SumFunctionOnSet(f, s) <= Cardinality(s) * K)}
<1>1. SUFFICES ASSUME Bad # {} PROVE FALSE
  <2>1. S \in SUBSET S
    OBVIOUS
  <2> QED BY <1>1, <2>1
<1>2. PICK s \in Bad : \A t \in SUBSET s : t # s => t \notin Bad
  <2>1. Bad \in SUBSET (SUBSET S)
    OBVIOUS
  <2> HIDE DEF Bad
  <2> QED BY <1>1, <2>1, Smallest
<1>3. s # {}
  BY SumEmpty, FS_EmptySet
<1> DEFINE t == s \ {Pick(s)}
<1>4. /\ IsFiniteSet(s) /\ Pick(s) \in S /\ Pick(s) \in s /\ t \in SUBSET s /\ t # s /\ IsFiniteSet(t)
  BY <1>3, Picked, FS_Subset
<1>5. SumFunctionOnSet(f, t) <= Cardinality(t) * K
  BY <1>2, <1>4
<1>6. SumFunctionOnSet(f, s) = f[Pick(s)] + SumFunctionOnSet(f, t)
  BY <1>3, <1>4, SumPick
<1>7. Cardinality(t) = Cardinality(s) - 1 /\ Cardinality(s) \in Nat /\ Cardinality(t) \in Nat
  BY <1>4, FS_RemoveElement, FS_CardinalityType
<1>8. f[Pick(s)] \in 0..K /\ SumFunctionOnSet(f, t) \in Nat
  <2>1. \A x \in t : f[x] \in Nat
    BY <1>4
  <2> HIDE DEF t
  <2> QED BY <1>4, <2>1, SumType
<1>9. Cardinality(s) * K = Cardinality(t) * K + K
  <2> HIDE DEF t
  <2>1. ASSUME NEW m \in Nat, NEW n \in Nat, m = n - 1 PROVE n * K = m * K + K
    BY <2>1
  <2> QED BY <1>7, <2>1
<1>10. ~(SumFunctionOnSet(f, s) <= Cardinality(s) * K)
  OBVIOUS
<1>11. Cardinality(t) * K \in Nat
  BY <1>7
<1> HIDE DEF t
<1> QED
  BY <1>5, <1>6, <1>8, <1>9, <1>10, <1>11

\* A set of naturals has a smallest element.
LEMMA SmallestNumber ==
  ASSUME NEW Bad \in SUBSET Nat, Bad # {}
  PROVE  \E n \in Bad : \A m \in Bad : n <= m
<1>1. PICK n \in Bad : \A m \in Bad : <<m, n>> \notin OpToRel(<, Nat)
  BY NatLessThanWellFounded, WFMin
<1>2. ASSUME NEW m \in Bad PROVE n <= m
  <2>1. ~(m < n)
    BY <1>1 DEF OpToRel
  <2> QED BY <2>1
<1> QED
  BY <1>2

\* At most as many, each at most as much.
LEMMA Scaled ==
  ASSUME NEW m \in Nat, NEW n \in Nat, NEW k \in Nat, m <= n
  PROVE  m * k <= n * k
<1> DEFINE d == n - m
<1>1. d \in Nat /\ n = m + d
  OBVIOUS
<1> HIDE DEF d
<1>2. (m + d) * k = m * k + d * k /\ m * k \in Nat /\ d * k \in Nat
  BY <1>1
<1> QED
  BY <1>1, <1>2
=============================================================================
