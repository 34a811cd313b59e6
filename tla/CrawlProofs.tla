----------------------------- MODULE CrawlProofs -----------------------------
(***************************************************************************)
(* Proofs about the crawl (SiteCrawl beside Billing, module CrawlQuota),   *)
(* for any sites, limits, plans and order of answers: it implements what a *)
(* crawl promises (CrawlPromise), shows each page once and at the depth of *)
(* its shortest way in, is complete unless it says otherwise, and fetches  *)
(* less than a round more than the plan allows.                            *)
(*                                                                         *)
(* The frontier, the batches and the answers are sequences cut from one    *)
(* another.  What the proofs need of filter, slice and flat is which       *)
(* elements the result has and that it keeps their order; it is stated     *)
(* once, of positions, in the first part.                                  *)
(***************************************************************************)
EXTENDS CrawlQuota, SetSums, SequenceTheorems, TLAPS

-----------------------------------------------------------------------------
\* A function on 1..n is a sequence of length n.
LEMMA FunctionIsSeq ==
  ASSUME NEW T, NEW n \in Nat, NEW f \in [1..n -> T]
  PROVE  f \in Seq(T) /\ Len(f) = n /\ DOMAIN f = 1..n
<1>1. f \in Seq(T)
  BY SeqDef
<1>2. DOMAIN f = 1..n /\ DOMAIN f = 1..Len(f) /\ Len(f) \in Nat
  BY <1>1, LenProperties
<1> QED
  BY <1>1, <1>2

\* The positions up to i that are kept.
UpTo(keep, i) == {j \in keep : j <= i}

\* Positions are numbers, and finitely many.
LEMMA Positions ==
  ASSUME NEW m \in Nat, NEW keep \in SUBSET (1..m)
  PROVE  /\ IsFiniteSet(keep) /\ Cardinality(keep) \in Nat
         /\ \A i \in keep : i \in Nat
         /\ \A T \in SUBSET keep : IsFiniteSet(T) /\ Cardinality(T) \in Nat
<1>1. 1 \in Int /\ m \in Int
  OBVIOUS
<1>2. IsFiniteSet(1..m)
  BY <1>1, FS_Interval
<1>3. \A T \in SUBSET (1..m) : IsFiniteSet(T)
  BY <1>2, FS_Subset
<1>4. \A T \in SUBSET (1..m) : Cardinality(T) \in Nat
  BY <1>3, FS_CardinalityType
<1>5. keep \in SUBSET (1..m) /\ \A T \in SUBSET keep : T \in SUBSET (1..m)
  OBVIOUS
<1>6. \A i \in keep : i \in Nat
  OBVIOUS
<1> QED
  BY <1>3, <1>4, <1>5, <1>6

\* The n-th position kept is one with n positions up to it.
LEMMA PlaceIs ==
  ASSUME NEW m \in Nat, NEW keep \in SUBSET (1..m), NEW n \in 1..Cardinality(keep)
  PROVE  Place(keep, n) \in keep /\ Cardinality(UpTo(keep, Place(keep, n))) = n
<1> DEFINE Has(k) == \E i \in keep : Cardinality(UpTo(keep, i)) = k
           Bad == {k \in Nat : 1 <= k /\ k <= Cardinality(keep) /\ ~Has(k)}
<1>0. /\ IsFiniteSet(keep) /\ Cardinality(keep) \in Nat
      /\ \A i \in keep : i \in Nat
      /\ \A T \in SUBSET keep : IsFiniteSet(T) /\ Cardinality(T) \in Nat
  BY Positions
<1>1. SUFFICES ASSUME Bad # {} PROVE FALSE
  <2>1. Has(n)
    BY <1>0, <1>1
  <2> QED BY <2>1 DEF Place, UpTo
<1>2. PICK k \in Bad : \A j \in Bad : k <= j
  <2>1. Bad \in SUBSET Nat
    OBVIOUS
  <2> HIDE DEF Bad
  <2> QED BY <1>1, <2>1, SmallestNumber
<1>3. PICK done \in SUBSET keep : /\ Cardinality(done) = k - 1
                                  /\ \A j \in done, l \in keep \ done : j < l
  <2>1. CASE k = 1
    BY <2>1, FS_EmptySet
  <2>2. CASE k # 1
    <3>1. k - 1 \in Nat /\ k - 1 \notin Bad /\ 1 <= k - 1 /\ k - 1 <= Cardinality(keep)
      BY <1>0, <1>2, <2>2
    <3>2. PICK i \in keep : Cardinality(UpTo(keep, i)) = k - 1
      BY <3>1
    <3> QED BY <3>2 DEF UpTo
  <2> QED BY <2>1, <2>2
<1>4. keep \ done # {}
  <2>1. done # keep
    BY <1>0, <1>2, <1>3
  <2> QED BY <2>1
<1>5. PICK p \in keep \ done : \A j \in keep \ done : p <= j
  <2>1. (keep \ done) \in SUBSET Nat
    OBVIOUS
  <2> QED BY <1>4, <2>1, SmallestNumber
<1>6. UpTo(keep, p) = done \cup {p}
  <2>1. p \in Nat /\ \A j \in done : j \in Nat /\ j < p /\ j <= p
    BY <1>0, <1>3, <1>5
  <2>2. \A j \in keep \ done : j \in Nat /\ (j <= p <=> j = p)
    BY <1>0, <1>5, <2>1
  <2> QED BY <2>1, <2>2 DEF UpTo
<1>7. IsFiniteSet(done) /\ p \notin done
  BY <1>0, <1>5
<1>8. Cardinality(UpTo(keep, p)) = k
  BY <1>2, <1>3, <1>6, <1>7, FS_AddElement
<1> QED
  BY <1>2, <1>8

\* The positions are taken in order, and all of them.
LEMMA PlacesRise ==
  ASSUME NEW m \in Nat, NEW keep \in SUBSET (1..m)
  PROVE  /\ Cardinality(keep) \in Nat
         /\ \A n, k \in 1..Cardinality(keep) : n < k => Place(keep, n) < Place(keep, k)
         /\ \A i \in keep : \E n \in 1..Cardinality(keep) : Place(keep, n) = i
<1>0. /\ IsFiniteSet(keep) /\ Cardinality(keep) \in Nat
      /\ \A i \in keep : i \in Nat
      /\ \A T \in SUBSET keep : IsFiniteSet(T) /\ Cardinality(T) \in Nat
  BY Positions
<1>1. ASSUME NEW i \in keep
      PROVE  /\ UpTo(keep, i) \in SUBSET keep /\ IsFiniteSet(UpTo(keep, i))
             /\ Cardinality(UpTo(keep, i)) \in 1..Cardinality(keep)
  <2>1. UpTo(keep, i) \in SUBSET keep /\ i \in UpTo(keep, i)
    BY DEF UpTo
  <2>2. IsFiniteSet(UpTo(keep, i)) /\ Cardinality(UpTo(keep, i)) <= Cardinality(keep)
    BY <1>0, <2>1, FS_Subset
  <2>3. Cardinality(UpTo(keep, i)) \in Nat /\ Cardinality(UpTo(keep, i)) # 0
    BY <2>1, <2>2, FS_CardinalityType, FS_EmptySet
  <2> QED BY <1>0, <2>1, <2>2, <2>3
<1>2. ASSUME NEW i \in keep, NEW j \in keep, i < j
      PROVE  Cardinality(UpTo(keep, i)) < Cardinality(UpTo(keep, j))
  <2>0. i \in Nat /\ j \in Nat /\ \A l \in keep : l \in Nat
    BY <1>0
  <2>1. UpTo(keep, i) \in SUBSET UpTo(keep, j) /\ j \in UpTo(keep, j) /\ j \notin UpTo(keep, i)
    <3>1. j <= j /\ ~(j <= i) /\ \A l \in keep : l <= i => l <= j
      BY <1>2, <2>0
    <3> QED BY <3>1 DEF UpTo
  <2>2. /\ Cardinality(UpTo(keep, i)) <= Cardinality(UpTo(keep, j))
        /\ Cardinality(UpTo(keep, i)) # Cardinality(UpTo(keep, j))
    <3> DEFINE S == UpTo(keep, j)
               T == UpTo(keep, i)
    <3>1. IsFiniteSet(S) /\ T \in SUBSET S /\ S # T
      BY <1>1, <2>1
    <3> HIDE DEF S, T
    <3>2. Cardinality(T) <= Cardinality(S) /\ (Cardinality(S) = Cardinality(T) => S = T)
      BY <3>1, FS_Subset
    <3> QED BY <3>1, <3>2 DEF S, T
  <2>3. /\ Cardinality(UpTo(keep, i)) \in Nat
        /\ Cardinality(UpTo(keep, j)) \in Nat
    BY <1>0, <1>1
  <2> QED BY <2>2, <2>3
<1>3. ASSUME NEW n \in 1..Cardinality(keep), NEW k \in 1..Cardinality(keep), n < k
      PROVE  Place(keep, n) < Place(keep, k)
  <2>1. /\ Place(keep, n) \in keep /\ Cardinality(UpTo(keep, Place(keep, n))) = n
        /\ Place(keep, k) \in keep /\ Cardinality(UpTo(keep, Place(keep, k))) = k
    BY PlaceIs
  <2>2. Place(keep, n) \in Nat /\ Place(keep, k) \in Nat
    BY <1>0, <2>1
  <2>3. ~(Place(keep, k) < Place(keep, n))
    <3> SUFFICES ASSUME Place(keep, k) < Place(keep, n) PROVE FALSE
      OBVIOUS
    <3>1. Cardinality(UpTo(keep, Place(keep, k))) < Cardinality(UpTo(keep, Place(keep, n)))
      BY <1>2, <2>1
    <3> QED BY <1>0, <1>3, <2>1, <3>1
  <2>4. Place(keep, n) # Place(keep, k)
    BY <1>0, <1>3, <2>1
  <2> QED BY <2>2, <2>3, <2>4
<1>4. ASSUME NEW i \in keep
      PROVE  \E n \in 1..Cardinality(keep) : Place(keep, n) = i
  <2> DEFINE n == Cardinality(UpTo(keep, i))
  <2>1. n \in 1..Cardinality(keep)
    BY <1>1
  <2>2. Place(keep, n) \in keep /\ Cardinality(UpTo(keep, Place(keep, n))) = n
    BY <2>1, PlaceIs
  <2>3. ~(Place(keep, n) < i) /\ ~(i < Place(keep, n))
    <3>1. n \in Nat /\ ~(n < n)
      BY <1>0, <2>1
    <3> QED BY <1>2, <2>2, <3>1
  <2>4. Place(keep, n) = i
    <3> HIDE DEF n
    <3>1. Place(keep, n) \in Nat /\ i \in Nat
      BY <1>0, <2>2
    <3> QED BY <2>3, <3>1
  <2> QED BY <2>1, <2>4
<1> QED
  BY <1>0, <1>3, <1>4

\* t has the elements of s at the positions in keep, in their order.
Follows(t, s, keep) ==
  /\ \A n \in 1..Len(t) : \E i \in keep : t[n] = s[i]
  /\ \A i \in keep : \E n \in 1..Len(t) : t[n] = s[i]
  /\ \A n, k \in 1..Len(t) : n < k => \E i, j \in keep : i < j /\ t[n] = s[i] /\ t[k] = s[j]

\* filter keeps what it is asked to, in order.
LEMMA SiftFollows ==
  ASSUME NEW T, NEW s \in Seq(T), NEW keep \in SUBSET (1..Len(s))
  PROVE  /\ Sift(s, keep) \in Seq(T) /\ Follows(Sift(s, keep), s, keep)
         /\ Len(Sift(s, keep)) = Cardinality(keep) /\ Cardinality(keep) \in Nat
<1>1. Len(s) \in Nat /\ \A i \in 1..Len(s) : s[i] \in T
  BY LenProperties, ElementOfSeq
<1>2. /\ Cardinality(keep) \in Nat
      /\ \A n, k \in 1..Cardinality(keep) : n < k => Place(keep, n) < Place(keep, k)
      /\ \A i \in keep : \E n \in 1..Cardinality(keep) : Place(keep, n) = i
  BY <1>1, PlacesRise
<1>3. \A n \in 1..Cardinality(keep) : Place(keep, n) \in keep
  BY <1>1, PlaceIs
<1>4. Sift(s, keep) \in [1..Cardinality(keep) -> T]
  BY <1>1, <1>3 DEF Sift
<1>5. Sift(s, keep) \in Seq(T) /\ Len(Sift(s, keep)) = Cardinality(keep)
  BY <1>2, <1>4, FunctionIsSeq
<1>6. \A n \in 1..Cardinality(keep) : Sift(s, keep)[n] = s[Place(keep, n)]
  BY DEF Sift
<1>7. \A n \in 1..Cardinality(keep) : \E i \in keep : Sift(s, keep)[n] = s[i]
  BY <1>3, <1>6
<1>8. \A i \in keep : \E n \in 1..Cardinality(keep) : Sift(s, keep)[n] = s[i]
  BY <1>2, <1>6
<1>9. \A n, k \in 1..Cardinality(keep) : n < k =>
        \E i, j \in keep : i < j /\ Sift(s, keep)[n] = s[i] /\ Sift(s, keep)[k] = s[j]
  BY <1>2, <1>3, <1>6
<1> QED
  BY <1>2, <1>5, <1>7, <1>8, <1>9 DEF Follows

-----------------------------------------------------------------------------
\* Any two elements of s, the earlier one first, are in R; the same of a
\* sequence of sequences read one after the other.
Rising(s, R) == \A n, k \in 1..Len(s) : n < k => <<s[n], s[k]>> \in R

Layered(ss, R) ==
  \A i, j \in 1..Len(ss) : \A a \in 1..Len(ss[i]), c \in 1..Len(ss[j]) :
    (i < j \/ (i = j /\ a < c)) => <<ss[i][a], ss[j][c]>> \in R

\* t has the elements of the sequences up to the n-th, and no others.
Holds(t, ss, n) ==
  /\ \A a \in 1..Len(t) : \E i \in 1..n : \E c \in 1..Len(ss[i]) : t[a] = ss[i][c]
  /\ \A i \in 1..n : \A c \in 1..Len(ss[i]) : \E a \in 1..Len(t) : t[a] = ss[i][c]

\* The function FlattenSeq is computed by, up to m.
Flattens(g, ss, m) == g = [i \in 1..m |-> IF i = 1 THEN ss[i] ELSE g[i - 1] \o ss[i]]

\* FlattenSeq, one sequence at a time.
LEMMA FlattenAt ==
  ASSUME NEW g, NEW ss, NEW m \in Nat, Flattens(g, ss, m), NEW i \in 1..m
  PROVE  g[i] = IF i = 1 THEN ss[i] ELSE g[i - 1] \o ss[i]
  BY DEF Flattens

\* Such a function exists.
LEMMA FlattenExists ==
  ASSUME NEW ss, NEW m \in Nat
  PROVE  \E g : Flattens(g, ss, m)
<1> DEFINE Bad == {k \in Nat : ~\E g : Flattens(g, ss, k)}
<1>1. SUFFICES ASSUME Bad # {} PROVE FALSE
  BY <1>1
<1>2. PICK k \in Bad : \A j \in Bad : k <= j
  <2>1. Bad \in SUBSET Nat
    OBVIOUS
  <2> HIDE DEF Bad
  <2> QED BY <1>1, <2>1, SmallestNumber
<1>3. k # 0
  <2> DEFINE g == [i \in 1..0 |-> <<>>]
  <2>1. Flattens(g, ss, 0)
    BY DEF Flattens
  <2> QED BY <2>1
<1>4. k - 1 \in Nat /\ k - 1 \notin Bad
  BY <1>2, <1>3
<1>5. PICK h : Flattens(h, ss, k - 1)
  BY <1>4
<1> DEFINE v == IF k = 1 THEN ss[k] ELSE h[k - 1] \o ss[k]
           g == [i \in 1..k |-> IF i = k THEN v ELSE h[i]]
<1>6. ASSUME NEW i \in 1..k
      PROVE  g[i] = IF i = 1 THEN ss[i] ELSE g[i - 1] \o ss[i]
  <2>1. CASE i = k
    <3>1. g[k] = v /\ (k # 1 => g[k - 1] = h[k - 1])
      BY <1>3, <1>4
    <3> HIDE DEF g
    <3> QED BY <2>1, <3>1
  <2>2. CASE i # k
    <3>1. i \in 1..(k - 1)
      BY <1>4, <2>2
    <3>2. h[i] = IF i = 1 THEN ss[i] ELSE h[i - 1] \o ss[i]
      BY <1>4, <1>5, <3>1, FlattenAt
    <3>3. g[i] = h[i] /\ (i # 1 => g[i - 1] = h[i - 1])
      BY <2>2, <3>1
    <3> HIDE DEF g
    <3> QED BY <3>2, <3>3
  <2> QED BY <2>1, <2>2
<1>7. g = [i \in 1..k |-> g[i]]
  OBVIOUS
<1>8. Flattens(g, ss, k)
  <2> HIDE DEF g
  <2> QED BY <1>6, <1>7 DEF Flattens
<1> QED
  <2> HIDE DEF g
  <2> QED BY <1>2, <1>8

\* Where the elements of a concatenation come from.
LEMMA Joined ==
  ASSUME NEW T, NEW s \in Seq(T), NEW t \in Seq(T)
  PROVE  /\ s \o t \in Seq(T) /\ Len(s \o t) = Len(s) + Len(t)
         /\ Len(s) \in Nat /\ Len(t) \in Nat
         /\ \A a \in 1..Len(s) : a \in 1..Len(s \o t) /\ (s \o t)[a] = s[a]
         /\ \A c \in 1..Len(t) : Len(s) + c \in 1..Len(s \o t) /\ (s \o t)[Len(s) + c] = t[c]
         /\ \A a \in 1..Len(s \o t) :
              a \in 1..Len(s) \/ (a - Len(s) \in 1..Len(t) /\ (s \o t)[a] = t[a - Len(s)])
<1> DEFINE st == s \o t
           m == Len(s)
           n == Len(t)
<1>1. /\ st \in Seq(T) /\ Len(st) = m + n /\ m \in Nat /\ n \in Nat
      /\ \A i \in 1..(m + n) : st[i] = IF i <= m THEN s[i] ELSE t[i - m]
  BY ConcatProperties, LenProperties
<1> HIDE DEF st, m, n
<1>2. ASSUME NEW a \in 1..m PROVE a \in 1..Len(st) /\ st[a] = s[a]
  BY <1>1
<1>3. ASSUME NEW c \in 1..n PROVE m + c \in 1..Len(st) /\ st[m + c] = t[c]
  <2>1. m + c \in 1..(m + n) /\ ~(m + c <= m) /\ (m + c) - m = c
    BY <1>1
  <2>2. st[m + c] = t[(m + c) - m]
    BY <1>1, <2>1
  <2> QED BY <1>1, <2>1, <2>2
<1>4. ASSUME NEW a \in 1..Len(st) PROVE a \in 1..m \/ (a - m \in 1..n /\ st[a] = t[a - m])
  BY <1>1
<1> QED
  BY <1>1, <1>2, <1>3, <1>4 DEF st, m, n

\* One sequence more: elements and order.
LEMMA FlattenStep ==
  ASSUME NEW T, NEW ss \in Seq(Seq(T)), NEW R, NEW n \in Nat, n + 1 <= Len(ss),
         NEW s \in Seq(T), Holds(s, ss, n), Layered(ss, R) => Rising(s, R)
  PROVE  /\ s \o ss[n + 1] \in Seq(T) /\ Holds(s \o ss[n + 1], ss, n + 1)
         /\ Layered(ss, R) => Rising(s \o ss[n + 1], R)
<1> DEFINE t == ss[n + 1]
           st == s \o t
<1>1. Len(ss) \in Nat /\ n + 1 \in 1..Len(ss)
  BY LenProperties
<1>2. t \in Seq(T)
  BY <1>1, ElementOfSeq
<1>3. Len(s) \in Nat /\ Len(t) \in Nat
  BY <1>2, Joined
<1>4. st \in Seq(T) /\ Len(st) = Len(s) + Len(t)
  BY <1>2, Joined
<1>5. /\ \A a \in 1..Len(s) : a \in 1..Len(st) /\ st[a] = s[a]
      /\ \A c \in 1..Len(t) : Len(s) + c \in 1..Len(st) /\ st[Len(s) + c] = t[c]
      /\ \A a \in 1..Len(st) :
           a \in 1..Len(s) \/ (a - Len(s) \in 1..Len(t) /\ st[a] = t[a - Len(s)])
  <2> HIDE DEF t
  <2>1. \A a \in 1..Len(s) : a \in 1..Len(st) /\ st[a] = s[a]
    BY <1>2, Joined
  <2>2. \A c \in 1..Len(t) : Len(s) + c \in 1..Len(st) /\ st[Len(s) + c] = t[c]
    BY <1>2, Joined
  <2>3. ASSUME NEW a \in 1..Len(st), a \notin 1..Len(s)
        PROVE  a - Len(s) \in 1..Len(t) /\ st[a] = t[a - Len(s)]
    <3> HIDE DEF st
    <3>1. a - Len(s) \in 1..Len(t) /\ Len(s) + (a - Len(s)) = a
      BY <1>3, <1>4, <2>3
    <3> QED BY <2>2, <3>1
  <2> QED BY <2>1, <2>2, <2>3
<1> HIDE DEF st
<1>6. Holds(st, ss, n + 1)
  <2>1. ASSUME NEW a \in 1..Len(st)
        PROVE  \E i \in 1..(n + 1) : \E c \in 1..Len(ss[i]) : st[a] = ss[i][c]
    <3>1. CASE a \in 1..Len(s)
      <4>1. PICK i \in 1..n : \E c \in 1..Len(ss[i]) : s[a] = ss[i][c]
        BY <3>1 DEF Holds
      <4>2. i \in 1..(n + 1)
        OBVIOUS
      <4> QED BY <1>5, <3>1, <4>1, <4>2
    <3>2. CASE a \notin 1..Len(s)
      <4>1. a - Len(s) \in 1..Len(t) /\ st[a] = t[a - Len(s)] /\ n + 1 \in 1..(n + 1)
        BY <1>5, <3>2
      <4> QED BY <4>1
    <3> QED BY <3>1, <3>2
  <2>2. ASSUME NEW i \in 1..(n + 1), NEW c \in 1..Len(ss[i])
        PROVE  \E a \in 1..Len(st) : st[a] = ss[i][c]
    <3>1. CASE i = n + 1
      <4>1. c \in 1..Len(t) /\ t[c] = ss[i][c]
        BY <3>1
      <4> QED BY <1>5, <4>1
    <3>2. CASE i # n + 1
      <4>1. i \in 1..n
        BY <3>2
      <4>2. PICK a \in 1..Len(s) : s[a] = ss[i][c]
        BY <4>1 DEF Holds
      <4> QED BY <1>5, <4>2
    <3> QED BY <3>1, <3>2
  <2> QED BY <2>1, <2>2 DEF Holds
<1>7. ASSUME Layered(ss, R), NEW a \in 1..Len(st), NEW c \in 1..Len(st), a < c
      PROVE  <<st[a], st[c]>> \in R
  <2>1. CASE c \in 1..Len(s)
    <3>1. a \in 1..Len(s)
      BY <1>3, <1>7, <2>1
    <3> QED BY <1>5, <1>7, <2>1, <3>1 DEF Rising
  <2>2. CASE c \notin 1..Len(s) /\ a \in 1..Len(s)
    <3>1. c - Len(s) \in 1..Len(t) /\ st[c] = t[c - Len(s)]
      BY <1>5, <2>2
    <3>2. PICK i \in 1..n : \E x \in 1..Len(ss[i]) : s[a] = ss[i][x]
      BY <2>2 DEF Holds
    <3>3. PICK x \in 1..Len(ss[i]) : s[a] = ss[i][x]
      BY <3>2
    <3>4. i \in 1..Len(ss) /\ i < n + 1
      BY <1>1
    <3>5. <<ss[i][x], ss[n + 1][c - Len(s)]>> \in R
      BY <1>1, <1>7, <3>1, <3>3, <3>4 DEF Layered
    <3> QED BY <1>5, <2>2, <3>1, <3>3, <3>5
  <2>3. CASE c \notin 1..Len(s) /\ a \notin 1..Len(s)
    <3>1. /\ c - Len(s) \in 1..Len(t) /\ st[c] = t[c - Len(s)]
          /\ a - Len(s) \in 1..Len(t) /\ st[a] = t[a - Len(s)]
      BY <1>5, <2>3
    <3>2. a - Len(s) < c - Len(s)
      BY <1>3, <1>7, <1>4
    <3>3. <<ss[n + 1][a - Len(s)], ss[n + 1][c - Len(s)]>> \in R
      BY <1>1, <1>7, <3>1, <3>2 DEF Layered
    <3> QED BY <3>1, <3>3
  <2> QED BY <2>1, <2>2, <2>3
<1> QED
  BY <1>4, <1>6, <1>7 DEF Rising, st

\* flat: the elements of the parts, in the parts' order.
LEMMA FlattenIs ==
  ASSUME NEW T, NEW ss \in Seq(Seq(T)), NEW R
  PROVE  /\ FlattenSeq(ss) \in Seq(T) /\ Holds(FlattenSeq(ss), ss, Len(ss))
         /\ Layered(ss, R) => Rising(FlattenSeq(ss), R)
<1> DEFINE g == CHOOSE h : Flattens(h, ss, Len(ss))
           Good(n) == /\ g[n] \in Seq(T) /\ Holds(g[n], ss, n)
                      /\ Layered(ss, R) => Rising(g[n], R)
           Bad == {n \in Nat : 1 <= n /\ n <= Len(ss) /\ ~Good(n)}
<1>1. Len(ss) \in Nat /\ \A i \in 1..Len(ss) : ss[i] \in Seq(T)
  BY LenProperties, ElementOfSeq
<1>2. CASE Len(ss) = 0
  <2>1. FlattenSeq(ss) = ss
    BY <1>2 DEF FlattenSeq
  <2>2. ss = <<>>
    BY <1>2, EmptySeq
  <2>3. ss \in Seq(T) /\ Len(ss) = 0
    BY <2>2, EmptySeq
  <2> QED BY <2>1, <2>3 DEF Holds, Rising
<1>3. CASE Len(ss) # 0
  <2>1. Flattens(g, ss, Len(ss))
    BY <1>1, FlattenExists
  <2>2. FlattenSeq(ss) = g[Len(ss)]
    BY <1>3 DEF FlattenSeq, Flattens
  <2>3. Bad = {}
    <3> SUFFICES ASSUME Bad # {} PROVE FALSE
      OBVIOUS
    <3>1. PICK n \in Bad : \A m \in Bad : n <= m
      <4>1. Bad \in SUBSET Nat
        OBVIOUS
      <4> HIDE DEF Bad
      <4> QED BY <4>1, SmallestNumber
    <3>2. n \in 1..Len(ss) /\ ~Good(n)
      BY <1>1
    <3> HIDE DEF g
    <3>3. g[n] = IF n = 1 THEN ss[n] ELSE g[n - 1] \o ss[n]
      BY <1>1, <2>1, <3>2, FlattenAt
    <3>4. CASE n = 1
      <4>1. g[1] = ss[1] /\ ss[1] \in Seq(T) /\ 1 \in 1..Len(ss)
        BY <1>1, <3>2, <3>3, <3>4
      <4>2. Holds(g[1], ss, 1)
        BY <4>1 DEF Holds
      <4>3. Layered(ss, R) => Rising(g[1], R)
        BY <4>1 DEF Layered, Rising
      <4> QED BY <3>2, <3>4, <4>1, <4>2, <4>3
    <3>5. CASE n # 1
      <4>1. n - 1 \in Nat /\ 1 <= n - 1 /\ n - 1 <= Len(ss) /\ ~(n <= n - 1)
        BY <1>1, <3>2, <3>5
      <4>2. Good(n - 1)
        BY <3>1, <4>1
      <4>3. (n - 1) + 1 = n /\ (n - 1) + 1 <= Len(ss)
        BY <1>1, <3>2
      <4>4. g[n] = g[n - 1] \o ss[(n - 1) + 1]
        BY <3>3, <3>5, <4>3
      <4> DEFINE k == n - 1
      <4>5. k \in Nat /\ k + 1 <= Len(ss) /\ g[k] \in Seq(T) /\ Holds(g[k], ss, k)
            /\ (Layered(ss, R) => Rising(g[k], R))
        BY <4>1, <4>2, <4>3
      <4> HIDE DEF k
      <4>6. /\ g[k] \o ss[k + 1] \in Seq(T) /\ Holds(g[k] \o ss[k + 1], ss, k + 1)
            /\ Layered(ss, R) => Rising(g[k] \o ss[k + 1], R)
        BY <4>5, FlattenStep
      <4>7. k + 1 = n /\ g[n] = g[k] \o ss[k + 1]
        BY <4>3, <4>4 DEF k
      <4> QED BY <3>2, <4>6, <4>7
    <3> QED BY <3>4, <3>5
  <2>4. Good(Len(ss))
    <3>1. Len(ss) \notin Bad /\ 1 <= Len(ss) /\ Len(ss) <= Len(ss)
      BY <1>1, <1>3, <2>3
    <3> HIDE DEF g
    <3> QED BY <1>1, <3>1
  <2> HIDE DEF g
  <2> QED BY <2>2, <2>4
<1> QED
  BY <1>2, <1>3

-----------------------------------------------------------------------------
\* The pieces BATCH addresses long: where each address goes.
LEMMA BatchesAre ==
  ASSUME NEW T, NEW slice \in Seq(T), NEW R
  PROVE  /\ Batches(slice) \in Seq(Seq(T))
         /\ Holds(slice, Batches(slice), Len(Batches(slice)))
         /\ Rising(slice, R) => Layered(Batches(slice), R)
<1> DEFINE L == Len(slice)
           N == (L + BATCH - 1) \div BATCH
           Off(i) == (i - 1) * BATCH
           To(i) == IF i * BATCH < L THEN i * BATCH ELSE L
           bs == Batches(slice)
<1>1. L \in Nat /\ BATCH \in Nat /\ BATCH # 0 /\ \A i \in 1..L : slice[i] \in T
  BY CrawlAssumption, LenProperties, ElementOfSeq
<1>2. N \in Nat /\ L + BATCH - 1 < (N + 1) * BATCH
  BY <1>1
<1> HIDE DEF N
<1>3. ASSUME NEW i \in 1..N
      PROVE  /\ Off(i) \in Nat /\ To(i) \in Int /\ To(i) <= L /\ i * BATCH \in Nat
             /\ To(i) <= Off(i) + BATCH /\ i * BATCH = Off(i) + BATCH
             /\ (Off(i) + BATCH <= L => To(i) = Off(i) + BATCH)
             /\ (~(Off(i) + BATCH <= L) => To(i) = L)
  <2>1. i \in Nat /\ i - 1 \in Nat
    OBVIOUS
  <2>2. (i - 1) * BATCH \in Nat /\ i * BATCH \in Nat
    BY <1>1, <2>1
  <2>3. i * BATCH = (i - 1) * BATCH + BATCH
    BY <1>1, <2>1
  <2> DEFINE p == (i - 1) * BATCH
             q == i * BATCH
  <2>4. p \in Nat /\ q \in Nat /\ q = p + BATCH
    BY <2>2, <2>3
  <2> HIDE DEF p, q, L
  <2>5. /\ p \in Nat /\ (IF q < L THEN q ELSE L) \in Int /\ (IF q < L THEN q ELSE L) <= L
        /\ (IF q < L THEN q ELSE L) <= p + BATCH
        /\ (p + BATCH <= L => (IF q < L THEN q ELSE L) = p + BATCH)
        /\ (~(p + BATCH <= L) => (IF q < L THEN q ELSE L) = L)
    BY <1>1, <2>4
  <2> QED BY <2>4, <2>5 DEF p, q
<1>4. ASSUME NEW i \in 1..N
      PROVE  /\ bs[i] \in Seq(T)
             /\ \A a \in 1..Len(bs[i]) : /\ bs[i][a] = slice[Off(i) + a]
                                          /\ Off(i) + a \in 1..L /\ a <= BATCH
             /\ \A p \in 1..L : Off(i) < p /\ p <= Off(i) + BATCH => p - Off(i) \in 1..Len(bs[i])
  <2>1. bs[i] = SubSeq(slice, Off(i) + 1, To(i))
    BY DEF Batches, N
  <2> DEFINE m == Off(i) + 1
             n == To(i)
  <2>2. m \in Int /\ n \in Int /\ m >= 1 /\ n <= L /\ n <= Off(i) + BATCH
    BY <1>3
  <2>3. \A j \in m..n : slice[j] \in T
    <3> HIDE DEF m, n, L
    <3> QED BY <1>1, <2>2
  <2>4. /\ SubSeq(slice, m, n) \in Seq(T)
        /\ Len(SubSeq(slice, m, n)) = IF m <= n THEN n - m + 1 ELSE 0
        /\ \A a \in 1..(n - m + 1) : SubSeq(slice, m, n)[a] = slice[m + a - 1]
    <3> HIDE DEF m, n
    <3> QED BY <2>2, <2>3, SubSeqProperties
  <2> DEFINE k == Off(i)
             b == bs[i]
  <2>5. /\ b \in Seq(T) /\ Len(b) = IF m <= n THEN n - m + 1 ELSE 0
        /\ \A a \in 1..(n - m + 1) : b[a] = slice[m + a - 1]
    BY <2>1, <2>4
  <2>6. /\ m = k + 1 /\ k \in Nat /\ n \in Int /\ n <= L /\ n <= k + BATCH
        /\ (k + BATCH <= L => n = k + BATCH) /\ (~(k + BATCH <= L) => n = L)
    BY <1>3, <2>2
  <2> HIDE DEF m, n, k, b, L, bs
  <2>7. \A a \in 1..Len(b) : a \in 1..(n - m + 1) /\ m + a - 1 = k + a
    BY <2>5, <2>6
  <2>8. \A a \in 1..Len(b) : b[a] = slice[k + a] /\ k + a \in 1..L /\ a <= BATCH
    BY <1>1, <2>5, <2>6, <2>7
  <2>9. \A p \in 1..L : k < p /\ p <= k + BATCH => p - k \in 1..Len(b)
    BY <1>1, <2>5, <2>6
  <2> QED BY <2>5, <2>8, <2>9 DEF k, b
<1>5. bs \in Seq(Seq(T)) /\ Len(bs) = N
  <2>1. bs \in [1..N -> Seq(T)]
    <3>1. bs = [i \in 1..N |-> bs[i]]
      BY DEF Batches, N
    <3> HIDE DEF bs
    <3> QED BY <1>4, <3>1
  <2> HIDE DEF bs
  <2> QED BY <1>2, <2>1, FunctionIsSeq
<1>6. Holds(slice, bs, Len(bs))
  <2>1. ASSUME NEW p \in 1..L
        PROVE  \E i \in 1..N : \E a \in 1..Len(bs[i]) : slice[p] = bs[i][a]
    <3> DEFINE q == (p - 1) \div BATCH
    <3>1. q \in Nat /\ q * BATCH <= p - 1 /\ p - 1 < (q + 1) * BATCH
      BY <1>1
    <3> HIDE DEF q
    <3>2. q + 1 <= N
      <4> SUFFICES ASSUME N + 1 <= q + 1 PROVE FALSE
        BY <1>2, <3>1
      <4>1. (N + 1) * BATCH <= (q + 1) * BATCH
        BY <1>1, <1>2, <3>1, Scaled
      <4>2. (q + 1) * BATCH = q * BATCH + BATCH /\ q * BATCH \in Nat /\ (N + 1) * BATCH \in Nat
        BY <1>1, <1>2, <3>1
      <4> HIDE DEF L
      <4> QED BY <1>1, <1>2, <3>1, <4>1, <4>2
    <3> DEFINE i == q + 1
    <3>3. i \in 1..N /\ i - 1 = q
      BY <1>2, <3>1, <3>2
    <3>4. Off(i) = q * BATCH /\ q * BATCH \in Nat /\ (q + 1) * BATCH = q * BATCH + BATCH
      BY <1>1, <3>1, <3>3
    <3> HIDE DEF i
    <3>5. Off(i) \in Nat /\ Off(i) < p /\ p <= Off(i) + BATCH
      BY <1>1, <3>1, <3>4
    <3> HIDE DEF Off, bs
    <3>6. p - Off(i) \in 1..Len(bs[i]) /\ Off(i) + (p - Off(i)) = p
      BY <1>4, <3>3, <3>5
    <3>7. bs[i][p - Off(i)] = slice[p]
      BY <1>4, <3>3, <3>6
    <3> QED BY <3>3, <3>6, <3>7
  <2>2. ASSUME NEW i \in 1..N, NEW a \in 1..Len(bs[i])
        PROVE  \E p \in 1..L : slice[p] = bs[i][a]
    <3> HIDE DEF Off, bs
    <3> QED BY <1>4
  <2> HIDE DEF bs
  <2> QED BY <1>5, <2>1, <2>2 DEF Holds
<1>7. ASSUME Rising(slice, R), NEW i \in 1..N, NEW j \in 1..N,
             NEW a \in 1..Len(bs[i]), NEW c \in 1..Len(bs[j]),
             i < j \/ (i = j /\ a < c)
      PROVE  <<bs[i][a], bs[j][c]>> \in R
  <2> HIDE DEF bs
  <2>1. /\ bs[i][a] = slice[Off(i) + a] /\ Off(i) + a \in 1..L /\ a <= BATCH
        /\ bs[j][c] = slice[Off(j) + c] /\ Off(j) + c \in 1..L
    BY <1>4
  <2>2. Off(i) \in Nat /\ Off(j) \in Nat /\ a \in Nat /\ c \in Nat /\ 1 <= c
    BY <1>3, <1>4
  <2>3. Off(i) + a < Off(j) + c
    <3>1. CASE i = j
      <4> HIDE DEF Off
      <4> QED BY <1>7, <2>2, <3>1
    <3>2. CASE i < j
      <4>1. i \in Nat /\ j - 1 \in Nat /\ i <= j - 1
        BY <1>2, <3>2
      <4>2. i * BATCH <= (j - 1) * BATCH
        BY <1>1, <4>1, Scaled
      <4>3. Off(i) + BATCH <= Off(j)
        BY <1>3, <4>2
      <4> HIDE DEF Off
      <4> QED BY <1>1, <2>1, <2>2, <4>3
    <3> QED BY <1>7, <3>1, <3>2
  <2> HIDE DEF Off
  <2> QED BY <1>7, <2>1, <2>3 DEF Rising
<1> HIDE DEF bs
<1>8. Rising(slice, R) => Layered(bs, R)
  BY <1>5, <1>7 DEF Layered
<1> QED
  BY <1>5, <1>6, <1>8 DEF bs

-----------------------------------------------------------------------------
\* One hop of rawFetch, and the function Hops is computed by, up to m.
Hop(s, chain) ==
  LET next == s.redirect[Last(chain)]
  IN IF next = None \/ next \in Range(chain) \/ Last(chain) \in s.refused
     THEN chain ELSE Append(chain, next)

Chains(g, s, u, m) == g = [n \in 0..m |-> IF n = 0 THEN <<u>> ELSE Hop(s, g[n - 1])]

\* A chain, one hop at a time.
LEMMA ChainAt ==
  ASSUME NEW g, NEW s, NEW u, NEW m \in Nat, Chains(g, s, u, m), NEW n \in 0..m
  PROVE  g[n] = IF n = 0 THEN <<u>> ELSE Hop(s, g[n - 1])
  BY DEF Chains

\* Such a function exists.
LEMMA ChainExists ==
  ASSUME NEW s, NEW u, NEW m \in Nat
  PROVE  \E g : Chains(g, s, u, m)
<1> DEFINE Bad == {k \in Nat : ~\E g : Chains(g, s, u, k)}
<1>1. SUFFICES ASSUME Bad # {} PROVE FALSE
  BY <1>1
<1>2. PICK k \in Bad : \A j \in Bad : k <= j
  <2>1. Bad \in SUBSET Nat
    OBVIOUS
  <2> HIDE DEF Bad
  <2> QED BY <1>1, <2>1, SmallestNumber
<1>3. k # 0
  <2> DEFINE g == [n \in 0..0 |-> <<u>>]
  <2>1. Chains(g, s, u, 0)
    BY DEF Chains
  <2> QED BY <2>1
<1>4. k - 1 \in Nat /\ k - 1 \notin Bad
  BY <1>2, <1>3
<1>5. PICK h : Chains(h, s, u, k - 1)
  BY <1>4
<1> DEFINE g == [n \in 0..k |-> IF n = k THEN Hop(s, h[k - 1]) ELSE h[n]]
<1>6. ASSUME NEW n \in 0..k
      PROVE  g[n] = IF n = 0 THEN <<u>> ELSE Hop(s, g[n - 1])
  <2>1. CASE n = k
    <3>1. g[k] = Hop(s, h[k - 1]) /\ g[k - 1] = h[k - 1]
      BY <1>3, <1>4
    <3> HIDE DEF g
    <3> QED BY <1>3, <2>1, <3>1
  <2>2. CASE n # k
    <3>1. n \in 0..(k - 1)
      BY <1>4, <2>2
    <3>2. h[n] = IF n = 0 THEN <<u>> ELSE Hop(s, h[n - 1])
      BY <1>4, <1>5, <3>1, ChainAt
    <3>3. g[n] = h[n] /\ (n # 0 => g[n - 1] = h[n - 1])
      BY <2>2, <3>1
    <3> HIDE DEF g
    <3> QED BY <3>2, <3>3
  <2> QED BY <2>1, <2>2
<1>7. g = [n \in 0..k |-> g[n]]
  OBVIOUS
<1>8. Chains(g, s, u, k)
  <2> HIDE DEF g
  <2> QED BY <1>6, <1>7 DEF Chains
<1> QED
  <2> HIDE DEF g
  <2> QED BY <1>2, <1>8

\* A hop stays among the addresses of the site.
LEMMA HopTyped ==
  ASSUME NEW s \in Site, NEW chain \in Seq(Url), chain # <<>>
  PROVE  Hop(s, chain) \in Seq(Url) /\ Hop(s, chain) # <<>>
<1>1. Len(chain) \in Nat \ {0}
  BY EmptySeq
<1>2. Last(chain) \in Url
  BY <1>1, ElementOfSeq DEF Last
<1>3. s.redirect[Last(chain)] \in Url \cup {None}
  BY <1>2 DEF Site
<1>4. CASE Hop(s, chain) = chain
  BY <1>4
<1>5. CASE Hop(s, chain) # chain
  <2>1. Hop(s, chain) = Append(chain, s.redirect[Last(chain)]) /\ s.redirect[Last(chain)] \in Url
    BY <1>3, <1>5 DEF Hop
  <2> QED BY <2>1
<1> QED
  BY <1>4, <1>5

\* The addresses requested in turn are addresses, and there is one.
LEMMA HopsTyped ==
  ASSUME NEW s \in Site, NEW u \in Url
  PROVE  Hops(s, u) \in Seq(Url) /\ Last(Hops(s, u)) \in Url
<1> DEFINE M == MAX_REDIRECTS
           g == CHOOSE h : Chains(h, s, u, M)
           Good(n) == g[n] \in Seq(Url) /\ g[n] # <<>>
           Bad == {n \in Nat : n <= M /\ ~Good(n)}
<1>1. M \in Nat
  BY CrawlAssumption
<1>2. Chains(g, s, u, M)
  BY <1>1, ChainExists
<1>3. Hops(s, u) = g[M]
  BY DEF Hops, Chains, Hop
<1>4. Bad = {}
  <2> SUFFICES ASSUME Bad # {} PROVE FALSE
    OBVIOUS
  <2>1. PICK n \in Bad : \A m \in Bad : n <= m
    <3>1. Bad \in SUBSET Nat
      OBVIOUS
    <3> HIDE DEF Bad
    <3> QED BY <3>1, SmallestNumber
  <2>2. n \in 0..M /\ ~Good(n)
    BY <1>1
  <2> HIDE DEF g
  <2>3. g[n] = IF n = 0 THEN <<u>> ELSE Hop(s, g[n - 1])
    BY <1>1, <1>2, <2>2, ChainAt
  <2>4. n # 0
    BY <2>2, <2>3
  <2>5. Good(n - 1)
    <3>1. n - 1 \in Nat /\ n - 1 <= M /\ ~(n <= n - 1)
      BY <1>1, <2>2, <2>4
    <3> QED BY <2>1, <3>1
  <2> QED BY <2>2, <2>3, <2>4, <2>5, HopTyped
<1>5. Good(M)
  <2>1. M \notin Bad /\ M <= M
    BY <1>1, <1>4
  <2> HIDE DEF g
  <2> QED BY <1>1, <2>1
<1> HIDE DEF g
<1>6. Hops(s, u) \in Seq(Url) /\ Len(Hops(s, u)) \in Nat \ {0}
  BY <1>3, <1>5, EmptySeq
<1> QED
  BY <1>6, ElementOfSeq DEF Last

\* A prefix: its elements, in their order.
LEMMA Prefix ==
  ASSUME NEW T, NEW s \in Seq(T), NEW n \in Nat, n <= Len(s)
  PROVE  /\ SubSeq(s, 1, n) \in Seq(T) /\ Len(SubSeq(s, 1, n)) = n
         /\ Len(s) \in Nat /\ \A i \in 1..n : SubSeq(s, 1, n)[i] = s[i]
<1>1. Len(s) \in Nat /\ \A i \in 1..n : s[i] \in T
  <2>1. Len(s) \in Nat
    BY LenProperties
  <2> QED BY <2>1, ElementOfSeq
<1>2. /\ SubSeq(s, 1, n) \in Seq(T)
      /\ Len(SubSeq(s, 1, n)) = IF 1 <= n THEN n - 1 + 1 ELSE 0
      /\ \A i \in 1..(n - 1 + 1) : SubSeq(s, 1, n)[i] = s[1 + i - 1]
  BY <1>1, SubSeqProperties
<1>3. n - 1 + 1 = n /\ \A i \in 1..n : 1 + i - 1 = i
  OBVIOUS
<1> QED
  BY <1>1, <1>2, <1>3

\* slice(0, m): what is taken, and in which order.
Least(m, n) == IF m < n THEN m ELSE n

\* The addresses the sitemaps name are addresses.
LEMMA EntriesTyped ==
  ASSUME NEW s \in Site
  PROVE  sitemapEntries(s) \in Seq(Url)
<1> DEFINE looked == SubSeq(s.sitemaps, 1, Least(Len(s.sitemaps), MaxSitemaps))
           children(m) == SubSeq(m, 1, Least(Len(m), MaxChildren))
           parts == [i \in DOMAIN looked |-> FlattenSeq(children(looked[i]))]
<1>1. s.sitemaps \in Seq(Seq(Seq(Url))) /\ MaxSitemaps \in Nat /\ MaxChildren \in Nat
  BY CrawlAssumption DEF Site
<1>2. looked \in Seq(Seq(Seq(Url)))
  <2> DEFINE n == Least(Len(s.sitemaps), MaxSitemaps)
  <2>1. Len(s.sitemaps) \in Nat
    BY <1>1, LenProperties
  <2>2. n \in Nat /\ n <= Len(s.sitemaps)
    BY <1>1, <2>1 DEF Least
  <2> HIDE DEF n
  <2>3. SubSeq(s.sitemaps, 1, n) \in Seq(Seq(Seq(Url)))
    BY <1>1, <2>2, Prefix
  <2> QED BY <2>3 DEF n
<1>3. ASSUME NEW m \in Seq(Seq(Url))
      PROVE  FlattenSeq(children(m)) \in Seq(Url)
  <2> DEFINE n == Least(Len(m), MaxChildren)
  <2>1. Len(m) \in Nat
    BY LenProperties
  <2>2. n \in Nat /\ n <= Len(m)
    BY <1>1, <2>1 DEF Least
  <2> HIDE DEF n
  <2>3. SubSeq(m, 1, n) \in Seq(Seq(Url))
    BY <2>2, Prefix
  <2>4. FlattenSeq(SubSeq(m, 1, n)) \in Seq(Url)
    BY <2>3, FlattenIs
  <2> QED BY <2>4 DEF n
<1> HIDE DEF looked
<1>4. DOMAIN looked = 1..Len(looked) /\ Len(looked) \in Nat
      /\ \A i \in 1..Len(looked) : looked[i] \in Seq(Seq(Url))
  BY <1>2, LenProperties, ElementOfSeq
<1>5. parts \in [1..Len(looked) -> Seq(Url)]
  <2> HIDE DEF children
  <2> QED BY <1>3, <1>4
<1>6. parts \in Seq(Seq(Url))
  <2> HIDE DEF parts
  <2> QED BY <1>4, <1>5, FunctionIsSeq
<1>7. FlattenSeq(parts) \in Seq(Url)
  <2> HIDE DEF parts
  <2> QED BY <1>6, FlattenIs
<1>8. sitemapEntries(s) = FlattenSeq(parts)
  BY DEF sitemapEntries, Least, looked
<1> QED
  BY <1>7, <1>8

\* What is behind an address of a site is read from the site.
LEMMA ReadsTyped ==
  ASSUME NEW s \in Sites
  PROVE  /\ s.home \in Url /\ sitemapEntries(s) \in Seq(Url)
         /\ \A u \in Url : Reads[s][u] \in Seq(Url)
<1>1. s \in Site
  BY SitesAssumption
<1>2. ASSUME NEW u \in Url PROVE fetchPage(s, u) \in Seq(Url)
  <2>1. Last(Hops(s, u)) \in Url
    BY <1>1, HopsTyped
  <2>2. s.links[Last(Hops(s, u))] \in Seq(Url)
    BY <1>1, <2>1 DEF Site
  <2> QED BY <2>2, EmptySeq DEF fetchPage
<1>3. \A u \in Url : Reads[s][u] = fetchPage(s, u)
  BY DEF Reads
<1>4. s.home \in Url
  BY <1>1 DEF Site
<1> QED
  BY <1>1, <1>2, <1>3, <1>4, EntriesTyped

-----------------------------------------------------------------------------
\* The invariant.  An address that was discovered is recorded, in flight,
\* waiting in the frontier, or lost to the crawl: taken off the frontier
\* beyond the room left, or dropped with it by a refusal.
Flight == {u \in Url : \E b \in 1..Len(round.batches) :
                         \E a \in 1..Len(round.batches[b]) : round.batches[b][a] = u}

Waiting == {u \in Url : \E i \in 1..Len(frontier) : frontier[i] = u}

Held == Recorded \cup Flight \cup Waiting

\* Two addresses, the first no deeper than the second.
Sooner(d) == {uv \in Url \X Url : uv[1] # uv[2] /\ d[uv[1]] <= d[uv[2]]}

How == {"fetched", "blocked", "lost"}

PageOf == [url : Url, depth : Nat, how : How]

Found == [url : Url, how : How, links : Seq(Url)]

CrawlTypes ==
  /\ site \in Sites
  /\ phase \in {"discovering", "crawling", "waiting", "done", "failed"}
  /\ pages \in Seq(PageOf)
  /\ seen \in SUBSET Url /\ depths \in [Url -> 0..maxDepth]
  /\ frontier \in Seq(Url)
  /\ round \in [sent : Nat, batches : Seq(Seq(Url))]
  /\ answers \in [1..Len(round.batches) -> {None} \cup [capped : BOOLEAN, pages : Seq(Found)]]
  /\ capped \in BOOLEAN /\ granted \in Nat \ {0}

\* A batch is answered with its own pages, and fetched under some ceiling.
Answered ==
  \A b \in 1..Len(round.batches) :
    \/ answers[b] \in {None, Refusal, Lost(round.batches[b])}
    \/ answers[b] = Fetched(round.batches[b]) /\ round.sent < granted

Phased ==
  /\ phase = "discovering" =>
       pages = <<>> /\ seen = {} /\ frontier = <<>> /\ ~capped /\ depths = [u \in Url |-> 0]
  /\ phase \in {"crawling", "waiting", "done"} => pages # <<>>
  /\ phase # "waiting" => round.batches = <<>>
  /\ phase = "waiting" => ~capped /\ round.sent = Len(pages)
  /\ phase = "crawling" /\ capped => frontier = <<>>
  /\ phase = "done" /\ ~capped => frontier = <<>>

\* No address is in two places, or twice in one, and the queue the batches
\* and the frontier make up goes down level by level.
Queued ==
  /\ \A i, j \in 1..Len(pages) : i # j => pages[i].url # pages[j].url
  /\ Recorded \cap Flight = {} /\ Recorded \cap Waiting = {} /\ Flight \cap Waiting = {}
  /\ Held \subseteq seen
  /\ Rising(frontier, Sooner(depths)) /\ Layered(round.batches, Sooner(depths))
  /\ \A u \in Flight, v \in Waiting : depths[u] <= depths[v]

\* Nothing held is more than a level below what is still to be read, and
\* everything a page links to that could be accepted has been.
Levels ==
  /\ \A i \in 1..Len(pages) : pages[i].depth = depths[pages[i].url]
  /\ \A u \in Flight \cup Waiting, v \in Held : depths[v] <= depths[u] + 1
  /\ \A j \in 1..Len(pages) : pages[j].how = "fetched" =>
       \A v \in Range(Reads[site][pages[j].url]) :
         /\ v \in Held => depths[v] <= depths[pages[j].url] + 1
         /\ v \notin seen => ~crawlable(site, v) \/ depths[pages[j].url] = maxDepth

\* There is room for what is in flight, which is at most a round.
Room ==
  /\ IsFiniteSet(Flight)
  /\ Len(pages) + Cardinality(Flight) <= maxPages
  /\ Cardinality(Flight) <= BATCH * PARALLEL

Accounted == ~capped => seen \subseteq Held \cup truncated

CrawlInv == /\ CrawlTypes /\ Answered /\ Phased /\ Queued /\ Levels /\ Room /\ Accounted
            /\ FetchedWithinPlan

-----------------------------------------------------------------------------
\* The batches of a slice with what robots.txt allows, and those sent.
KeptOf(slice) == [i \in DOMAIN Batches(slice) |->
                    Sift(Batches(slice)[i], Allowed(Batches(slice)[i]))]

SentOf(slice) == Sift(KeptOf(slice), {i \in DOMAIN KeptOf(slice) : KeptOf(slice)[i] # <<>>})

\* A round: the batches sent have the allowed addresses of the slice, in order.
LEMMA SentIs ==
  ASSUME NEW slice \in Seq(Url), NEW R, Rising(slice, R)
  PROVE  /\ SentOf(slice) \in Seq(Seq(Url)) /\ Layered(SentOf(slice), R)
         /\ \A b \in 1..Len(SentOf(slice)) : \A a \in 1..Len(SentOf(slice)[b]) :
              \E p \in Allowed(slice) : slice[p] = SentOf(slice)[b][a]
         /\ \A p \in Allowed(slice) :
              \E b \in 1..Len(SentOf(slice)) : \E a \in 1..Len(SentOf(slice)[b]) :
                slice[p] = SentOf(slice)[b][a]
<1> DEFINE bs == Batches(slice)
           kept == KeptOf(slice)
           sent == SentOf(slice)
           full == {i \in DOMAIN kept : kept[i] # <<>>}
<1>1. bs \in Seq(Seq(Url)) /\ Holds(slice, bs, Len(bs)) /\ Layered(bs, R)
  BY BatchesAre
<1> HIDE DEF bs, kept, sent, full
<1>2. /\ Len(bs) \in Nat /\ DOMAIN bs = 1..Len(bs)
      /\ \A i \in 1..Len(bs) : bs[i] \in Seq(Url) /\ DOMAIN bs[i] = 1..Len(bs[i])
  BY <1>1, LenProperties, ElementOfSeq
<1>3. ASSUME NEW i \in 1..Len(bs)
      PROVE  /\ kept[i] \in Seq(Url) /\ Follows(kept[i], bs[i], Allowed(bs[i]))
             /\ Allowed(bs[i]) \in SUBSET (1..Len(bs[i]))
             /\ Len(kept[i]) \in Nat
  <2>1. Allowed(bs[i]) \in SUBSET (1..Len(bs[i]))
    BY <1>2 DEF Allowed
  <2>2. kept[i] = Sift(bs[i], Allowed(bs[i]))
    BY <1>2 DEF bs, kept, KeptOf
  <2>3. kept[i] \in Seq(Url) /\ Follows(kept[i], bs[i], Allowed(bs[i]))
    BY <1>2, <2>1, <2>2, SiftFollows
  <2> QED BY <2>1, <2>3, LenProperties
<1>4. kept \in Seq(Seq(Url)) /\ Len(kept) = Len(bs) /\ DOMAIN kept = 1..Len(bs)
  <2>1. kept = [i \in 1..Len(bs) |-> kept[i]]
    BY <1>2 DEF bs, kept, KeptOf
  <2>2. kept \in [1..Len(bs) -> Seq(Url)]
    BY <1>3, <2>1
  <2> QED BY <1>2, <2>2, FunctionIsSeq
<1>5. ASSUME NEW i \in 1..Len(bs), NEW j \in 1..Len(bs),
             NEW a \in 1..Len(kept[i]), NEW c \in 1..Len(kept[j]),
             i < j \/ (i = j /\ a < c)
      PROVE  <<kept[i][a], kept[j][c]>> \in R
  <2>1. CASE i < j
    <3>1. PICK x \in Allowed(bs[i]) : kept[i][a] = bs[i][x]
      BY <1>3 DEF Follows
    <3>2. PICK y \in Allowed(bs[j]) : kept[j][c] = bs[j][y]
      BY <1>3 DEF Follows
    <3>3. x \in 1..Len(bs[i]) /\ y \in 1..Len(bs[j])
      BY <1>3
    <3>4. <<bs[i][x], bs[j][y]>> \in R
      BY <1>1, <2>1, <3>3 DEF Layered
    <3> QED BY <3>1, <3>2, <3>4
  <2>2. CASE i = j /\ a < c
    <3>1. PICK x \in Allowed(bs[i]), y \in Allowed(bs[i]) :
                  x < y /\ kept[i][a] = bs[i][x] /\ kept[i][c] = bs[i][y]
      BY <1>3, <2>2 DEF Follows
    <3>2. x \in 1..Len(bs[i]) /\ y \in 1..Len(bs[i])
      BY <1>3
    <3>3. <<bs[i][x], bs[i][y]>> \in R
      BY <1>1, <3>1, <3>2 DEF Layered
    <3> QED BY <2>2, <3>1, <3>3
  <2> QED BY <1>5, <2>1, <2>2
<1>6. full \in SUBSET (1..Len(kept))
  BY <1>4 DEF full
<1>7. sent \in Seq(Seq(Url)) /\ Follows(sent, kept, full)
  <2>1. sent = Sift(kept, full)
    BY DEF full, kept, sent, SentOf
  <2> QED BY <1>4, <1>6, <2>1, SiftFollows
<1>8. ASSUME NEW b \in 1..Len(sent), NEW d \in 1..Len(sent),
             NEW a \in 1..Len(sent[b]), NEW c \in 1..Len(sent[d]),
             b < d \/ (b = d /\ a < c)
      PROVE  <<sent[b][a], sent[d][c]>> \in R
  <2>1. CASE b < d
    <3>1. PICK i \in full, j \in full : i < j /\ sent[b] = kept[i] /\ sent[d] = kept[j]
      BY <1>7, <2>1 DEF Follows
    <3>2. i \in 1..Len(bs) /\ j \in 1..Len(bs)
      BY <1>4, <1>6
    <3> QED BY <1>5, <3>1, <3>2
  <2>2. CASE b = d /\ a < c
    <3>1. PICK i \in full : sent[b] = kept[i]
      BY <1>7 DEF Follows
    <3>2. i \in 1..Len(bs)
      BY <1>4, <1>6
    <3> QED BY <1>5, <2>2, <3>1, <3>2
  <2> QED BY <1>8, <2>1, <2>2
<1>9. Layered(sent, R)
  BY <1>8 DEF Layered
<1>10. Len(slice) \in Nat /\ DOMAIN slice = 1..Len(slice)
  BY LenProperties
<1>11. ASSUME NEW b \in 1..Len(sent), NEW a \in 1..Len(sent[b])
       PROVE  \E p \in Allowed(slice) : slice[p] = sent[b][a]
  <2>1. PICK i \in full : sent[b] = kept[i]
    BY <1>7 DEF Follows
  <2>2. i \in 1..Len(bs)
    BY <1>4, <1>6
  <2>3. PICK x \in Allowed(bs[i]) : kept[i][a] = bs[i][x]
    <3>1. Follows(kept[i], bs[i], Allowed(bs[i])) /\ a \in 1..Len(kept[i])
      BY <1>3, <2>1, <2>2
    <3> QED BY <3>1 DEF Follows
  <2>4. x \in 1..Len(bs[i]) /\ bs[i][x] \notin site.disallowed
    BY <1>3, <2>2, <2>3 DEF Allowed
  <2>5. PICK p \in 1..Len(slice) : slice[p] = bs[i][x]
    BY <1>1, <2>2, <2>4 DEF Holds
  <2>6. p \in Allowed(slice)
    BY <1>10, <2>4, <2>5 DEF Allowed
  <2> QED BY <2>1, <2>3, <2>5, <2>6
<1>12. ASSUME NEW p \in Allowed(slice)
       PROVE  \E b \in 1..Len(sent) : \E a \in 1..Len(sent[b]) : slice[p] = sent[b][a]
  <2>1. p \in 1..Len(slice) /\ slice[p] \notin site.disallowed
    BY <1>10 DEF Allowed
  <2>2. PICK i \in 1..Len(bs) : \E x \in 1..Len(bs[i]) : slice[p] = bs[i][x]
    BY <1>1, <2>1 DEF Holds
  <2>3. PICK x \in 1..Len(bs[i]) : slice[p] = bs[i][x]
    BY <2>2
  <2>4. x \in Allowed(bs[i])
    BY <1>2, <2>1, <2>3 DEF Allowed
  <2>5. PICK a \in 1..Len(kept[i]) : kept[i][a] = bs[i][x]
    BY <1>3, <2>4 DEF Follows
  <2>6. kept[i] # <<>>
    BY <1>3, <2>5, EmptySeq
  <2>7. i \in full
    BY <1>4, <2>6 DEF full
  <2>8. PICK b \in 1..Len(sent) : sent[b] = kept[i]
    BY <1>7, <2>7 DEF Follows
  <2> QED BY <2>3, <2>5, <2>8
<1> QED
  BY <1>7, <1>9, <1>11, <1>12 DEF sent

-----------------------------------------------------------------------------
Offer == [url : Url, depth : Nat]

\* Two offers, the first no deeper than the second.
Shallower == {op \in Offer \X Offer : op[1].depth <= op[2].depth}

\* What offers are made of.
LEMMA OffersTyped ==
  ASSUME NEW s \in Seq(Offer)
  PROVE  /\ Len(s) \in Nat /\ DOMAIN s = 1..Len(s)
         /\ \A i \in 1..Len(s) : s[i] \in Offer /\ s[i].url \in Url /\ s[i].depth \in Nat
<1>1. Len(s) \in Nat /\ DOMAIN s = 1..Len(s) /\ \A i \in 1..Len(s) : s[i] \in Offer
  BY LenProperties, ElementOfSeq
<1>2. \A o \in Offer : o.url \in Url /\ o.depth \in Nat
  BY DEF Offer
<1> QED
  BY <1>1, <1>2

\* enqueue accepts an offer or one before it of the same address, unless it
\* is known, skipped or too deep.
LEMMA AcceptedFirst ==
  ASSUME NEW known, NEW offers \in Seq(Offer), Rising(offers, Shallower),
         NEW k \in 1..Len(offers), offers[k].url \notin known,
         crawlable(site, offers[k].url), offers[k].depth <= maxDepth
  PROVE  \E j \in Accepted(known, offers) : offers[j].url = offers[k].url
<1> DEFINE Same == {j \in Nat : 1 <= j /\ j <= Len(offers) /\ offers[j].url = offers[k].url}
<1>1. /\ Len(offers) \in Nat /\ DOMAIN offers = 1..Len(offers)
      /\ \A i \in 1..Len(offers) : offers[i] \in Offer
  BY LenProperties, ElementOfSeq
<1>2. PICK j \in Same : \A i \in Same : j <= i
  <2>1. Same \in SUBSET Nat /\ k \in Same
    BY <1>1
  <2> HIDE DEF Same
  <2> QED BY <2>1, SmallestNumber
<1>3. j \in 1..Len(offers) /\ offers[j].url = offers[k].url /\ j <= k
  BY <1>1, <1>2
<1>4. offers[j].depth <= offers[k].depth
  <2>1. CASE j = k
    BY <1>1, <2>1 DEF Offer
  <2>2. CASE j # k
    <3>1. <<offers[j], offers[k]>> \in Shallower
      BY <1>1, <1>3, <2>2 DEF Rising
    <3> QED BY <3>1 DEF Shallower
  <2> QED BY <2>1, <2>2
<1>5. offers[j].depth <= maxDepth
  <2>1. offers[j].depth \in Nat /\ offers[k].depth \in Nat /\ maxDepth \in Nat
    BY <1>1, <1>3, CrawlAssumption DEF Offer
  <2> QED BY <1>4, <2>1
<1>6. \A i \in 1..(j - 1) : offers[i].url # offers[j].url
  <2> SUFFICES ASSUME NEW i \in 1..(j - 1), offers[i].url = offers[j].url PROVE FALSE
    OBVIOUS
  <2>1. i \in Same /\ ~(j <= i)
    BY <1>1, <1>3
  <2> QED BY <1>2, <2>1
<1>7. j \in Accepted(known, offers)
  BY <1>1, <1>3, <1>5, <1>6 DEF Accepted
<1> QED
  BY <1>3, <1>7

\* What enqueue accepts, at which depth, and in which order.
Enqueued(known, waiting, offers) ==
  /\ seen' \in SUBSET Url /\ known \subseteq seen'
  /\ depths' \in [Url -> 0..maxDepth]
  /\ \A u \in Url : u \notin seen' \ known => depths'[u] = depths[u]
  /\ \A u \in seen' \ known :
       \E k \in 1..Len(offers) : /\ offers[k].url = u /\ offers[k].depth = depths'[u]
                                 /\ crawlable(site, u)
                                 /\ \A j \in 1..Len(offers) :
                                      offers[j].url = u => depths'[u] <= offers[j].depth
  /\ \A k \in 1..Len(offers) :
       \/ offers[k].url \in seen' \/ ~crawlable(site, offers[k].url)
       \/ ~(offers[k].depth <= maxDepth)
  /\ \E new \in Seq(Url) :
       /\ frontier' = waiting \o new
       /\ \A i \in 1..Len(new) : new[i] \in seen' \ known
       /\ \A u \in seen' \ known : \E i \in 1..Len(new) : new[i] = u
       /\ Rising(new, Sooner(depths'))

\* enqueue does.
LEMMA EnqueueIs ==
  ASSUME NEW known \in SUBSET Url, NEW waiting \in Seq(Url), NEW offers \in Seq(Offer),
         Rising(offers, Shallower), depths \in [Url -> 0..maxDepth],
         Enqueue(known, waiting, offers)
  PROVE  Enqueued(known, waiting, offers)
<1> DEFINE acc == Accepted(known, offers)
           added == Sift(offers, acc)
           new == [i \in DOMAIN added |-> added[i].url]
<1>1. /\ Len(offers) \in Nat /\ DOMAIN offers = 1..Len(offers)
      /\ \A i \in 1..Len(offers) : offers[i] \in Offer /\ offers[i].url \in Url /\ offers[i].depth \in Nat
  BY OffersTyped
<1>2. /\ seen' = known \cup {added[i].url : i \in DOMAIN added}
      /\ depths' = [u \in Url |->
                      IF \E i \in DOMAIN added : added[i].url = u
                      THEN added[CHOOSE i \in DOMAIN added : added[i].url = u].depth
                      ELSE depths[u]]
      /\ frontier' = waiting \o new
  BY DEF Enqueue
<1>3. /\ acc \in SUBSET (1..Len(offers))
      /\ \A k \in acc : /\ offers[k].url \notin known /\ crawlable(site, offers[k].url)
                        /\ offers[k].depth <= maxDepth
                        /\ \A j \in 1..(k - 1) : offers[j].url # offers[k].url
  BY <1>1 DEF Accepted
<1> HIDE DEF acc
<1>4. added \in Seq(Offer) /\ Follows(added, offers, acc)
  BY <1>3, SiftFollows
<1> HIDE DEF added
<1>5. /\ Len(added) \in Nat /\ DOMAIN added = 1..Len(added)
      /\ \A i \in 1..Len(added) : added[i] \in Offer /\ added[i].url \in Url /\ added[i].depth \in Nat
  BY <1>4, OffersTyped
<1>6. ASSUME NEW k \in acc, NEW j \in 1..Len(offers), offers[j].url = offers[k].url
      PROVE  offers[k].depth <= offers[j].depth
  <2>1. k \in 1..Len(offers) /\ j \notin 1..(k - 1)
    BY <1>3, <1>6
  <2>2. CASE j = k
    BY <1>1, <2>2
  <2>3. CASE j # k
    <3>1. k < j
      BY <1>1, <2>1, <2>3
    <3>2. <<offers[k], offers[j]>> \in Shallower
      BY <2>1, <3>1 DEF Rising
    <3> QED BY <3>2 DEF Shallower
  <2> QED BY <2>2, <2>3
<1>7. ASSUME NEW i \in 1..Len(added), NEW j \in 1..Len(added), i < j
      PROVE  added[i].url # added[j].url /\ added[i].depth <= added[j].depth
  <2>1. PICK k \in acc, l \in acc : k < l /\ added[i] = offers[k] /\ added[j] = offers[l]
    BY <1>4, <1>7 DEF Follows
  <2>2. k \in 1..Len(offers) /\ l \in 1..Len(offers) /\ k \in 1..(l - 1)
    BY <1>1, <1>3, <2>1
  <2>3. offers[k].url # offers[l].url
    BY <1>3, <2>2
  <2>4. <<offers[k], offers[l]>> \in Shallower
    BY <2>1, <2>2 DEF Rising
  <2> QED BY <2>1, <2>3, <2>4 DEF Shallower
<1>8. ASSUME NEW i \in 1..Len(added)
      PROVE  /\ added[i].url \in seen' \ known
             /\ depths'[added[i].url] = added[i].depth
             /\ added[i].depth <= maxDepth
             /\ \E k \in acc : added[i] = offers[k]
  <2>1. PICK k \in acc : added[i] = offers[k]
    BY <1>4 DEF Follows
  <2>2. added[i].url \notin known /\ added[i].depth <= maxDepth
    BY <1>3, <2>1
  <2> DEFINE u == added[i].url
             p == CHOOSE j \in 1..Len(added) : added[j].url = u
  <2>3. u \in Url /\ p \in 1..Len(added) /\ added[p].url = u
    BY <1>5
  <2>4. depths'[u] = added[p].depth
    BY <1>2, <1>5, <2>3
  <2> HIDE DEF p
  <2>5. p = i
    <3>1. p \in Nat /\ i \in Nat
      BY <1>5, <2>3
    <3>2. ~(p < i) /\ ~(i < p)
      BY <1>7, <2>3
    <3> QED BY <3>1, <3>2
  <2>6. u \in seen'
    BY <1>2, <1>5
  <2> QED BY <2>1, <2>2, <2>4, <2>5, <2>6
<1>9. ASSUME NEW u \in seen' \ known
      PROVE  \E i \in 1..Len(added) : added[i].url = u
  BY <1>2, <1>5
<1>10. seen' \in SUBSET Url /\ known \subseteq seen'
  BY <1>2, <1>5
<1>11. ASSUME NEW u \in Url, u \notin seen' \ known
       PROVE  depths'[u] = depths[u]
  <2>1. ~\E i \in DOMAIN added : added[i].url = u
    BY <1>5, <1>8, <1>11
  <2> QED BY <1>2, <2>1
<1>12. depths' \in [Url -> 0..maxDepth]
  <2>1. depths' = [u \in Url |-> depths'[u]]
    BY <1>2
  <2>2. ASSUME NEW u \in Url PROVE depths'[u] \in 0..maxDepth
    <3>1. CASE u \in seen' \ known
      <4>1. PICK i \in 1..Len(added) : added[i].url = u
        BY <1>9, <3>1
      <4>2. depths'[u] \in Nat /\ depths'[u] <= maxDepth /\ maxDepth \in Nat
        BY <1>5, <1>8, <4>1, CrawlAssumption
      <4> QED BY <4>2
    <3>2. CASE u \notin seen' \ known
      BY <1>11, <3>2
    <3> QED BY <3>1, <3>2
  <2> QED BY <2>1, <2>2
<1>13. ASSUME NEW u \in seen' \ known
       PROVE  \E k \in 1..Len(offers) : /\ offers[k].url = u /\ offers[k].depth = depths'[u]
                                        /\ crawlable(site, u)
                                        /\ \A j \in 1..Len(offers) :
                                             offers[j].url = u => depths'[u] <= offers[j].depth
  <2>1. PICK i \in 1..Len(added) : added[i].url = u
    BY <1>9
  <2>2. PICK k \in acc : added[i] = offers[k]
    BY <1>8
  <2>3. /\ k \in 1..Len(offers) /\ offers[k].url = u /\ offers[k].depth = depths'[u]
        /\ crawlable(site, u)
    BY <1>3, <1>8, <2>1, <2>2
  <2>4. \A j \in 1..Len(offers) : offers[j].url = u => depths'[u] <= offers[j].depth
    BY <1>6, <2>3
  <2> QED BY <2>3, <2>4
<1>14. ASSUME NEW k \in 1..Len(offers)
       PROVE  \/ offers[k].url \in seen' \/ ~crawlable(site, offers[k].url)
              \/ ~(offers[k].depth <= maxDepth)
  <2> SUFFICES ASSUME offers[k].url \notin known, crawlable(site, offers[k].url),
                      offers[k].depth <= maxDepth
               PROVE  offers[k].url \in seen'
    BY <1>10
  <2>1. PICK j \in acc : offers[j].url = offers[k].url
    BY AcceptedFirst DEF acc
  <2>2. PICK i \in 1..Len(added) : added[i] = offers[j]
    BY <1>4 DEF Follows
  <2> QED BY <1>8, <2>1, <2>2
<1>15. new \in Seq(Url) /\ Len(new) = Len(added)
  <2>1. new \in [1..Len(added) -> Url]
    BY <1>5
  <2> HIDE DEF new
  <2> QED BY <1>5, <2>1, FunctionIsSeq
<1>16. \A i \in 1..Len(added) : new[i] = added[i].url
  BY <1>5
<1> HIDE DEF new
<1>17. Rising(new, Sooner(depths'))
  <2> SUFFICES ASSUME NEW i \in 1..Len(new), NEW j \in 1..Len(new), i < j
               PROVE  <<new[i], new[j]>> \in Sooner(depths')
    BY DEF Rising
  <2>1. i \in 1..Len(added) /\ j \in 1..Len(added)
    BY <1>15
  <2>2. new[i] = added[i].url /\ new[j] = added[j].url /\ new[i] \in Url /\ new[j] \in Url
    BY <1>5, <1>16, <2>1
  <2>3. new[i] # new[j] /\ depths'[new[i]] <= depths'[new[j]]
    BY <1>7, <1>8, <2>1, <2>2
  <2> QED BY <2>2, <2>3 DEF Sooner
<1>18. \A i \in 1..Len(new) : new[i] \in seen' \ known
  BY <1>8, <1>9, <1>15, <1>16
<1>19. \A u \in seen' \ known : \E i \in 1..Len(new) : new[i] = u
  BY <1>8, <1>9, <1>15, <1>16
<1> QED
  BY <1>2, <1>10, <1>11, <1>12, <1>13, <1>14, <1>15, <1>17, <1>18, <1>19 DEF Enqueued

-----------------------------------------------------------------------------
\* Two pages of an answer, the first no deeper than the second.
Nearer == {pq \in Found \X Found : <<pq[1].url, pq[2].url>> \in Sooner(depths)}

\* What the answers up to the first refusal hold, and what they offer.
FoundOf(upto) == FlattenSeq([i \in 1..upto |-> answers[i].pages])

OfferedOf(found) == FlattenSeq([i \in DOMAIN found |-> OfferedBy(found[i])])

\* A page of an answer: lost, or fetched with the links behind its address.
Reported(p) == \/ p.how = "lost" /\ p.links = <<>>
               \/ p.how = "fetched" /\ p.links = Reads[site][p.url] /\ round.sent < granted

\* The pages of an answer are those of the batch.
LEMMA AnswerIs ==
  ASSUME site \in Sites, NEW batch \in Seq(Url), NEW answer,
         \/ answer = Lost(batch)
         \/ answer = Fetched(batch) /\ round.sent < granted
  PROVE  /\ answer.pages \in Seq(Found) /\ Len(answer.pages) = Len(batch)
         /\ Len(batch) \in Nat
         /\ \A a \in 1..Len(batch) : /\ answer.pages[a] \in Found
                                     /\ answer.pages[a].url = batch[a]
                                     /\ Reported(answer.pages[a])
<1> DEFINE ps == answer.pages
<1>1. /\ Len(batch) \in Nat /\ DOMAIN batch = 1..Len(batch)
      /\ \A a \in 1..Len(batch) : batch[a] \in Url
  BY LenProperties, ElementOfSeq
<1>2. \A u \in Url : Reads[site][u] \in Seq(Url)
  BY ReadsTyped
<1>3. /\ DOMAIN ps = 1..Len(batch) /\ ps = [a \in 1..Len(batch) |-> ps[a]]
      /\ \A a \in 1..Len(batch) : \/ ps[a] = [url |-> batch[a], how |-> "lost", links |-> <<>>]
                                  \/ /\ ps[a] = [url |-> batch[a], how |-> "fetched",
                                                 links |-> Reads[site][batch[a]]]
                                     /\ round.sent < granted
  BY <1>1 DEF Lost, Fetched
<1> HIDE DEF ps
<1>4. \A a \in 1..Len(batch) : ps[a] \in Found /\ ps[a].url = batch[a] /\ Reported(ps[a])
  <2> SUFFICES ASSUME NEW a \in 1..Len(batch)
               PROVE  ps[a] \in Found /\ ps[a].url = batch[a] /\ Reported(ps[a])
    OBVIOUS
  <2>1. batch[a] \in Url /\ Reads[site][batch[a]] \in Seq(Url) /\ <<>> \in Seq(Url)
    BY <1>1, <1>2, EmptySeq
  <2>2. CASE ps[a] = [url |-> batch[a], how |-> "lost", links |-> <<>>]
    BY <2>1, <2>2 DEF Found, How, Reported
  <2>3. CASE /\ ps[a] = [url |-> batch[a], how |-> "fetched", links |-> Reads[site][batch[a]]]
             /\ round.sent < granted
    BY <2>1, <2>3 DEF Found, How, Reported
  <2> QED BY <1>3, <2>2, <2>3
<1>5. ps \in [1..Len(batch) -> Found]
  BY <1>3, <1>4
<1>6. ps \in Seq(Found) /\ Len(ps) = Len(batch)
  BY <1>1, <1>5, FunctionIsSeq
<1> QED
  BY <1>1, <1>4, <1>6 DEF ps

\* What a round finds is in flight, each address once, in the queue's order;
\* a round that is not refused finds all of it.
LEMMA FoundAre ==
  ASSUME CrawlTypes, Answered, Layered(round.batches, Sooner(depths)),
         \A b \in DOMAIN answers : answers[b] # None,
         NEW upto \in 0..Len(answers), \A b \in 1..upto : ~answers[b].capped
  PROVE  /\ FoundOf(upto) \in Seq(Found) /\ Rising(FoundOf(upto), Nearer)
         /\ \A n \in 1..Len(FoundOf(upto)) :
              /\ FoundOf(upto)[n] \in Found /\ Reported(FoundOf(upto)[n])
              /\ FoundOf(upto)[n].url \in Flight
         /\ upto = Len(answers) =>
              \A u \in Flight : \E n \in 1..Len(FoundOf(upto)) : FoundOf(upto)[n].url = u
<1> DEFINE bs == round.batches
           parts == [i \in 1..upto |-> answers[i].pages]
           found == FoundOf(upto)
<1>1. /\ bs \in Seq(Seq(Url)) /\ Len(bs) \in Nat /\ site \in Sites
      /\ \A b \in 1..Len(bs) : bs[b] \in Seq(Url)
      /\ DOMAIN answers = 1..Len(bs)
  <2>1. bs \in Seq(Seq(Url)) /\ site \in Sites /\ DOMAIN answers = 1..Len(bs)
    BY DEF CrawlTypes
  <2> QED BY <2>1, LenProperties, ElementOfSeq
<1>2. Len(answers) = Len(bs) /\ upto \in Nat /\ upto <= Len(bs)
  <2>1. Len(answers) = Len(bs)
    <3> DEFINE A == {None} \cup [capped : BOOLEAN, pages : Seq(Found)]
    <3>1. answers \in [1..Len(bs) -> A]
      BY DEF CrawlTypes
    <3> HIDE DEF A
    <3> QED BY <1>1, <3>1, FunctionIsSeq
  <2> QED BY <1>1, <2>1
<1>3. ASSUME NEW i \in 1..upto
      PROVE  /\ parts[i] \in Seq(Found) /\ Len(parts[i]) = Len(bs[i])
             /\ \A a \in 1..Len(bs[i]) : /\ parts[i][a] \in Found /\ parts[i][a].url = bs[i][a]
                                         /\ Reported(parts[i][a])
  <2>1. i \in 1..Len(bs) /\ parts[i] = answers[i].pages
    BY <1>1, <1>2
  <2>2. answers[i] # Refusal
    BY DEF Refusal
  <2>3. answers[i] = Lost(bs[i]) \/ (answers[i] = Fetched(bs[i]) /\ round.sent < granted)
    BY <1>1, <2>1, <2>2 DEF Answered
  <2>4. bs[i] \in Seq(Url)
    BY <1>1, <2>1
  <2> QED BY <1>1, <2>1, <2>3, <2>4, AnswerIs
<1>4. parts \in Seq(Seq(Found)) /\ Len(parts) = upto
  <2>1. parts \in [1..upto -> Seq(Found)]
    BY <1>3
  <2> HIDE DEF parts
  <2> QED BY <1>2, <2>1, FunctionIsSeq
<1> HIDE DEF parts
<1>5. Layered(parts, Nearer)
  <2> SUFFICES ASSUME NEW i \in 1..upto, NEW j \in 1..upto,
                      NEW a \in 1..Len(parts[i]), NEW c \in 1..Len(parts[j]),
                      i < j \/ (i = j /\ a < c)
               PROVE  <<parts[i][a], parts[j][c]>> \in Nearer
    BY <1>4 DEF Layered
  <2>1. i \in 1..Len(bs) /\ j \in 1..Len(bs)
    BY <1>1, <1>2
  <2>2. a \in 1..Len(bs[i]) /\ c \in 1..Len(bs[j])
    BY <1>3
  <2>3. <<bs[i][a], bs[j][c]>> \in Sooner(depths)
    BY <2>1, <2>2 DEF Layered
  <2>4. /\ parts[i][a] \in Found /\ parts[i][a].url = bs[i][a]
        /\ parts[j][c] \in Found /\ parts[j][c].url = bs[j][c]
    BY <1>3, <2>2
  <2> QED BY <2>3, <2>4 DEF Nearer
<1>6. /\ found \in Seq(Found) /\ Holds(found, parts, upto)
      /\ Rising(found, Nearer)
  BY <1>4, <1>5, FlattenIs DEF parts, FoundOf
<1> HIDE DEF found
<1>7. ASSUME NEW n \in 1..Len(found)
      PROVE  found[n] \in Found /\ Reported(found[n]) /\ found[n].url \in Flight
  <2>1. PICK i \in 1..upto : \E a \in 1..Len(parts[i]) : found[n] = parts[i][a]
    BY <1>6 DEF Holds
  <2>2. PICK a \in 1..Len(parts[i]) : found[n] = parts[i][a]
    BY <2>1
  <2>3. a \in 1..Len(bs[i]) /\ found[n] \in Found /\ found[n].url = bs[i][a] /\ Reported(found[n])
    BY <1>3, <2>2
  <2>4. found[n].url \in Url
    BY <2>3 DEF Found
  <2>5. i \in 1..Len(bs)
    BY <1>1, <1>2
  <2> QED BY <2>3, <2>4, <2>5 DEF Flight
<1>8. ASSUME upto = Len(answers), NEW u \in Flight
      PROVE  \E n \in 1..Len(found) : found[n].url = u
  <2>1. PICK i \in 1..Len(bs) : \E a \in 1..Len(bs[i]) : bs[i][a] = u
    BY DEF Flight
  <2>2. PICK a \in 1..Len(bs[i]) : bs[i][a] = u
    BY <2>1
  <2>3. i \in 1..upto /\ a \in 1..Len(parts[i]) /\ parts[i][a].url = u
    BY <1>2, <1>3, <1>8, <2>2
  <2>4. PICK n \in 1..Len(found) : found[n] = parts[i][a]
    BY <1>6, <2>3 DEF Holds
  <2> QED BY <2>3, <2>4
<1> QED
  BY <1>6, <1>7, <1>8 DEF found

\* What a page offers: its links, one level below it.
LEMMA OfferedByIs ==
  ASSUME depths \in [Url -> 0..maxDepth], NEW p \in Found
  PROVE  /\ OfferedBy(p) \in Seq(Offer) /\ Len(OfferedBy(p)) \in Nat
         /\ \A k \in 1..Len(OfferedBy(p)) :
              /\ OfferedBy(p)[k] \in Offer
              /\ OfferedBy(p)[k].depth = depths[p.url] + 1
              /\ depths[p.url] \in Nat /\ depths[p.url] < maxDepth
              /\ OfferedBy(p)[k].url \in Range(p.links)
         /\ depths[p.url] # maxDepth =>
              \A v \in Range(p.links) : \E k \in 1..Len(OfferedBy(p)) : OfferedBy(p)[k].url = v
<1> DEFINE d == depths[p.url]
           us == p.links
           os == Offers(us, d + 1)
<1>1. p.url \in Url /\ us \in Seq(Url)
  BY DEF Found
<1>2. d \in Nat /\ d <= maxDepth /\ maxDepth \in Nat
  BY <1>1, CrawlAssumption
<1>3. /\ Len(us) \in Nat /\ DOMAIN us = 1..Len(us)
      /\ \A i \in 1..Len(us) : us[i] \in Url
  BY <1>1, LenProperties, ElementOfSeq
<1> HIDE DEF d, us
<1>4. CASE d = maxDepth
  <2>1. OfferedBy(p) = <<>>
    BY <1>2, <1>4 DEF OfferedBy, d
  <2>2. Len(OfferedBy(p)) = 0 /\ OfferedBy(p) \in Seq(Offer)
    BY <2>1, EmptySeq
  <2> QED BY <1>4, <2>2 DEF d
<1>5. CASE d # maxDepth
  <2>1. OfferedBy(p) = os
    BY <1>2, <1>5 DEF OfferedBy, d, us
  <2>2. os = [i \in 1..Len(us) |-> [url |-> us[i], depth |-> d + 1]]
    BY <1>3 DEF Offers
  <2> HIDE DEF os
  <2>3. \A i \in 1..Len(us) : os[i] = [url |-> us[i], depth |-> d + 1]
    BY <2>2
  <2>4. \A i \in 1..Len(us) : os[i] \in Offer /\ os[i].url = us[i] /\ os[i].depth = d + 1
    <3> SUFFICES ASSUME NEW i \in 1..Len(us)
                 PROVE  os[i] \in Offer /\ os[i].url = us[i] /\ os[i].depth = d + 1
      OBVIOUS
    <3>1. us[i] \in Url /\ d + 1 \in Nat /\ os[i] = [url |-> us[i], depth |-> d + 1]
      BY <1>2, <1>3, <2>3
    <3> QED BY <3>1 DEF Offer
  <2>5. os \in [1..Len(us) -> Offer]
    BY <2>2, <2>4
  <2>6. os \in Seq(Offer) /\ Len(os) = Len(us)
    BY <1>3, <2>5, FunctionIsSeq
  <2>7. \A i \in 1..Len(us) : us[i] \in Range(us)
    BY <1>3 DEF Range
  <2>8. \A v \in Range(us) : \E i \in 1..Len(us) : us[i] = v
    BY <1>3 DEF Range
  <2>9. d < maxDepth
    BY <1>2, <1>5
  <2>10. \A k \in 1..Len(os) : /\ os[k] \in Offer /\ os[k].depth = d + 1
                               /\ d \in Nat /\ d < maxDepth /\ os[k].url \in Range(us)
    BY <1>2, <2>4, <2>6, <2>7, <2>9
  <2>11. \A v \in Range(us) : \E k \in 1..Len(os) : os[k].url = v
    BY <2>4, <2>6, <2>8
  <2> QED BY <1>3, <2>1, <2>6, <2>10, <2>11 DEF d, us
<1> QED
  BY <1>4, <1>5

\* What a round offers: the links of the pages found, nearest first.
LEMMA OfferedAre ==
  ASSUME depths \in [Url -> 0..maxDepth], NEW found \in Seq(Found), Rising(found, Nearer)
  PROVE  /\ OfferedOf(found) \in Seq(Offer) /\ Rising(OfferedOf(found), Shallower)
         /\ \A k \in 1..Len(OfferedOf(found)) : \E n \in 1..Len(found) :
              /\ depths[found[n].url] < maxDepth
              /\ OfferedOf(found)[k].depth = depths[found[n].url] + 1
              /\ OfferedOf(found)[k].url \in Range(found[n].links)
         /\ \A n \in 1..Len(found) : depths[found[n].url] # maxDepth =>
              \A v \in Range(found[n].links) : \E k \in 1..Len(OfferedOf(found)) :
                /\ OfferedOf(found)[k].url = v
                /\ OfferedOf(found)[k].depth = depths[found[n].url] + 1
<1> DEFINE parts == [i \in DOMAIN found |-> OfferedBy(found[i])]
           offered == OfferedOf(found)
<1>1. /\ Len(found) \in Nat /\ DOMAIN found = 1..Len(found)
      /\ \A n \in 1..Len(found) : found[n] \in Found
  BY LenProperties, ElementOfSeq
<1>2. \A n \in 1..Len(found) : parts[n] = OfferedBy(found[n])
  BY <1>1
<1>3. parts \in Seq(Seq(Offer)) /\ Len(parts) = Len(found)
  <2>1. parts \in [1..Len(found) -> Seq(Offer)]
    BY <1>1, OfferedByIs
  <2> HIDE DEF parts
  <2> QED BY <1>1, <2>1, FunctionIsSeq
<1> HIDE DEF parts
<1>4. ASSUME NEW n \in 1..Len(found), NEW a \in 1..Len(parts[n])
      PROVE  /\ parts[n][a] \in Offer /\ parts[n][a].depth = depths[found[n].url] + 1
             /\ depths[found[n].url] \in Nat /\ depths[found[n].url] < maxDepth
             /\ parts[n][a].url \in Range(found[n].links)
  BY <1>1, <1>2, OfferedByIs
<1>5. Layered(parts, Shallower)
  <2> SUFFICES ASSUME NEW i \in 1..Len(found), NEW j \in 1..Len(found),
                      NEW a \in 1..Len(parts[i]), NEW c \in 1..Len(parts[j]),
                      i < j \/ (i = j /\ a < c)
               PROVE  <<parts[i][a], parts[j][c]>> \in Shallower
    BY <1>3 DEF Layered
  <2>1. depths[found[i].url] <= depths[found[j].url]
    <3>1. CASE i < j
      <4>1. <<found[i], found[j]>> \in Nearer
        BY <3>1 DEF Rising
      <4> QED BY <4>1 DEF Nearer, Sooner
    <3>2. CASE i = j
      BY <1>4, <3>2
    <3> QED BY <3>1, <3>2
  <2>2. /\ parts[i][a] \in Offer /\ parts[i][a].depth = depths[found[i].url] + 1
        /\ parts[j][c] \in Offer /\ parts[j][c].depth = depths[found[j].url] + 1
        /\ depths[found[i].url] \in Nat /\ depths[found[j].url] \in Nat
    BY <1>4
  <2>3. parts[i][a].depth <= parts[j][c].depth
    BY <2>1, <2>2, SMTT(30)
  <2> QED BY <2>2, <2>3 DEF Shallower
<1>6. /\ offered \in Seq(Offer) /\ Holds(offered, parts, Len(found))
      /\ Rising(offered, Shallower)
  BY <1>3, <1>5, FlattenIs DEF parts, OfferedOf
<1> HIDE DEF offered
<1>7. ASSUME NEW k \in 1..Len(offered)
      PROVE  \E n \in 1..Len(found) : /\ depths[found[n].url] < maxDepth
                                      /\ offered[k].depth = depths[found[n].url] + 1
                                      /\ offered[k].url \in Range(found[n].links)
  <2>1. PICK n \in 1..Len(found) : \E a \in 1..Len(parts[n]) : offered[k] = parts[n][a]
    BY <1>6 DEF Holds
  <2> QED BY <1>4, <2>1
<1>8. ASSUME NEW n \in 1..Len(found), depths[found[n].url] # maxDepth,
             NEW v \in Range(found[n].links)
      PROVE  \E k \in 1..Len(offered) : /\ offered[k].url = v
                                        /\ offered[k].depth = depths[found[n].url] + 1
  <2>1. PICK a \in 1..Len(parts[n]) : parts[n][a].url = v
    <3>1. found[n] \in Found
      BY <1>1
    <3>2. \E k \in 1..Len(OfferedBy(found[n])) : OfferedBy(found[n])[k].url = v
      BY <1>8, <3>1, OfferedByIs
    <3> QED BY <1>2, <3>2
  <2>2. PICK k \in 1..Len(offered) : offered[k] = parts[n][a]
    BY <1>6 DEF Holds
  <2> QED BY <1>4, <2>1, <2>2
<1> QED
  BY <1>6, <1>7, <1>8 DEF offered

-----------------------------------------------------------------------------
\* A larger ceiling allows what a smaller one does.
LEMMA MoreGranted ==
  ASSUME NEW n \in Nat, NEW g \in Nat, NEW h \in Nat, NEW k \in Nat, n < g + k, g <= h
  PROVE  n < h + k
  OBVIOUS

\* Any ceiling allows one page.
LEMMA OneGranted ==
  ASSUME NEW n \in Nat, NEW g \in Nat, NEW k \in Nat, n <= 1, g >= 1, k >= 1
  PROVE  n < g + k
  OBVIOUS

\* Steps that leave the pages and the queue alone.
LEMMA Quiet ==
  ASSUME CrawlInv, UNCHANGED <<site, pages, seen, depths, frontier, round, truncated>>,
         granted' \in Nat, granted <= granted', capped => capped'
  PROVE  Queued' /\ Levels' /\ Room' /\ Accounted' /\ FetchedWithinPlan'
<1>1. Recorded' = Recorded /\ Flight' = Flight /\ Waiting' = Waiting /\ Held' = Held
  BY DEF Recorded, Flight, Waiting, Held
<1>2. Queued'
  BY <1>1 DEF CrawlInv, Queued, Rising, Layered, Sooner
<1>3. Levels'
  BY <1>1 DEF CrawlInv, Levels, crawlable
<1>4. Room' /\ Accounted'
  BY <1>1 DEF CrawlInv, Room, Accounted
<1>5. FetchedWithinPlan'
  <2> DEFINE n == Cardinality({i \in DOMAIN pages : pages[i].how = "fetched"})
             K == BATCH * PARALLEL
  <2>1. n < granted + K
    BY DEF CrawlInv, FetchedWithinPlan
  <2>2. granted \in Nat /\ K \in Nat
    BY CrawlAssumption DEF CrawlInv, CrawlTypes
  <2>3. n \in Nat
    <3>1. Len(pages) \in Nat /\ DOMAIN pages = 1..Len(pages)
      <4>1. pages \in Seq(PageOf)
        BY DEF CrawlInv, CrawlTypes
      <4> QED BY <4>1, LenProperties
    <3> DEFINE keep == {i \in DOMAIN pages : pages[i].how = "fetched"}
    <3>2. keep \in SUBSET (1..Len(pages))
      BY <3>1
    <3> HIDE DEF keep
    <3>3. Cardinality(keep) \in Nat
      BY <3>1, <3>2, Positions
    <3> QED BY <3>3 DEF keep
  <2> HIDE DEF n, K
  <2>4. n < granted' + K
    BY <2>1, <2>2, <2>3, MoreGranted
  <2> QED BY <2>4 DEF FetchedWithinPlan, n, K
<1> QED
  BY <1>2, <1>3, <1>4, <1>5

\* The ceiling a step is taken under is remembered when it is the largest.
GrantStep == granted' \in Nat \ {0} /\ granted \in Nat \ {0} /\ granted <= granted'

\* The loop ends, or the crawl fails.
LEMMA Stops ==
  ASSUME CrawlInv, GrantStep, DiscoveryFails \/ AbortSeen \/ Return
  PROVE  CrawlInv'
<1>1. /\ UNCHANGED <<site, pages, seen, depths, frontier, round, answers, truncated>>
      /\ phase' \in {"done", "failed"} /\ (capped => capped')
  <2>1. CASE DiscoveryFails
    BY <2>1 DEF DiscoveryFails
  <2>2. CASE AbortSeen
    BY <2>2 DEF AbortSeen
  <2>3. CASE Return
    <3>1. capped' = (capped \/ frontier # <<>>)
      BY <2>3 DEF Return
    <3>2. capped => capped'
      BY <3>1, Zenon
    <3> QED BY <2>3, <3>2 DEF Return
  <2> QED BY <2>1, <2>2, <2>3
<1>2. Queued' /\ Levels' /\ Room' /\ Accounted' /\ FetchedWithinPlan'
  BY <1>1, Quiet DEF GrantStep
<1>3. capped' \in BOOLEAN
  BY DEF CrawlInv, CrawlTypes, DiscoveryFails, AbortSeen, Return
<1>4. CrawlTypes'
  BY <1>1, <1>3 DEF CrawlInv, CrawlTypes, GrantStep
<1>5. Answered'
  <2>1. round.sent \in Nat
    BY DEF CrawlInv, CrawlTypes
  <2>2. round.sent < granted => round.sent < granted'
    BY <2>1 DEF GrantStep
  <2> QED BY <1>1, <2>2 DEF CrawlInv, Answered, Lost, Fetched
<1>6. Phased'
  <2>1. phase # "waiting" /\ round.batches = <<>>
    BY DEF CrawlInv, Phased, DiscoveryFails, AbortSeen, Return, Looping
  <2>2. CASE phase' = "failed"
    BY <1>1, <2>1, <2>2 DEF Phased
  <2>3. CASE phase' = "done"
    <3>1. Return
      BY <2>3 DEF DiscoveryFails, AbortSeen
    <3>2. phase = "crawling" /\ capped' = (capped \/ frontier # <<>>)
      BY <3>1 DEF Return
    <3>3. pages # <<>>
      BY <3>2 DEF CrawlInv, Phased
    <3> QED BY <1>1, <2>1, <2>3, <3>2, <3>3 DEF Phased
  <2> QED BY <1>1, <2>2, <2>3
<1> QED
  BY <1>2, <1>4, <1>5, <1>6 DEF CrawlInv

\* The Worker answers, or the answer is lost.
LEMMA Answers ==
  ASSUME CrawlInv, GrantStep, NEW ceiling \in Nat, ceiling <= granted', NEW b \in DOMAIN answers,
         Answer(b, ceiling) \/ LoseAnswer(b)
  PROVE  CrawlInv'
<1> DEFINE bs == round.batches
           A == {None} \cup [capped : BOOLEAN, pages : Seq(Found)]
<1>1. /\ UNCHANGED <<site, phase, pages, seen, depths, frontier, round, capped, truncated>>
      /\ phase = "waiting"
      /\ \/ answers' = [answers EXCEPT ![b] = Refusal]
         \/ answers' = [answers EXCEPT ![b] = Lost(bs[b])]
         \/ answers' = [answers EXCEPT ![b] = Fetched(bs[b])] /\ ~(round.sent >= ceiling)
  BY DEF Answer, LoseAnswer
<1>2. Queued' /\ Levels' /\ Room' /\ Accounted' /\ FetchedWithinPlan'
  BY <1>1, Quiet DEF GrantStep
<1>3. /\ answers \in [1..Len(bs) -> A] /\ b \in 1..Len(bs) /\ bs[b] \in Seq(Url)
      /\ round.sent \in Nat /\ site \in Sites
  <2>1. /\ answers \in [1..Len(bs) -> A] /\ b \in 1..Len(bs) /\ bs \in Seq(Seq(Url))
        /\ round.sent \in Nat /\ site \in Sites
    BY DEF CrawlInv, CrawlTypes
  <2> QED BY <2>1, ElementOfSeq
<1>4. ~(round.sent >= ceiling) => round.sent < granted'
  BY <1>3 DEF GrantStep
<1>5. Refusal \in A
  <2>1. <<>> \in Seq(Found)
    BY EmptySeq
  <2> QED BY <2>1 DEF Refusal
<1>6. Lost(bs[b]) \in A /\ Fetched(bs[b]) \in A
  <2> DEFINE us == bs[b]
  <2>1. /\ Len(us) \in Nat /\ DOMAIN us = 1..Len(us)
        /\ \A a \in 1..Len(us) : us[a] \in Url /\ Reads[site][us[a]] \in Seq(Url)
    BY <1>3, LenProperties, ElementOfSeq, ReadsTyped
  <2> HIDE DEF us
  <2> DEFINE ls == [i \in DOMAIN us |-> [url |-> us[i], how |-> "lost", links |-> <<>>]]
             fs == [i \in DOMAIN us |-> [url |-> us[i], how |-> "fetched",
                                         links |-> Reads[site][us[i]]]]
  <2>2. <<>> \in Seq(Url)
    BY EmptySeq
  <2>3. ls \in [1..Len(us) -> Found] /\ fs \in [1..Len(us) -> Found]
    BY <2>1, <2>2 DEF Found, How
  <2>4. Lost(us) = [capped |-> FALSE, pages |-> ls] /\ Fetched(us) = [capped |-> FALSE, pages |-> fs]
    BY DEF Lost, Fetched
  <2> HIDE DEF ls, fs
  <2>5. ls \in Seq(Found) /\ fs \in Seq(Found)
    BY <2>1, <2>3, FunctionIsSeq
  <2>6. Lost(us) \in A /\ Fetched(us) \in A
    BY <2>4, <2>5
  <2> QED BY <2>6 DEF us
<1> HIDE DEF A
<1>7. answers' \in [1..Len(bs) -> A]
  BY <1>1, <1>3, <1>5, <1>6
<1>8. CrawlTypes'
  BY <1>1, <1>7 DEF A, CrawlInv, CrawlTypes, GrantStep
<1>9. Answered'
  <2> SUFFICES ASSUME NEW c \in 1..Len(bs)
               PROVE  \/ answers'[c] \in {None, Refusal, Lost(bs[c])'}
                      \/ answers'[c] = Fetched(bs[c])' /\ round.sent < granted'
    BY <1>1 DEF Answered
  <2>1. Lost(bs[c])' = Lost(bs[c]) /\ Fetched(bs[c])' = Fetched(bs[c])
    BY <1>1 DEF Lost, Fetched
  <2>2. CASE c = b
    BY <1>1, <1>3, <1>4, <2>1, <2>2
  <2>3. CASE c # b
    <3>1. answers'[c] = answers[c]
      BY <1>1, <1>3, <2>3
    <3>2. round.sent < granted => round.sent < granted'
      BY <1>3 DEF GrantStep
    <3>3. \/ answers[c] \in {None, Refusal, Lost(bs[c])}
          \/ answers[c] = Fetched(bs[c]) /\ round.sent < granted
      BY DEF CrawlInv, Answered
    <3> QED BY <2>1, <3>1, <3>2, <3>3
  <2> QED BY <2>2, <2>3
<1>10. Phased'
  BY <1>1 DEF CrawlInv, Phased
<1> QED
  BY <1>2, <1>8, <1>9, <1>10 DEF CrawlInv

-----------------------------------------------------------------------------
\* The pages of ps and then those of qs, each address once.
Grown(st, ps, qs) ==
  /\ st \in Seq(PageOf) /\ Len(st) = Len(ps) + Len(qs)
  /\ \A i, j \in 1..Len(st) : i # j => st[i].url # st[j].url
  /\ \A i \in 1..Len(st) : (\E j \in 1..Len(ps) : st[i] = ps[j])
                             \/ (\E j \in 1..Len(qs) : st[i] = qs[j])
  /\ \A j \in 1..Len(ps) : j \in 1..Len(st) /\ st[j] = ps[j]
  /\ \A j \in 1..Len(qs) : \E i \in 1..Len(st) : st[i] = qs[j]

\* Pages are recorded after the others: each once, if they were apart.
LEMMA RecordsGrow ==
  ASSUME NEW ps \in Seq(PageOf), NEW qs \in Seq(PageOf),
         \A i, j \in 1..Len(ps) : i # j => ps[i].url # ps[j].url,
         \A i, j \in 1..Len(qs) : i # j => qs[i].url # qs[j].url,
         \A i \in 1..Len(ps), j \in 1..Len(qs) : ps[i].url # qs[j].url
  PROVE  Grown(ps \o qs, ps, qs)
<1> DEFINE st == ps \o qs
           m == Len(ps)
           n == Len(qs)
<1>1. /\ st \in Seq(PageOf) /\ Len(st) = m + n /\ m \in Nat /\ n \in Nat
      /\ \A a \in 1..m : a \in 1..Len(st) /\ st[a] = ps[a]
      /\ \A c \in 1..n : m + c \in 1..Len(st) /\ st[m + c] = qs[c]
      /\ \A a \in 1..Len(st) : a \in 1..m \/ (a - m \in 1..n /\ st[a] = qs[a - m])
  BY Joined
<1> HIDE DEF st, m, n
<1>2. ASSUME NEW i \in 1..Len(st), NEW j \in 1..Len(st), i # j
      PROVE  st[i].url # st[j].url
  <2>1. CASE i \in 1..m /\ j \in 1..m
    <3>1. st[i] = ps[i] /\ st[j] = ps[j]
      BY <1>1, <2>1
    <3> QED BY <1>2, <2>1, <3>1 DEF m
  <2>2. CASE i \in 1..m /\ j \notin 1..m
    <3>1. st[i] = ps[i] /\ j - m \in 1..n /\ st[j] = qs[j - m]
      BY <1>1, <2>2
    <3> QED BY <2>2, <3>1 DEF m, n
  <2>3. CASE i \notin 1..m /\ j \in 1..m
    <3>1. st[j] = ps[j] /\ i - m \in 1..n /\ st[i] = qs[i - m]
      BY <1>1, <2>3
    <3> QED BY <2>3, <3>1 DEF m, n
  <2>4. CASE i \notin 1..m /\ j \notin 1..m
    <3>1. /\ i - m \in 1..n /\ st[i] = qs[i - m] /\ j - m \in 1..n /\ st[j] = qs[j - m]
      BY <1>1, <2>4
    <3>2. i - m # j - m
      BY <1>1, <1>2
    <3> QED BY <3>1, <3>2 DEF n
  <2> QED BY <2>1, <2>2, <2>3, <2>4
<1>3. \A i \in 1..Len(st) : (\E j \in 1..m : st[i] = ps[j]) \/ (\E j \in 1..n : st[i] = qs[j])
  BY <1>1
<1>4. \A j \in 1..n : \E i \in 1..Len(st) : st[i] = qs[j]
  BY <1>1
<1> QED
  BY <1>1, <1>2, <1>3, <1>4 DEF st, m, n, Grown

\* The queue grows at its end.
LEMMA QueueGrows ==
  ASSUME NEW us \in Seq(Url), NEW vs \in Seq(Url), NEW R, Rising(us, R), Rising(vs, R),
         \A i \in 1..Len(us), j \in 1..Len(vs) : <<us[i], vs[j]>> \in R
  PROVE  /\ us \o vs \in Seq(Url) /\ Rising(us \o vs, R)
         /\ \A i \in 1..Len(us \o vs) : \/ \E j \in 1..Len(us) : (us \o vs)[i] = us[j]
                                        \/ \E j \in 1..Len(vs) : (us \o vs)[i] = vs[j]
         /\ \A j \in 1..Len(us) : \E i \in 1..Len(us \o vs) : (us \o vs)[i] = us[j]
         /\ \A j \in 1..Len(vs) : \E i \in 1..Len(us \o vs) : (us \o vs)[i] = vs[j]
<1> DEFINE st == us \o vs
           m == Len(us)
           n == Len(vs)
<1>1. /\ st \in Seq(Url) /\ Len(st) = m + n /\ m \in Nat /\ n \in Nat
      /\ \A a \in 1..m : a \in 1..Len(st) /\ st[a] = us[a]
      /\ \A c \in 1..n : m + c \in 1..Len(st) /\ st[m + c] = vs[c]
      /\ \A a \in 1..Len(st) : a \in 1..m \/ (a - m \in 1..n /\ st[a] = vs[a - m])
  BY Joined
<1>2. ASSUME NEW i \in 1..Len(st), NEW j \in 1..Len(st), i < j
      PROVE  <<st[i], st[j]>> \in R
  <2> HIDE DEF st, m, n
  <2>1. CASE i \in 1..m /\ j \in 1..m
    BY <1>1, <1>2, <2>1 DEF m, Rising
  <2>2. CASE i \in 1..m /\ j \notin 1..m
    BY <1>1, <2>2 DEF m, n
  <2>3. CASE i \notin 1..m /\ j \in 1..m
    BY <1>1, <1>2, <2>3
  <2>4. CASE i \notin 1..m /\ j \notin 1..m
    <3>1. /\ i - m \in 1..n /\ st[i] = vs[i - m] /\ j - m \in 1..n /\ st[j] = vs[j - m]
      BY <1>1, <2>4
    <3>2. i - m < j - m
      BY <1>1, <1>2
    <3> QED BY <3>1, <3>2 DEF n, Rising
  <2> QED BY <2>1, <2>2, <2>3, <2>4
<1> HIDE DEF st, m, n
<1>3. \A i \in 1..Len(st) : (\E j \in 1..m : st[i] = us[j]) \/ (\E j \in 1..n : st[i] = vs[j])
  BY <1>1
<1>4. /\ \A j \in 1..n : \E i \in 1..Len(st) : st[i] = vs[j]
      /\ \A j \in 1..m : \E i \in 1..Len(st) : st[i] = us[j]
  BY <1>1
<1>5. Rising(st, R)
  BY <1>2 DEF Rising
<1> QED
  BY <1>1, <1>3, <1>4, <1>5 DEF st, m, n

\* At most as many pages are fetched as there are.
LEMMA FetchedAmong ==
  ASSUME NEW ps \in Seq(PageOf)
  PROVE  /\ Cardinality({i \in DOMAIN ps : ps[i].how = "fetched"}) \in Nat
         /\ Cardinality({i \in DOMAIN ps : ps[i].how = "fetched"}) <= Len(ps)
         /\ Len(ps) \in Nat /\ DOMAIN ps = 1..Len(ps)
<1> DEFINE keep == {i \in DOMAIN ps : ps[i].how = "fetched"}
           m == Len(ps)
<1>1. m \in Nat /\ DOMAIN ps = 1..m
  BY LenProperties
<1>2. keep \in SUBSET (1..m)
  BY <1>1
<1> HIDE DEF keep, m
<1>3. 1 \in Int /\ m \in Int
  BY <1>1
<1>4. IsFiniteSet(1..m) /\ Cardinality(1..m) = IF 1 > m THEN 0 ELSE m - 1 + 1
  BY <1>3, FS_Interval
<1>5. Cardinality(keep) <= Cardinality(1..m)
  BY <1>2, <1>4, FS_Subset
<1>6. Cardinality(keep) \in Nat
  BY <1>1, <1>2, Positions
<1>7. Cardinality(1..m) = m
  BY <1>1, <1>4
<1> QED
  BY <1>1, <1>5, <1>6, <1>7 DEF keep, m

\* What discovery offers: the homepage's links among it, at depth 1.
NamedBy(s) == LET entries == sitemapEntries(s)
              IN SubSeq(entries, 1, IF Len(entries) < maxPages * 3
                                    THEN Len(entries) ELSE maxPages * 3)

FirstOffers(s) == Offers(Reads[s][s.home] \o NamedBy(s), 1)

\* The homepage and the site files offer at depth 1 what they name.
LEMMA FirstOffersAre ==
  ASSUME NEW s \in Sites
  PROVE  /\ FirstOffers(s) \in Seq(Offer) /\ Rising(FirstOffers(s), Shallower)
         /\ \A k \in 1..Len(FirstOffers(s)) :
              /\ FirstOffers(s)[k].depth = 1
              /\ FirstOffers(s)[k].url \in Range(Reads[s][s.home]) \cup Range(sitemapEntries(s))
         /\ \A v \in Range(Reads[s][s.home]) :
              \E k \in 1..Len(FirstOffers(s)) : FirstOffers(s)[k].url = v
<1> DEFINE ls == Reads[s][s.home]
           es == sitemapEntries(s)
           m == Least(Len(es), maxPages * 3)
           ns == SubSeq(es, 1, m)
           us == ls \o ns
           os == FirstOffers(s)
<1>1. ls \in Seq(Url) /\ es \in Seq(Url)
  BY ReadsTyped
<1> HIDE DEF ls, es
<1>2. m \in Nat /\ m <= Len(es)
  <2>1. Len(es) \in Nat
    BY <1>1, LenProperties
  <2>2. maxPages * 3 \in Nat
    BY CrawlAssumption
  <2> QED BY <2>1, <2>2 DEF Least
<1> HIDE DEF m
<1>3. ns \in Seq(Url) /\ Len(ns) = m /\ Len(es) \in Nat /\ \A i \in 1..m : ns[i] = es[i]
  BY <1>1, <1>2, Prefix
<1> HIDE DEF ns
<1>4. /\ us \in Seq(Url) /\ Len(ls) \in Nat
      /\ \A a \in 1..Len(ls) : a \in 1..Len(us) /\ us[a] = ls[a]
      /\ \A a \in 1..Len(us) : a \in 1..Len(ls) \/ (a - Len(ls) \in 1..Len(ns)
                                                    /\ us[a] = ns[a - Len(ls)])
  BY <1>1, <1>3, Joined
<1> HIDE DEF us
<1>5. /\ Len(us) \in Nat /\ DOMAIN us = 1..Len(us) /\ \A i \in 1..Len(us) : us[i] \in Url
      /\ DOMAIN ls = 1..Len(ls) /\ DOMAIN es = 1..Len(es)
  BY <1>1, <1>4, LenProperties, ElementOfSeq
<1>6. os = [i \in 1..Len(us) |-> [url |-> us[i], depth |-> 1]]
  BY <1>5 DEF FirstOffers, NamedBy, Offers, Least, ls, es, m, ns, us
<1> HIDE DEF os
<1>7. \A i \in 1..Len(us) : os[i] \in Offer /\ os[i].url = us[i] /\ os[i].depth = 1
  <2> SUFFICES ASSUME NEW i \in 1..Len(us)
               PROVE  os[i] \in Offer /\ os[i].url = us[i] /\ os[i].depth = 1
    OBVIOUS
  <2>1. us[i] \in Url /\ os[i] = [url |-> us[i], depth |-> 1]
    BY <1>5, <1>6
  <2> QED BY <2>1 DEF Offer
<1>8. os \in [1..Len(us) -> Offer]
  BY <1>6, <1>7
<1>9. os \in Seq(Offer) /\ Len(os) = Len(us)
  BY <1>5, <1>8, FunctionIsSeq
<1>10. Rising(os, Shallower)
  BY <1>7, <1>9 DEF Rising, Shallower
<1>11. ASSUME NEW k \in 1..Len(us) PROVE us[k] \in Range(ls) \cup Range(es)
  <2>1. CASE k \in 1..Len(ls)
    BY <1>4, <1>5, <2>1 DEF Range
  <2>2. CASE k \notin 1..Len(ls)
    <3>1. k - Len(ls) \in 1..Len(ns) /\ us[k] = ns[k - Len(ls)]
      BY <1>4, <2>2
    <3> DEFINE j == k - Len(ls)
    <3>2. j \in 1..m /\ us[k] = ns[j]
      BY <1>3, <3>1
    <3> HIDE DEF j
    <3>3. j \in 1..Len(es) /\ us[k] = es[j]
      BY <1>2, <1>3, <3>2
    <3> QED BY <1>5, <3>3 DEF Range
  <2> QED BY <2>1, <2>2
<1>12. ASSUME NEW v \in Range(ls) PROVE \E k \in 1..Len(os) : os[k].url = v
  <2>1. PICK a \in 1..Len(ls) : ls[a] = v
    BY <1>5 DEF Range
  <2> QED BY <1>4, <1>7, <1>9, <2>1
<1>13. \A k \in 1..Len(os) : os[k].depth = 1 /\ os[k].url \in Range(ls) \cup Range(es)
  BY <1>7, <1>9, <1>11
<1> QED
  BY <1>9, <1>10, <1>12, <1>13 DEF os, ls, es

\* Discovery establishes the invariant.
LEMMA Discovers ==
  ASSUME CrawlInv, GrantStep, Discover
  PROVE  /\ CrawlInv'
         /\ site.home \in seen' /\ Recorded' = {site.home}
         /\ seen' \subseteq {site.home} \cup Range(Reads[site][site.home])
                              \cup Range(sitemapEntries(site))
<1> DEFINE h == site.home
           os == FirstOffers(site)
           New == seen' \ {h}
<1>1. /\ phase = "discovering" /\ pages' = <<Page(h, 0, "fetched")>>
      /\ Enqueue({h}, <<>>, os)
      /\ phase' = "crawling" /\ UNCHANGED <<site, round, answers, capped, truncated>>
  BY DEF Discover, FirstOffers, NamedBy
<1>2. /\ site \in Sites /\ depths \in [Url -> 0..maxDepth] /\ capped = FALSE
      /\ round.batches = <<>> /\ depths = [u \in Url |-> 0]
  BY <1>1 DEF CrawlInv, CrawlTypes, Phased
<1>3. h \in Url
  BY <1>2, ReadsTyped
<1>4. /\ os \in Seq(Offer) /\ Rising(os, Shallower)
      /\ \A k \in 1..Len(os) : /\ os[k].depth = 1
                               /\ os[k].url \in Range(Reads[site][h]) \cup Range(sitemapEntries(site))
      /\ \A v \in Range(Reads[site][h]) : \E k \in 1..Len(os) : os[k].url = v
  BY <1>2, FirstOffersAre
<1> HIDE DEF os
<1>5. <<>> \in Seq(Url) /\ {h} \in SUBSET Url
  BY <1>3, EmptySeq
<1>6. /\ seen' \in SUBSET Url /\ {h} \subseteq seen'
      /\ depths' \in [Url -> 0..maxDepth]
      /\ \A u \in Url : u \notin New => depths'[u] = depths[u]
      /\ \A u \in New : \E k \in 1..Len(os) : os[k].url = u /\ os[k].depth = depths'[u]
      /\ \A k \in 1..Len(os) : \/ os[k].url \in seen' \/ ~crawlable(site, os[k].url)
                               \/ ~(os[k].depth <= maxDepth)
      /\ \E new \in Seq(Url) : /\ frontier' = <<>> \o new
                               /\ \A i \in 1..Len(new) : new[i] \in New
                               /\ \A u \in New : \E i \in 1..Len(new) : new[i] = u
                               /\ Rising(new, Sooner(depths'))
  <2> DEFINE none == <<>>
             home == {h}
  <2>1. none \in Seq(Url) /\ home \in SUBSET Url /\ Enqueue(home, none, os)
    BY <1>1, <1>5
  <2> HIDE DEF none, home
  <2>2. Enqueued(home, none, os)
    BY <1>2, <1>4, <2>1, EnqueueIs
  <2> QED BY <2>2 DEF none, home, Enqueued
<1>7. /\ frontier' \in Seq(Url) /\ Rising(frontier', Sooner(depths'))
      /\ \A i \in 1..Len(frontier') : frontier'[i] \in New
      /\ \A u \in New : \E i \in 1..Len(frontier') : frontier'[i] = u
  <2>1. PICK new \in Seq(Url) : /\ frontier' = <<>> \o new
                                /\ \A i \in 1..Len(new) : new[i] \in New
                                /\ \A u \in New : \E i \in 1..Len(new) : new[i] = u
                                /\ Rising(new, Sooner(depths'))
    BY <1>6
  <2>2. frontier' = new
    BY <2>1, ConcatEmptySeq
  <2> QED BY <2>1, <2>2
<1>8. /\ Len(pages') = 1 /\ pages'[1] = [url |-> h, depth |-> 0, how |-> "fetched"]
      /\ pages' # <<>> /\ DOMAIN pages' = 1..1
  BY <1>1 DEF Page
<1>9. pages' \in Seq(PageOf)
  <2>1. Page(h, 0, "fetched") \in PageOf
    BY <1>3 DEF Page, PageOf, How
  <2> QED BY <1>1, <2>1
<1>10. Recorded' = {h} /\ Flight' = {} /\ Waiting' = New /\ Held' = seen'
  <2>1. Recorded' = {h}
    BY <1>8 DEF Recorded
  <2>2. Flight' = {}
    <3>1. round' = round /\ Len(round.batches) = 0
      BY <1>1, <1>2, EmptySeq
    <3> QED BY <3>1 DEF Flight
  <2>3. Waiting' = New
    BY <1>6, <1>7 DEF Waiting
  <2> QED BY <1>6, <2>1, <2>2, <2>3 DEF Held
<1>11. /\ depths'[h] = 0
       /\ \A u \in New : depths'[u] = 1
       /\ \A u \in seen' : depths'[u] \in {0, 1}
  <2>1. depths'[h] = 0
    BY <1>2, <1>3, <1>6
  <2>2. \A u \in New : depths'[u] = 1
    BY <1>4, <1>6
  <2> QED BY <2>1, <2>2
<1>12. CrawlTypes'
  BY <1>1, <1>6, <1>7, <1>9 DEF CrawlInv, CrawlTypes, GrantStep
<1>13. Answered'
  <2>1. round' = round /\ Len(round.batches) = 0
    BY <1>1, <1>2, EmptySeq
  <2> QED BY <2>1 DEF Answered
<1>14. Phased'
  BY <1>1, <1>2, <1>8 DEF Phased
<1>15. Queued'
  <2>1. Len(round.batches)' = 0
    BY <1>1, <1>2, EmptySeq
  <2>2. Layered(round.batches, Sooner(depths))'
    BY <2>1 DEF Layered
  <2>3. Rising(frontier, Sooner(depths))'
    BY <1>7 DEF Rising, Sooner
  <2>4. \A i, j \in 1..Len(pages') : i = j
    BY <1>8
  <2>5. Recorded' \cap Waiting' = {}
    BY <1>10
  <2> HIDE DEF New
  <2> QED BY <1>10, <2>2, <2>3, <2>4, <2>5 DEF Queued
<1>16. Levels'
  <2>1. ASSUME NEW u \in Flight' \cup Waiting', NEW v \in Held'
        PROVE  depths'[v] <= depths'[u] + 1
    BY <1>10, <1>11
  <2>2. ASSUME NEW v \in Range(Reads[site][h]), v \notin seen'
        PROVE  ~crawlable(site, v) \/ depths'[h] = maxDepth
    <3>1. PICK k \in 1..Len(os) : os[k].url = v
      BY <1>4
    <3>2. ~crawlable(site, v) \/ ~(1 <= maxDepth)
      BY <1>4, <1>6, <2>2, <3>1
    <3>3. maxDepth \in Nat
      BY CrawlAssumption
    <3> QED BY <1>11, <3>2, <3>3
  <2>3. ASSUME NEW v \in Held' PROVE depths'[v] <= depths'[h] + 1
    BY <1>10, <1>11
  <2>4. \A i \in 1..Len(pages') : pages'[i].url = h /\ pages'[i].depth = 0
    BY <1>8
  <2>5. \A v : crawlable(site, v)' = crawlable(site, v)
    BY <1>1 DEF crawlable
  <2> HIDE DEF h
  <2> QED BY <1>1, <1>11, <2>1, <2>2, <2>3, <2>4, <2>5 DEF Levels
<1>17. Room'
  <2>1. IsFiniteSet({}) /\ Cardinality({}) = 0
    BY FS_EmptySet
  <2>2. 1 + 0 <= maxPages /\ 0 <= BATCH * PARALLEL
    BY CrawlAssumption
  <2> QED BY <1>8, <1>10, <2>1, <2>2 DEF Room
<1>18. Accounted'
  BY <1>10 DEF Accounted
<1>19. FetchedWithinPlan'
  <2> DEFINE n == Cardinality({i \in DOMAIN pages' : pages'[i].how = "fetched"})
             K == BATCH * PARALLEL
  <2>1. n \in Nat /\ n <= Len(pages')
    BY <1>9, FetchedAmong
  <2>2. K \in Nat /\ K >= 1
    <3>1. BATCH \in Nat /\ PARALLEL \in Nat /\ 1 <= BATCH /\ 1 <= PARALLEL
      BY CrawlAssumption
    <3>2. 1 * PARALLEL <= BATCH * PARALLEL
      BY <3>1, Scaled
    <3>3. BATCH * PARALLEL \in Nat
      BY <3>1
    <3> QED BY <3>1, <3>2, <3>3
  <2>3. granted' \in Nat /\ granted' >= 1
    BY DEF GrantStep
  <2> HIDE DEF n, K
  <2>4. n < granted' + K
    <3>1. n <= 1
      BY <1>8, <2>1
    <3> QED BY <2>1, <2>2, <2>3, <3>1, OneGranted
  <2> QED BY <2>4 DEF FetchedWithinPlan, n, K
<1>20. seen' \subseteq {h} \cup Range(Reads[site][h]) \cup Range(sitemapEntries(site))
  <2>1. \A u \in New : u \in Range(Reads[site][h]) \cup Range(sitemapEntries(site))
    BY <1>4, <1>6
  <2> HIDE DEF h
  <2> QED BY <2>1
<1> QED
  BY <1>6, <1>10, <1>12, <1>13, <1>14, <1>15, <1>16, <1>17, <1>18, <1>19, <1>20 DEF CrawlInv

-----------------------------------------------------------------------------
\* The addresses of the frontier are apart, and go down level by level.
LEMMA FrontierRises ==
  ASSUME NEW us \in Seq(Url), NEW d, Rising(us, Sooner(d))
  PROVE  /\ Len(us) \in Nat /\ DOMAIN us = 1..Len(us) /\ \A i \in 1..Len(us) : us[i] \in Url
         /\ \A i, j \in 1..Len(us) : i # j => us[i] # us[j]
         /\ \A i, j \in 1..Len(us) : i < j => d[us[i]] <= d[us[j]]
<1>1. Len(us) \in Nat /\ DOMAIN us = 1..Len(us) /\ \A i \in 1..Len(us) : us[i] \in Url
  BY LenProperties, ElementOfSeq
<1>2. ASSUME NEW i \in 1..Len(us), NEW j \in 1..Len(us), i < j
      PROVE  us[i] # us[j] /\ d[us[i]] <= d[us[j]]
  <2>1. <<us[i], us[j]>> \in Sooner(d)
    BY <1>2 DEF Rising
  <2> QED BY <2>1 DEF Sooner
<1>3. ASSUME NEW i \in 1..Len(us), NEW j \in 1..Len(us), i # j
      PROVE  us[i] # us[j]
  <2>1. i < j \/ j < i
    BY <1>1, <1>3
  <2> QED BY <1>2, <2>1
<1> QED
  BY <1>1, <1>2, <1>3

\* What a round takes off the frontier: the slice, the overflow, the rest.
LEMMA SliceIs ==
  ASSUME CrawlInv, Looping
  PROVE  /\ Slice \in Seq(Url) /\ Len(Slice) \in Nat /\ DOMAIN Slice = 1..Len(Slice)
         /\ Taken \in Seq(Url) /\ Len(Taken) \in Nat /\ DOMAIN Taken = 1..Len(Taken)
         /\ Len(Slice) <= Len(Taken) /\ Len(Taken) <= Len(frontier) /\ Len(frontier) \in Nat
         /\ Len(Slice) <= BATCH * PARALLEL /\ Len(pages) + Len(Slice) <= maxPages
         /\ Len(pages) \in Nat
         /\ \A i \in 1..Len(Slice) : Slice[i] = frontier[i]
         /\ \A i \in 1..Len(Taken) : Taken[i] = frontier[i]
<1> DEFINE K == BATCH * PARALLEL
           m == Least(Len(frontier), K)
           r == maxPages - Len(pages)
           n == Least(Len(Taken), r)
<1>1. /\ frontier \in Seq(Url) /\ pages \in Seq(PageOf)
      /\ Len(pages) < maxPages
  BY DEF CrawlInv, CrawlTypes, Looping
<1>2. Len(frontier) \in Nat /\ Len(pages) \in Nat /\ K \in Nat /\ maxPages \in Nat
  BY <1>1, LenProperties, CrawlAssumption
<1>3. r \in Nat
  BY <1>1, <1>2
<1> HIDE DEF K, r
<1>4. m \in Nat /\ m <= Len(frontier) /\ m <= K
  BY <1>2 DEF Least
<1>5. Taken = SubSeq(frontier, 1, m)
  BY DEF Taken, Least, K
<1> HIDE DEF m
<1>6. /\ Taken \in Seq(Url) /\ Len(Taken) = m
      /\ \A i \in 1..m : Taken[i] = frontier[i]
  BY <1>1, <1>4, <1>5, Prefix
<1>7. n \in Nat /\ n <= Len(Taken) /\ n <= r
  BY <1>3, <1>4, <1>6 DEF Least
<1>8. Slice = SubSeq(Taken, 1, n)
  BY DEF Slice, Least, r
<1> HIDE DEF n
<1>9. /\ Slice \in Seq(Url) /\ Len(Slice) = n
      /\ \A i \in 1..n : Slice[i] = Taken[i]
  BY <1>6, <1>7, <1>8, Prefix
<1>10. DOMAIN Slice = 1..Len(Slice) /\ DOMAIN Taken = 1..Len(Taken)
  BY <1>6, <1>9, LenProperties
<1>11. \A i \in 1..n : i \in 1..m
  BY <1>4, <1>6, <1>7
<1>12. Len(pages) + n <= maxPages
  BY <1>2, <1>7 DEF r
<1>13. n <= K
  BY <1>2, <1>4, <1>6, <1>7
<1> QED
  BY <1>2, <1>4, <1>6, <1>7, <1>9, <1>10, <1>11, <1>12, <1>13 DEF K

\* The blocked addresses of a slice, as pages.
BlockedOf(slice) == Sift(slice, DOMAIN slice \ Allowed(slice))

BlockedPages(slice) ==
  [i \in DOMAIN BlockedOf(slice) |->
     Page(BlockedOf(slice)[i], depths[BlockedOf(slice)[i]], "blocked")]

\* They are pages of the slice, each address once, all that are not allowed.
BlockedFrom(ps, us) ==
  /\ ps \in Seq(PageOf) /\ Len(ps) = Len(BlockedOf(us))
  /\ Len(BlockedOf(us)) + Cardinality(Allowed(us)) = Len(us)
  /\ IsFiniteSet(Allowed(us)) /\ Cardinality(Allowed(us)) \in Nat
  /\ Len(BlockedOf(us)) \in Nat
  /\ \A i, j \in 1..Len(ps) : i # j => ps[i].url # ps[j].url
  /\ \A n \in 1..Len(ps) : /\ ps[n].depth = depths[ps[n].url] /\ ps[n].how = "blocked"
                            /\ \E p \in (1..Len(us)) \ Allowed(us) : ps[n].url = us[p]
  /\ \A p \in (1..Len(us)) \ Allowed(us) : \E n \in 1..Len(ps) : ps[n].url = us[p]

\* The disallowed addresses of a slice become pages, each once.
LEMMA BlockedAre ==
  ASSUME depths \in [Url -> 0..maxDepth], NEW us \in Seq(Url),
         \A i, j \in 1..Len(us) : i # j => us[i] # us[j]
  PROVE  BlockedFrom(BlockedPages(us), us)
<1> DEFINE M == 1..Len(us)
           keep == M \ Allowed(us)
           bl == BlockedOf(us)
           ps == BlockedPages(us)
<1>1. /\ Len(us) \in Nat /\ DOMAIN us = M /\ \A i \in M : us[i] \in Url
  BY LenProperties, ElementOfSeq
<1>2. Allowed(us) \in SUBSET M /\ keep \in SUBSET M
  BY <1>1 DEF Allowed
<1>3. bl = Sift(us, keep)
  BY <1>1 DEF BlockedOf
<1>4. /\ bl \in Seq(Url) /\ Follows(bl, us, keep) /\ Len(bl) = Cardinality(keep)
      /\ Cardinality(keep) \in Nat
  <2> HIDE DEF keep, bl
  <2> QED BY <1>2, <1>3, SiftFollows
<1>5. /\ IsFiniteSet(Allowed(us)) /\ Cardinality(Allowed(us)) \in Nat
      /\ IsFiniteSet(M)
  BY <1>1, <1>2, Positions
<1>6. Len(bl) + Cardinality(Allowed(us)) = Len(us)
  <2> DEFINE A == Allowed(us)
  <2>1. Cardinality(M \ A) = Cardinality(M) - Cardinality(M \cap A)
    BY <1>5, FS_Difference
  <2>2. M \cap A = A
    BY <1>2
  <2>3. Cardinality(M) = Len(us)
    <3>1. 1 \in Int /\ Len(us) \in Int
      BY <1>1
    <3>2. Cardinality(1..Len(us)) = IF 1 > Len(us) THEN 0 ELSE Len(us) - 1 + 1
      BY <3>1, FS_Interval
    <3> QED BY <1>1, <3>2
  <2> HIDE DEF A
  <2>4. Cardinality(keep) = Len(us) - Cardinality(A)
    BY <2>1, <2>2, <2>3 DEF A
  <2>5. Len(us) \in Nat /\ Cardinality(A) \in Nat /\ Len(bl) = Cardinality(keep)
    BY <1>1, <1>4, <1>5 DEF A
  <2> HIDE DEF keep, bl
  <2>6. Len(bl) + Cardinality(A) = Len(us)
    BY <2>4, <2>5
  <2> QED BY <2>6 DEF A
<1> HIDE DEF bl, keep
<1>7. /\ Len(bl) \in Nat /\ DOMAIN bl = 1..Len(bl)
      /\ \A i \in 1..Len(bl) : bl[i] \in Url /\ depths[bl[i]] \in Nat
  <2>1. /\ Len(bl) \in Nat /\ DOMAIN bl = 1..Len(bl) /\ \A i \in 1..Len(bl) : bl[i] \in Url
    BY <1>4, LenProperties, ElementOfSeq
  <2>2. \A u \in Url : depths[u] \in Nat
    BY CrawlAssumption
  <2> QED BY <2>1, <2>2
<1>8. ps = [i \in 1..Len(bl) |-> [url |-> bl[i], depth |-> depths[bl[i]], how |-> "blocked"]]
  BY <1>7 DEF BlockedPages, Page, bl
<1> HIDE DEF ps
<1>9. \A i \in 1..Len(bl) : /\ ps[i] \in PageOf /\ ps[i].url = bl[i]
                            /\ ps[i].depth = depths[bl[i]] /\ ps[i].how = "blocked"
  <2> SUFFICES ASSUME NEW i \in 1..Len(bl)
               PROVE  /\ ps[i] \in PageOf /\ ps[i].url = bl[i]
                      /\ ps[i].depth = depths[bl[i]] /\ ps[i].how = "blocked"
    OBVIOUS
  <2>1. /\ ps[i] = [url |-> bl[i], depth |-> depths[bl[i]], how |-> "blocked"]
        /\ bl[i] \in Url /\ depths[bl[i]] \in Nat
    BY <1>7, <1>8
  <2> QED BY <2>1 DEF PageOf, How
<1>10. ps \in [1..Len(bl) -> PageOf]
  BY <1>8, <1>9
<1>11. ps \in Seq(PageOf) /\ Len(ps) = Len(bl)
  BY <1>7, <1>10, FunctionIsSeq
<1>12. ASSUME NEW i \in 1..Len(bl), NEW j \in 1..Len(bl), i < j
       PROVE  bl[i] # bl[j]
  <2>1. PICK p \in keep, q \in keep : p < q /\ bl[i] = us[p] /\ bl[j] = us[q]
    BY <1>4, <1>12 DEF Follows
  <2>2. p \in 1..Len(us) /\ q \in 1..Len(us) /\ p # q
    BY <1>1, <1>2, <2>1
  <2> QED BY <2>1, <2>2
<1>13. ASSUME NEW i \in 1..Len(ps), NEW j \in 1..Len(ps), i # j
       PROVE  ps[i].url # ps[j].url
  <2>1. i \in 1..Len(bl) /\ j \in 1..Len(bl) /\ (i < j \/ j < i)
    BY <1>7, <1>11, <1>13
  <2> QED BY <1>9, <1>12, <2>1
<1>14. ASSUME NEW n \in 1..Len(ps)
       PROVE  /\ ps[n].depth = depths[ps[n].url] /\ ps[n].how = "blocked"
              /\ \E p \in keep : ps[n].url = us[p]
  <2>1. n \in 1..Len(bl)
    BY <1>11
  <2>2. \E p \in keep : bl[n] = us[p]
    BY <1>4, <2>1 DEF Follows
  <2> QED BY <1>9, <2>1, <2>2
<1>15. ASSUME NEW p \in keep PROVE \E n \in 1..Len(ps) : ps[n].url = us[p]
  <2>1. PICK n \in 1..Len(bl) : bl[n] = us[p]
    BY <1>4 DEF Follows
  <2> QED BY <1>9, <1>11, <2>1
<1> QED
  BY <1>5, <1>6, <1>7, <1>11, <1>13, <1>14, <1>15 DEF ps, bl, keep, BlockedFrom

\* What a round does to the pages and the queue.
RoundSent ==
  /\ pages' \in Seq(PageOf) /\ Len(pages') = Len(pages) + Len(BlockedOf(Slice))
  /\ \A i, j \in 1..Len(pages') : i # j => pages'[i].url # pages'[j].url
  /\ \A i \in 1..Len(pages) : i \in 1..Len(pages') /\ pages'[i] = pages[i]
  /\ \A i \in 1..Len(pages') :
       \/ \E j \in 1..Len(pages) : pages'[i] = pages[j]
       \/ /\ pages'[i].depth = depths[pages'[i].url] /\ pages'[i].how = "blocked"
          /\ \E p \in 1..Len(Slice) : p \notin Allowed(Slice) /\ pages'[i].url = frontier[p]
  /\ \A p \in 1..Len(Slice) : p \notin Allowed(Slice) =>
       \E i \in 1..Len(pages') : pages'[i].url = frontier[p]
  /\ round'.batches \in Seq(Seq(Url)) /\ Layered(round'.batches, Sooner(depths))
  /\ round' = [sent |-> Len(pages'), batches |-> round'.batches]
  /\ answers' = [i \in DOMAIN round'.batches |-> None]
  /\ \A u \in Flight' : \E p \in 1..Len(Slice) : p \in Allowed(Slice) /\ frontier[p] = u
  /\ \A p \in 1..Len(Slice) : p \in Allowed(Slice) => frontier[p] \in Flight'
  /\ IsFiniteSet(Flight') /\ Len(pages') + Cardinality(Flight') <= Len(pages) + Len(Slice)
  /\ Cardinality(Flight') <= Len(Slice)
  /\ frontier' \in Seq(Url) /\ Rising(frontier', Sooner(depths))
  /\ \A u \in Waiting' : \E i \in 1..Len(frontier) : Len(Taken) < i /\ frontier[i] = u
  /\ \A i \in 1..Len(frontier) : Len(Taken) < i => frontier[i] \in Waiting'
  /\ truncated' = truncated \cup (Range(Taken) \ Range(Slice))
  /\ phase' = "waiting" /\ UNCHANGED <<site, seen, depths, capped>>

\* What StartRound sends, records and leaves behind.
LEMMA RoundIs ==
  ASSUME CrawlInv, StartRound
  PROVE  RoundSent
<1> DEFINE sl == Slice
           ps == BlockedPages(sl)
           sent == SentOf(sl)
           n == Len(sl)
           m == Len(Taken)
           L == Len(frontier)
           R == Sooner(depths)
<1>1. /\ Looping
      /\ pages' = pages \o ps
      /\ round' = [sent |-> Len(pages) + Len(BlockedOf(sl)), batches |-> sent]
      /\ answers' = [i \in DOMAIN sent |-> None]
      /\ truncated' = truncated \cup (Range(Taken) \ Range(sl))
      /\ frontier' = SubSeq(frontier, m + 1, L)
      /\ phase' = "waiting" /\ UNCHANGED <<site, seen, depths, capped>>
  BY DEF StartRound, BlockedPages, BlockedOf, SentOf, KeptOf
<1>2. /\ sl \in Seq(Url) /\ n \in Nat /\ DOMAIN sl = 1..n
      /\ m \in Nat /\ n <= m /\ m <= L /\ L \in Nat
      /\ \A i \in 1..n : sl[i] = frontier[i]
  BY <1>1, SliceIs
<1> HIDE DEF sl
<1>3. /\ frontier \in Seq(Url) /\ Rising(frontier, R) /\ depths \in [Url -> 0..maxDepth]
      /\ pages \in Seq(PageOf) /\ \A i, j \in 1..Len(pages) : i # j => pages[i].url # pages[j].url
      /\ Recorded \cap Waiting = {}
  BY DEF CrawlInv, CrawlTypes, Queued
<1>4. /\ \A i \in 1..L : frontier[i] \in Url
      /\ \A i, j \in 1..L : i # j => frontier[i] # frontier[j]
  BY <1>3, FrontierRises
<1>5. \A i \in 1..n : i \in 1..L
  BY <1>2
<1>6. Rising(sl, R)
  BY <1>2, <1>3, <1>5 DEF Rising
<1>7. \A i, j \in 1..n : i # j => sl[i] # sl[j]
  BY <1>2, <1>4, <1>5
<1>8. Allowed(sl) \in SUBSET (1..n)
  BY <1>2 DEF Allowed
<1>9. /\ ps \in Seq(PageOf) /\ Len(ps) = Len(BlockedOf(sl))
      /\ Len(BlockedOf(sl)) + Cardinality(Allowed(sl)) = n
      /\ IsFiniteSet(Allowed(sl)) /\ Cardinality(Allowed(sl)) \in Nat
      /\ Len(BlockedOf(sl)) \in Nat
      /\ \A i, j \in 1..Len(ps) : i # j => ps[i].url # ps[j].url
      /\ \A k \in 1..Len(ps) : /\ ps[k].depth = depths[ps[k].url] /\ ps[k].how = "blocked"
                               /\ \E p \in (1..n) \ Allowed(sl) : ps[k].url = sl[p]
      /\ \A p \in (1..n) \ Allowed(sl) : \E k \in 1..Len(ps) : ps[k].url = sl[p]
  <2>1. BlockedFrom(ps, sl)
    BY <1>2, <1>3, <1>7, BlockedAre
  <2> HIDE DEF ps
  <2> QED BY <2>1 DEF BlockedFrom
<1> HIDE DEF ps
<1>10. \A i \in 1..Len(pages), k \in 1..Len(ps) : pages[i].url # ps[k].url
  <2> SUFFICES ASSUME NEW i \in 1..Len(pages), NEW k \in 1..Len(ps), pages[i].url = ps[k].url
               PROVE  FALSE
    OBVIOUS
  <2>1. PICK p \in 1..n : ps[k].url = frontier[p]
    <3>1. PICK p \in (1..n) \ Allowed(sl) : ps[k].url = sl[p]
      BY <1>9
    <3> QED BY <1>2, <3>1
  <2>2. frontier[p] \in Waiting
    BY <1>4, <1>5 DEF Waiting
  <2>3. pages[i].url \in Recorded
    <3>1. DOMAIN pages = 1..Len(pages)
      BY <1>3, LenProperties
    <3> QED BY <3>1 DEF Recorded
  <2> QED BY <1>3, <2>1, <2>2, <2>3
<1>11. /\ pages' \in Seq(PageOf) /\ Len(pages') = Len(pages) + Len(ps)
       /\ \A i, j \in 1..Len(pages') : i # j => pages'[i].url # pages'[j].url
       /\ \A i \in 1..Len(pages') : \/ \E j \in 1..Len(pages) : pages'[i] = pages[j]
                                    \/ \E j \in 1..Len(ps) : pages'[i] = ps[j]
       /\ \A j \in 1..Len(pages) : j \in 1..Len(pages') /\ pages'[j] = pages[j]
       /\ \A j \in 1..Len(ps) : \E i \in 1..Len(pages') : pages'[i] = ps[j]
  <2>1. ps \in Seq(PageOf) /\ \A i, j \in 1..Len(ps) : i # j => ps[i].url # ps[j].url
    BY <1>9
  <2>2. Grown(pages \o ps, pages, ps)
    BY <1>3, <1>10, <2>1, RecordsGrow
  <2>3. Grown(pages', pages, ps)
    BY <1>1, <2>2
  <2> QED BY <2>3 DEF Grown
<1>12. ASSUME NEW i \in 1..Len(pages')
       PROVE  \/ \E j \in 1..Len(pages) : pages'[i] = pages[j]
              \/ /\ pages'[i].depth = depths[pages'[i].url] /\ pages'[i].how = "blocked"
                 /\ \E p \in 1..n : p \notin Allowed(sl) /\ pages'[i].url = frontier[p]
  <2>1. CASE \E j \in 1..Len(pages) : pages'[i] = pages[j]
    BY <2>1
  <2>2. CASE \E j \in 1..Len(ps) : pages'[i] = ps[j]
    <3>1. PICK j \in 1..Len(ps) : pages'[i] = ps[j]
      BY <2>2
    <3>2. PICK p \in (1..n) \ Allowed(sl) : ps[j].url = sl[p]
      BY <1>9
    <3>3. sl[p] = frontier[p]
      BY <1>2
    <3>4. ps[j].depth = depths[ps[j].url] /\ ps[j].how = "blocked"
      BY <1>9
    <3> QED BY <3>1, <3>2, <3>3, <3>4
  <2> QED BY <1>11, <2>1, <2>2
<1>13. ASSUME NEW p \in 1..n, p \notin Allowed(sl)
       PROVE  \E i \in 1..Len(pages') : pages'[i].url = frontier[p]
  <2>1. PICK k \in 1..Len(ps) : ps[k].url = sl[p]
    BY <1>9, <1>13
  <2>2. PICK i \in 1..Len(pages') : pages'[i] = ps[k]
    BY <1>11
  <2> QED BY <1>2, <2>1, <2>2
<1>14. /\ sent \in Seq(Seq(Url)) /\ Layered(sent, R)
       /\ \A b \in 1..Len(sent) : \A a \in 1..Len(sent[b]) :
            \E p \in Allowed(sl) : sl[p] = sent[b][a]
       /\ \A p \in Allowed(sl) :
            \E b \in 1..Len(sent) : \E a \in 1..Len(sent[b]) : sl[p] = sent[b][a]
  BY <1>2, <1>6, SentIs
<1> HIDE DEF sent
<1>15. round'.batches = sent /\ round' = [sent |-> Len(pages'), batches |-> sent]
  BY <1>1, <1>9, <1>11
<1>16. ASSUME NEW u \in Flight'
       PROVE  \E p \in 1..n : p \in Allowed(sl) /\ frontier[p] = u
  <2>1. PICK b \in 1..Len(sent) : \E a \in 1..Len(sent[b]) : sent[b][a] = u
    BY <1>15 DEF Flight
  <2>4. PICK a \in 1..Len(sent[b]) : sent[b][a] = u
    BY <2>1
  <2>5. \E p \in Allowed(sl) : sl[p] = sent[b][a]
    BY <1>14
  <2>2. PICK p \in Allowed(sl) : sl[p] = u
    BY <2>4, <2>5
  <2>3. p \in 1..n
    BY <1>8
  <2> QED BY <1>2, <2>2, <2>3
<1>17. ASSUME NEW p \in 1..n, p \in Allowed(sl)
       PROVE  frontier[p] \in Flight'
  <2>1. PICK b \in 1..Len(sent) : \E a \in 1..Len(sent[b]) : sl[p] = sent[b][a]
    BY <1>14, <1>17
  <2>2. frontier[p] \in Url /\ sl[p] = frontier[p]
    BY <1>2, <1>4, <1>5
  <2> QED BY <1>15, <2>1, <2>2 DEF Flight
<1>18. IsFiniteSet(Flight') /\ Cardinality(Flight') <= Cardinality(Allowed(sl))
  <2> DEFINE A == Allowed(sl)
             F == Flight'
             f == [p \in A |-> frontier[p]]
  <2>1. IsFiniteSet(A) /\ \A p \in A : frontier[p] \in F
    BY <1>8, <1>9, <1>17
  <2>2. \A u \in F : \E p \in A : frontier[p] = u
    BY <1>16
  <2> HIDE DEF A, F
  <2>3. f \in [A -> F] /\ \A u \in F : \E p \in A : f[p] = u
    BY <2>1, <2>2
  <2>4. f \in Surjection(A, F)
    <3> HIDE DEF f
    <3> QED BY <2>3 DEF Surjection
  <2>5. IsFiniteSet(F) /\ Cardinality(F) <= Cardinality(A)
    <3> HIDE DEF f
    <3> QED BY <2>1, <2>4, FS_Surjection
  <2> QED BY <2>5 DEF A, F
<1>19. Cardinality(Flight') \in Nat
  BY <1>18, FS_CardinalityType
<1>20. /\ Len(pages') + Cardinality(Flight') <= Len(pages) + n
       /\ Cardinality(Flight') <= n
  <2>1. Len(pages) \in Nat
    BY <1>3, LenProperties
  <2> DEFINE x == Cardinality(Flight')
             y == Cardinality(Allowed(sl))
             z == Len(BlockedOf(sl))
  <2>2. /\ x \in Nat /\ y \in Nat /\ z \in Nat /\ x <= y /\ z + y = n
        /\ Len(pages') = Len(pages) + z
    BY <1>9, <1>11, <1>18, <1>19
  <2> HIDE DEF x, y, z, n
  <2>3. (Len(pages) + z) + x <= Len(pages) + n /\ x <= n
    BY <1>2, <2>1, <2>2
  <2> QED BY <2>2, <2>3 DEF x
<1>21. /\ frontier' \in Seq(Url) /\ Len(frontier') = L - m
       /\ \A i \in 1..(L - m) : frontier'[i] = frontier[m + i]
  <2>1. m + 1 \in Int /\ L \in Int /\ \A i \in (m + 1)..L : frontier[i] \in Url
    BY <1>2, <1>4
  <2> DEFINE k == m + 1
  <2>2. k \in Int /\ \A i \in k..L : frontier[i] \in Url
    BY <2>1
  <2> HIDE DEF k, L
  <2>3. /\ SubSeq(frontier, k, L) \in Seq(Url)
        /\ Len(SubSeq(frontier, k, L)) = IF k <= L THEN L - k + 1 ELSE 0
        /\ \A i \in 1..(L - k + 1) : SubSeq(frontier, k, L)[i] = frontier[k + i - 1]
    BY <2>1, <2>2, SubSeqProperties
  <2>4. (IF k <= L THEN L - k + 1 ELSE 0) = L - m /\ L - k + 1 = L - m
    BY <1>2 DEF k
  <2>5. \A i \in 1..(L - m) : k + i - 1 = m + i
    BY <1>2 DEF k
  <2>6. frontier' = SubSeq(frontier, k, L)
    BY <1>1 DEF k
  <2> QED BY <2>3, <2>4, <2>5, <2>6
<1>22. Rising(frontier', R)
  <2> SUFFICES ASSUME NEW i \in 1..Len(frontier'), NEW j \in 1..Len(frontier'), i < j
               PROVE  <<frontier'[i], frontier'[j]>> \in R
    BY DEF Rising
  <2>1. /\ m + i \in 1..L /\ m + j \in 1..L /\ m + i < m + j
        /\ frontier'[i] = frontier[m + i] /\ frontier'[j] = frontier[m + j]
    BY <1>2, <1>21
  <2>2. <<frontier[m + i], frontier[m + j]>> \in R
    BY <1>3, <2>1 DEF Rising
  <2> QED BY <2>1, <2>2
<1>23. ASSUME NEW u \in Waiting'
       PROVE  \E i \in 1..L : m < i /\ frontier[i] = u
  <2>1. PICK i \in 1..Len(frontier') : frontier'[i] = u
    BY DEF Waiting
  <2>2. m + i \in 1..L /\ m < m + i /\ frontier[m + i] = u
    BY <1>2, <1>21, <2>1
  <2> QED BY <2>2
<1>24. ASSUME NEW i \in 1..L, m < i PROVE frontier[i] \in Waiting'
  <2>1. i - m \in 1..(L - m) /\ m + (i - m) = i
    BY <1>2, <1>24
  <2>2. i - m \in 1..Len(frontier') /\ frontier'[i - m] = frontier[i]
    BY <1>21, <2>1
  <2> QED BY <1>4, <2>2 DEF Waiting
<1>25. answers' = [i \in DOMAIN round'.batches |-> None]
  BY <1>1, <1>15
<1>26. /\ Len(pages') = Len(pages) + Len(BlockedOf(sl))
       /\ round'.batches \in Seq(Seq(Url)) /\ Layered(round'.batches, R)
       /\ round' = [sent |-> Len(pages'), batches |-> round'.batches]
  BY <1>9, <1>11, <1>14, <1>15
<1> QED
  BY <1>1, <1>11, <1>12, <1>13, <1>16, <1>17, <1>18, <1>20, <1>21, <1>22, <1>23, <1>24,
     <1>25, <1>26 DEF RoundSent, sl

\* Where the addresses of a round are once it is sent: what was held is held
\* still, or was taken beyond the room left.
RoundPlaced ==
  /\ Flight = {} /\ Recorded \subseteq Recorded'
  /\ \A u \in Recorded' : \/ u \in Recorded
                           \/ \E p \in 1..Len(Slice) : p \notin Allowed(Slice) /\ frontier[p] = u
  /\ \A p \in 1..Len(Slice) : p \notin Allowed(Slice) => frontier[p] \in Recorded'
  /\ Flight' \subseteq Waiting /\ Waiting' \subseteq Waiting
  /\ Recorded' \subseteq Recorded \cup Waiting
  /\ Recorded' \cap Flight' = {} /\ Recorded' \cap Waiting' = {} /\ Flight' \cap Waiting' = {}
  /\ \A u \in Flight', v \in Waiting' : depths[u] <= depths[v]
  /\ \A u \in Waiting : u \in Held' \cup truncated'

\* A round takes its addresses off the frontier and out of no other place.
LEMMA RoundPlaces ==
  ASSUME CrawlInv, Looping, RoundSent
  PROVE  RoundPlaced
<1> DEFINE n == Len(Slice)
           m == Len(Taken)
           L == Len(frontier)
           A == Allowed(Slice)
           f == frontier
<1>1. /\ n \in Nat /\ m \in Nat /\ L \in Nat /\ n <= m /\ m <= L
      /\ DOMAIN Slice = 1..n /\ DOMAIN Taken = 1..m
      /\ (\A i \in 1..n : Slice[i] = f[i]) /\ (\A i \in 1..m : Taken[i] = f[i])
  BY SliceIs
<1>2. /\ \A i \in 1..L : f[i] \in Url
      /\ \A i, j \in 1..L : i # j => f[i] # f[j]
      /\ \A i, j \in 1..L : i < j => depths[f[i]] <= depths[f[j]]
  BY FrontierRises DEF CrawlInv, CrawlTypes, Queued
<1>3. /\ pages \in Seq(PageOf) /\ DOMAIN pages = 1..Len(pages) /\ Len(pages) \in Nat
      /\ pages' \in Seq(PageOf) /\ DOMAIN pages' = 1..Len(pages')
  <2>1. pages \in Seq(PageOf) /\ pages' \in Seq(PageOf)
    BY DEF CrawlInv, CrawlTypes, RoundSent
  <2> QED BY <2>1, LenProperties
<1>4. /\ Recorded = {pages[i].url : i \in 1..Len(pages)}
      /\ Recorded' = {pages'[i].url : i \in 1..Len(pages')}
  BY <1>3 DEF Recorded
<1>5. Flight = {}
  <2>1. round.batches = <<>>
    BY DEF CrawlInv, Phased, Looping
  <2>2. Len(round.batches) = 0
    BY <2>1, EmptySeq
  <2> QED BY <2>2 DEF Flight
<1>6. \A i \in 1..L : f[i] \in Waiting
  BY <1>2 DEF Waiting
<1>7. Recorded \cap Waiting = {}
  BY DEF CrawlInv, Queued
<1>8. /\ \A i \in 1..Len(pages) : i \in 1..Len(pages') /\ pages'[i] = pages[i]
      /\ \A i \in 1..Len(pages') :
           \/ \E j \in 1..Len(pages) : pages'[i] = pages[j]
           \/ \E p \in 1..n : p \notin A /\ pages'[i].url = f[p]
      /\ \A p \in 1..n : p \notin A => \E i \in 1..Len(pages') : pages'[i].url = f[p]
      /\ \A u \in Flight' : \E p \in 1..n : p \in A /\ f[p] = u
      /\ \A p \in 1..n : p \in A => f[p] \in Flight'
      /\ \A u \in Waiting' : \E i \in 1..L : m < i /\ f[i] = u
      /\ \A i \in 1..L : m < i => f[i] \in Waiting'
      /\ truncated' = truncated \cup (Range(Taken) \ Range(Slice))
  BY DEF RoundSent
<1> HIDE DEF n, m, L, A, f
<1>9. Recorded \subseteq Recorded'
  BY <1>4, <1>8
<1>10. ASSUME NEW u \in Recorded'
       PROVE  u \in Recorded \/ \E p \in 1..n : p \notin A /\ f[p] = u
  <2>1. PICK i \in 1..Len(pages') : u = pages'[i].url
    BY <1>4
  <2>2. CASE \E j \in 1..Len(pages) : pages'[i] = pages[j]
    BY <1>4, <2>1, <2>2
  <2>3. CASE \E p \in 1..n : p \notin A /\ pages'[i].url = f[p]
    BY <2>1, <2>3
  <2> QED BY <1>8, <2>2, <2>3
<1>11. \A p \in 1..n : p \notin A => f[p] \in Recorded'
  BY <1>4, <1>8
<1>12. 1..n \subseteq 1..L /\ 1..m \subseteq 1..L /\ \A p \in 1..n : p <= m
  BY <1>1
<1>13. /\ Flight' \subseteq Waiting /\ Waiting' \subseteq Waiting
       /\ Recorded' \subseteq Recorded \cup Waiting
  BY <1>6, <1>8, <1>10, <1>12
<1>14. Recorded' \cap Flight' = {}
  <2> SUFFICES ASSUME NEW u \in Recorded', u \in Flight' PROVE FALSE
    OBVIOUS
  <2>1. PICK q \in 1..n : q \in A /\ f[q] = u
    BY <1>8
  <2>2. u \notin Recorded
    BY <1>7, <1>13
  <2>3. PICK p \in 1..n : p \notin A /\ f[p] = u
    BY <1>10, <2>2
  <2> QED BY <1>2, <1>12, <2>1, <2>3
<1>15. Recorded' \cap Waiting' = {}
  <2> SUFFICES ASSUME NEW u \in Recorded', u \in Waiting' PROVE FALSE
    OBVIOUS
  <2>1. PICK q \in 1..L : m < q /\ f[q] = u
    BY <1>8
  <2>2. u \notin Recorded
    BY <1>7, <1>13
  <2>3. PICK p \in 1..n : p \notin A /\ f[p] = u
    BY <1>10, <2>2
  <2>4. p # q /\ p \in 1..L
    BY <1>1, <2>1, <2>3
  <2> QED BY <1>2, <2>1, <2>3, <2>4
<1>16. ASSUME NEW u \in Flight', NEW v \in Waiting'
       PROVE  u # v /\ depths[u] <= depths[v]
  <2>1. PICK p \in 1..n : p \in A /\ f[p] = u
    BY <1>8
  <2>2. PICK q \in 1..L : m < q /\ f[q] = v
    BY <1>8
  <2>3. p \in 1..L /\ p < q /\ p # q
    BY <1>1, <2>1, <2>2
  <2> QED BY <1>2, <2>1, <2>2, <2>3
<1>17. ASSUME NEW u \in Waiting PROVE u \in Held' \cup truncated'
  <2>1. PICK i \in 1..L : f[i] = u
    BY DEF Waiting, L, f
  <2>2. CASE i <= n
    <3>1. i \in 1..n
      BY <1>1, <2>2
    <3> QED BY <1>8, <1>11, <2>1, <3>1 DEF Held
  <2>3. CASE n < i /\ i <= m
    <3>1. i \in 1..m /\ \A p \in 1..n : p # i /\ p \in 1..L
      BY <1>1, <2>3
    <3>2. u \in Range(Taken)
      BY <1>1, <2>1, <3>1 DEF Range
    <3>3. u \notin Range(Slice)
      BY <1>1, <1>2, <2>1, <3>1 DEF Range
    <3> QED BY <1>8, <3>2, <3>3
  <2>4. CASE m < i
    BY <1>8, <2>1, <2>4 DEF Held
  <2> QED BY <1>1, <2>2, <2>3, <2>4
<1> QED
  BY <1>5, <1>9, <1>10, <1>11, <1>13, <1>14, <1>15, <1>16, <1>17 DEF RoundPlaced, n, A, f

\* A round is sent.
LEMMA StartsRound ==
  ASSUME CrawlInv, GrantStep, StartRound
  PROVE  /\ CrawlInv' /\ seen' = seen /\ site' = site /\ phase' = "waiting"
         /\ Recorded \subseteq Recorded' /\ Recorded' \ Recorded \subseteq seen
<1>1. Looping /\ RoundSent
  BY RoundIs DEF StartRound
<1>2. RoundPlaced
  BY <1>1, RoundPlaces
<1>3. /\ site' = site /\ seen' = seen /\ depths' = depths /\ capped' = capped
      /\ phase = "crawling" /\ phase' = "waiting" /\ frontier # <<>>
  BY <1>1 DEF RoundSent, Looping
<1>4. /\ Len(pages) \in Nat /\ DOMAIN pages = 1..Len(pages) /\ pages \in Seq(PageOf)
      /\ Len(pages') \in Nat /\ DOMAIN pages' = 1..Len(pages') /\ pages' \in Seq(PageOf)
      /\ Len(pages) <= Len(pages')
  <2>1. pages \in Seq(PageOf) /\ pages' \in Seq(PageOf)
    BY <1>1 DEF CrawlInv, CrawlTypes, RoundSent
  <2>2. /\ Len(pages) \in Nat /\ DOMAIN pages = 1..Len(pages)
        /\ Len(pages') \in Nat /\ DOMAIN pages' = 1..Len(pages')
    BY <2>1, LenProperties
  <2>3. \A i \in 1..Len(pages) : i \in 1..Len(pages')
    BY <1>1 DEF RoundSent
  <2>4. Len(pages) <= Len(pages')
    <3>1. CASE Len(pages) = 0
      BY <2>2, <3>1
    <3>2. CASE Len(pages) # 0
      <4>1. Len(pages) \in 1..Len(pages)
        BY <2>2, <3>2
      <4>2. Len(pages) \in 1..Len(pages')
        BY <2>3, <4>1
      <4> QED BY <2>2, <4>2
    <3> QED BY <3>1, <3>2
  <2> QED BY <2>1, <2>2, <2>4
<1>5. /\ Recorded \subseteq Recorded' /\ Recorded' \subseteq Recorded \cup Waiting
      /\ Flight = {} /\ Flight' \subseteq Waiting /\ Waiting' \subseteq Waiting
      /\ Recorded' \cap Flight' = {} /\ Recorded' \cap Waiting' = {}
      /\ Flight' \cap Waiting' = {}
      /\ \A u \in Flight', v \in Waiting' : depths[u] <= depths[v]
      /\ \A u \in Waiting : u \in Held' \cup truncated'
  BY <1>2 DEF RoundPlaced
<1>6. Held' \subseteq Held /\ Flight' \cup Waiting' \subseteq Flight \cup Waiting
  BY <1>5 DEF Held
<1>7. Held \subseteq seen
  BY DEF CrawlInv, Queued
<1>8. ~capped
  BY <1>3 DEF CrawlInv, Phased
<1>9. CrawlTypes'
  <2>1. round'.batches \in Seq(Seq(Url)) /\ round' = [sent |-> Len(pages'), batches |-> round'.batches]
    BY <1>1 DEF RoundSent
  <2>2. round' \in [sent : Nat, batches : Seq(Seq(Url))]
    BY <1>4, <2>1
  <2>3. answers' = [i \in 1..Len(round'.batches) |-> None]
    <3>1. DOMAIN round'.batches = 1..Len(round'.batches)
      BY <2>1, LenProperties
    <3> QED BY <1>1, <3>1 DEF RoundSent
  <2>4. answers' \in [1..Len(round'.batches) -> {None} \cup [capped : BOOLEAN, pages : Seq(Found)]]
    BY <2>3
  <2>5. /\ site \in Sites /\ seen \in SUBSET Url /\ depths \in [Url -> 0..maxDepth]
        /\ capped \in BOOLEAN
    BY DEF CrawlInv, CrawlTypes
  <2>6. frontier' \in Seq(Url) /\ granted' \in Nat \ {0}
    BY <1>1 DEF RoundSent, GrantStep
  <2> QED BY <1>3, <1>4, <2>2, <2>4, <2>5, <2>6 DEF CrawlTypes, Found, How, PageOf
<1>10. Answered'
  <2>1. DOMAIN round'.batches = 1..Len(round'.batches)
    <3>1. round'.batches \in Seq(Seq(Url))
      BY <1>1 DEF RoundSent
    <3> QED BY <3>1, LenProperties
  <2>2. \A b \in 1..Len(round'.batches) : answers'[b] = None
    BY <1>1, <2>1 DEF RoundSent
  <2> QED BY <2>2 DEF Answered
<1>11. Phased'
  <2>1. pages' # <<>>
    <3>1. pages # <<>>
      BY <1>3 DEF CrawlInv, Phased
    <3>2. Len(pages) # 0
      BY <1>4, <3>1, EmptySeq
    <3>3. Len(pages') # 0
      BY <1>4, <3>2
    <3> QED BY <1>4, <3>3, EmptySeq
  <2>2. round'.sent = Len(pages')
    BY <1>1 DEF RoundSent
  <2> QED BY <1>3, <1>8, <2>1, <2>2 DEF Phased
<1>12. Queued'
  <2>1. \A i, j \in 1..Len(pages') : i # j => pages'[i].url # pages'[j].url
    BY <1>1 DEF RoundSent
  <2>2. Rising(frontier', Sooner(depths')) /\ Layered(round'.batches, Sooner(depths'))
    BY <1>1, <1>3 DEF RoundSent
  <2>3. Held' \subseteq seen'
    BY <1>3, <1>6, <1>7
  <2> QED BY <1>3, <1>5, <2>1, <2>2, <2>3 DEF Queued
<1>13. ASSUME NEW i \in 1..Len(pages')
       PROVE  \/ \E j \in 1..Len(pages) : pages'[i] = pages[j]
              \/ pages'[i].depth = depths[pages'[i].url] /\ pages'[i].how = "blocked"
  BY <1>1 DEF RoundSent
<1>14. Levels'
  <2>1. ASSUME NEW i \in 1..Len(pages') PROVE pages'[i].depth = depths'[pages'[i].url]
    BY <1>3, <1>13 DEF CrawlInv, Levels
  <2>2. \A u \in Flight' \cup Waiting', v \in Held' : depths'[v] <= depths'[u] + 1
    BY <1>3, <1>6 DEF CrawlInv, Levels
  <2>3. ASSUME NEW j \in 1..Len(pages'), pages'[j].how = "fetched",
               NEW v \in Range(Reads[site'][pages'[j].url])
        PROVE  /\ v \in Held' => depths'[v] <= depths'[pages'[j].url] + 1
               /\ v \notin seen' => ~crawlable(site', v) \/ depths'[pages'[j].url] = maxDepth
    <3>1. PICK k \in 1..Len(pages) : pages'[j] = pages[k]
      BY <1>13, <2>3
    <3>2. pages[k].how = "fetched" /\ v \in Range(Reads[site][pages[k].url])
      BY <1>3, <2>3, <3>1
    <3>3. /\ v \in Held => depths[v] <= depths[pages[k].url] + 1
          /\ v \notin seen => ~crawlable(site, v) \/ depths[pages[k].url] = maxDepth
      BY <3>2 DEF CrawlInv, Levels
    <3> QED BY <1>3, <1>6, <3>1, <3>3
  <2>4. \A j \in 1..Len(pages') : pages'[j].how = "fetched" =>
          \A v \in Range(Reads[site'][pages'[j].url]) :
            /\ v \in Held' => depths'[v] <= depths'[pages'[j].url] + 1
            /\ v \notin seen' => ~crawlable(site', v) \/ depths'[pages'[j].url] = maxDepth
    BY <2>3
  <2> QED BY <2>1, <2>2, <2>4 DEF Levels, crawlable
<1>15. Room'
  <2> DEFINE c == Cardinality(Flight')
             n == Len(Slice)
  <2>1. IsFiniteSet(Flight') /\ Len(pages') + c <= Len(pages) + n /\ c <= n
    BY <1>1 DEF RoundSent
  <2>2. n \in Nat /\ n <= BATCH * PARALLEL /\ Len(pages) + n <= maxPages
    BY <1>1, SliceIs
  <2>3. c \in Nat
    BY <2>1, FS_CardinalityType
  <2>4. maxPages \in Nat /\ BATCH * PARALLEL \in Nat
    BY CrawlAssumption
  <2> HIDE DEF c, n
  <2>5. Len(pages') + c <= maxPages /\ c <= BATCH * PARALLEL
    BY <1>4, <2>1, <2>2, <2>3, <2>4
  <2> QED BY <2>1, <2>5 DEF Room, c
<1>16. Accounted'
  <2>1. seen \subseteq Held \cup truncated
    BY <1>8 DEF CrawlInv, Accounted
  <2>2. truncated \subseteq truncated'
    BY <1>1 DEF RoundSent
  <2>3. Recorded \subseteq Held'
    BY <1>5 DEF Held
  <2>4. Held \subseteq Held' \cup truncated'
    BY <1>5, <2>3 DEF Held
  <2> QED BY <1>3, <2>1, <2>2, <2>4 DEF Accounted
<1>17. FetchedWithinPlan'
  <2> DEFINE F == {i \in DOMAIN pages : pages[i].how = "fetched"}
             G == {i \in DOMAIN pages' : pages'[i].how = "fetched"}
  <2>1. /\ \A i \in 1..Len(pages) : i \in 1..Len(pages') /\ pages'[i] = pages[i]
        /\ \A i, j \in 1..Len(pages') : i # j => pages'[i].url # pages'[j].url
    BY <1>1 DEF RoundSent
  <2>2. F = G
    <3>1. ASSUME NEW i \in G PROVE i \in F
      <4>1. i \in 1..Len(pages') /\ pages'[i].how = "fetched"
        BY <1>4
      <4>2. PICK j \in 1..Len(pages) : pages'[i] = pages[j]
        BY <1>13, <4>1
      <4>3. i = j
        BY <2>1, <4>1, <4>2
      <4> QED BY <1>4, <4>1, <4>2, <4>3
    <3> QED BY <1>4, <2>1, <3>1
  <2>3. Cardinality(F) < granted + BATCH * PARALLEL /\ Cardinality(F) \in Nat
    BY <1>4, FetchedAmong DEF CrawlInv, FetchedWithinPlan
  <2>4. BATCH * PARALLEL \in Nat /\ granted \in Nat /\ granted' \in Nat /\ granted <= granted'
    BY CrawlAssumption DEF GrantStep
  <2> HIDE DEF F
  <2>5. Cardinality(F) < granted' + BATCH * PARALLEL
    BY <2>3, <2>4, MoreGranted
  <2> QED BY <2>2, <2>5 DEF FetchedWithinPlan
<1>18. Recorded' \ Recorded \subseteq seen
  BY <1>5, <1>7 DEF Held
<1> QED
  BY <1>3, <1>5, <1>9, <1>10, <1>11, <1>12, <1>14, <1>15, <1>16, <1>17, <1>18 DEF CrawlInv

-----------------------------------------------------------------------------
\* The pages the answers of a round are recorded as.
FoundPages(found) ==
  [i \in DOMAIN found |-> Page(found[i].url, depths[found[i].url], found[i].how)]

\* What applying the answers of a round records, and out of which batches.
RoundRead(found) ==
  /\ found \in Seq(Found) /\ Rising(found, Nearer)
  /\ Len(found) \in Nat /\ Len(found) <= Cardinality(Flight)
  /\ \A n \in 1..Len(found) : /\ found[n] \in Found /\ Reported(found[n])
                               /\ found[n].url \in Flight
  /\ pages' \in Seq(PageOf) /\ Len(pages') = Len(pages) + Len(found)
  /\ \A i, j \in 1..Len(pages') : i # j => pages'[i].url # pages'[j].url
  /\ \A i \in 1..Len(pages) : i \in 1..Len(pages') /\ pages'[i] = pages[i]
  /\ \A i \in 1..Len(pages') :
       (\E j \in 1..Len(pages) : pages'[i] = pages[j])
         \/ (\E n \in 1..Len(found) : /\ pages'[i].url = found[n].url
                                       /\ pages'[i].how = found[n].how
                                       /\ pages'[i].depth = depths[found[n].url])
  /\ \A n \in 1..Len(found) : \E i \in 1..Len(pages') : pages'[i].url = found[n].url

\* The pages of a round are apart from each other, and there are no more of
\* them than there are addresses in flight.
LEMMA FoundApart ==
  ASSUME NEW found \in Seq(Found), Rising(found, Nearer), IsFiniteSet(Flight),
         \A n \in 1..Len(found) : found[n].url \in Flight
  PROVE  /\ \A i, j \in 1..Len(found) : i # j => found[i].url # found[j].url
         /\ Len(found) \in Nat /\ Len(found) <= Cardinality(Flight)
<1>1. Len(found) \in Nat /\ \A i \in 1..Len(found) : found[i] \in Found
  BY LenProperties, ElementOfSeq
<1>2. ASSUME NEW i \in 1..Len(found), NEW j \in 1..Len(found), i < j
      PROVE  found[i].url # found[j].url
  <2>1. <<found[i], found[j]>> \in Nearer
    BY <1>2 DEF Rising
  <2>2. <<found[i].url, found[j].url>> \in Sooner(depths)
    BY <2>1 DEF Nearer
  <2> QED BY <2>2 DEF Sooner
<1>3. ASSUME NEW i \in 1..Len(found), NEW j \in 1..Len(found), i # j
      PROVE  found[i].url # found[j].url
  <2>1. i < j \/ j < i
    BY <1>1, <1>3
  <2> QED BY <1>2, <2>1
<1>4. Len(found) <= Cardinality(Flight)
  <2> DEFINE L == Len(found)
             S == 1..L
             F == Flight
             f == [n \in S |-> found[n].url]
  <2>1. L \in Nat /\ IsFiniteSet(F) /\ \A n \in S : found[n].url \in F
    BY <1>1
  <2>2. \A i, j \in S : i # j => found[i].url # found[j].url
    BY <1>3
  <2> HIDE DEF S, F
  <2>3. f \in [S -> F] /\ \A i, j \in S : f[i] = f[j] => i = j
    BY <2>1, <2>2
  <2>4. f \in Injection(S, F)
    <3> HIDE DEF f
    <3>1. DOMAIN f = S
      BY <2>3
    <3> QED BY <2>3, <3>1 DEF Injection, IsInjective
  <2>5. Cardinality(S) <= Cardinality(F)
    <3> HIDE DEF f
    <3> QED BY <2>1, <2>4, FS_Injection
  <2>6. Cardinality(S) = L
    <3>1. 1 \in Int /\ L \in Int
      BY <2>1
    <3> HIDE DEF L
    <3>2. Cardinality(1..L) = IF 1 > L THEN 0 ELSE L - 1 + 1
      BY <3>1, FS_Interval
    <3>3. (IF 1 > L THEN 0 ELSE L - 1 + 1) = L
      BY <2>1
    <3> QED BY <3>2, <3>3 DEF S
  <2> QED BY <2>5, <2>6 DEF F
<1> QED
  BY <1>1, <1>3, <1>4

\* What FinishRound does, in these words.
Applied(upto) ==
  /\ upto \in 0..Len(answers) /\ \A b \in 1..upto : ~answers[b].capped
  /\ pages' = pages \o FoundPages(FoundOf(upto))
  /\ \/ /\ upto = Len(answers) /\ Enqueue(seen, frontier, OfferedOf(FoundOf(upto)))
        /\ capped' = capped
     \/ Cut(OfferedOf(FoundOf(upto))) /\ capped' = TRUE

\* FinishRound applies the answers up to some position.
LEMMA FinishApplies ==
  ASSUME FinishRound
  PROVE  \E upto \in 0..Len(answers) : Applied(upto)
<1>1. PICK upto \in {n \in 0..Len(answers) : (\A b \in 1..n : ~answers[b].capped)
                                              /\ (n < Len(answers) => answers[n + 1].capped)} :
      \E found \in {FlattenSeq([i \in 1..upto |-> answers[i].pages])} :
      \E offered \in {FlattenSeq([i \in DOMAIN found |-> OfferedBy(found[i])])} :
        /\ pages' = pages \o [i \in DOMAIN found |->
                                Page(found[i].url, depths[found[i].url], found[i].how)]
        /\ IF upto = Len(answers)
           THEN Enqueue(seen, frontier, offered) /\ UNCHANGED capped
           ELSE Cut(offered) /\ capped' = TRUE
  BY Zenon DEF FinishRound
<1>2. upto \in 0..Len(answers) /\ \A b \in 1..upto : ~answers[b].capped
  BY Zenon
<1>3. /\ pages' = pages \o FoundPages(FoundOf(upto))
      /\ IF upto = Len(answers)
         THEN Enqueue(seen, frontier, OfferedOf(FoundOf(upto))) /\ UNCHANGED capped
         ELSE Cut(OfferedOf(FoundOf(upto))) /\ capped' = TRUE
  BY <1>1, Zenon DEF FoundPages, FoundOf, OfferedOf
<1> QED
  BY <1>2, <1>3, Zenon DEF Applied

\* The answers of a round are recorded.
LEMMA RoundReads ==
  ASSUME CrawlInv, FinishRound, NEW upto \in 0..Len(answers), Applied(upto)
  PROVE  RoundRead(FoundOf(upto))
<1> DEFINE found == FoundOf(upto)
           qs == FoundPages(found)
<1>1. /\ CrawlTypes /\ Answered /\ Layered(round.batches, Sooner(depths))
      /\ \A b \in DOMAIN answers : answers[b] # None
      /\ \A b \in 1..upto : ~answers[b].capped
      /\ pages' = pages \o qs
  BY Zenon DEF CrawlInv, Queued, FinishRound, Applied
<1>2. /\ found \in Seq(Found) /\ Rising(found, Nearer)
      /\ \A n \in 1..Len(found) : /\ found[n] \in Found /\ Reported(found[n])
                                   /\ found[n].url \in Flight
  BY <1>1, FoundAre
<1> HIDE DEF found
<1>3. /\ \A i, j \in 1..Len(found) : i # j => found[i].url # found[j].url
      /\ Len(found) \in Nat /\ Len(found) <= Cardinality(Flight) /\ DOMAIN found = 1..Len(found)
  <2>1. IsFiniteSet(Flight)
    BY DEF CrawlInv, Room
  <2>2. \A n \in 1..Len(found) : found[n].url \in Flight
    BY <1>2
  <2>3. DOMAIN found = 1..Len(found)
    BY <1>2, LenProperties
  <2> QED BY <1>2, <2>1, <2>2, <2>3, FoundApart
<1>4. \A n \in 1..Len(found) : /\ qs[n].url = found[n].url /\ qs[n].how = found[n].how
                                /\ qs[n].depth = depths[found[n].url] /\ qs[n] \in PageOf
  <2> SUFFICES ASSUME NEW n \in 1..Len(found)
               PROVE  /\ qs[n].url = found[n].url /\ qs[n].how = found[n].how
                      /\ qs[n].depth = depths[found[n].url] /\ qs[n] \in PageOf
    OBVIOUS
  <2>1. qs[n] = [url |-> found[n].url, depth |-> depths[found[n].url], how |-> found[n].how]
    BY <1>3 DEF FoundPages, Page
  <2>2. found[n].url \in Url /\ found[n].how \in How
    BY <1>2 DEF Found
  <2>3. depths[found[n].url] \in Nat
    BY <1>1, <2>2, CrawlAssumption DEF CrawlTypes
  <2> QED BY <2>1, <2>2, <2>3 DEF PageOf
<1>5. qs \in Seq(PageOf) /\ Len(qs) = Len(found)
  <2>1. qs = [n \in 1..Len(found) |-> qs[n]]
    BY <1>3 DEF FoundPages
  <2> HIDE DEF qs
  <2>2. qs \in [1..Len(found) -> PageOf]
    BY <1>4, <2>1
  <2> QED BY <1>3, <2>2, FunctionIsSeq
<1> HIDE DEF qs
<1>6. /\ pages \in Seq(PageOf) /\ Len(pages) \in Nat /\ DOMAIN pages = 1..Len(pages)
      /\ \A i, j \in 1..Len(pages) : i # j => pages[i].url # pages[j].url
  <2>1. pages \in Seq(PageOf)
    BY DEF CrawlInv, CrawlTypes
  <2> QED BY <2>1, LenProperties DEF CrawlInv, Queued
<1>7. \A i \in 1..Len(pages), j \in 1..Len(qs) : pages[i].url # qs[j].url
  <2>1. \A i \in 1..Len(pages) : pages[i].url \in Recorded
    BY <1>6 DEF Recorded
  <2>2. Recorded \cap Flight = {}
    BY DEF CrawlInv, Queued
  <2> QED BY <1>2, <1>4, <1>5, <2>1, <2>2
<1>8. \A i, j \in 1..Len(qs) : i # j => qs[i].url # qs[j].url
  BY <1>3, <1>4, <1>5
<1>9. Grown(pages', pages, qs)
  BY <1>1, <1>5, <1>6, <1>7, <1>8, RecordsGrow
<1>10. /\ pages' \in Seq(PageOf) /\ Len(pages') = Len(pages) + Len(qs)
       /\ \A i, j \in 1..Len(pages') : i # j => pages'[i].url # pages'[j].url
       /\ \A i \in 1..Len(pages') : (\E j \in 1..Len(pages) : pages'[i] = pages[j])
                                      \/ (\E j \in 1..Len(qs) : pages'[i] = qs[j])
       /\ \A j \in 1..Len(pages) : j \in 1..Len(pages') /\ pages'[j] = pages[j]
       /\ \A j \in 1..Len(qs) : \E i \in 1..Len(pages') : pages'[i] = qs[j]
  BY <1>9 DEF Grown
<1>11. ASSUME NEW i \in 1..Len(pages')
       PROVE  (\E j \in 1..Len(pages) : pages'[i] = pages[j])
                \/ (\E n \in 1..Len(found) : /\ pages'[i].url = found[n].url
                                              /\ pages'[i].how = found[n].how
                                              /\ pages'[i].depth = depths[found[n].url])
  <2>1. CASE \E j \in 1..Len(pages) : pages'[i] = pages[j]
    BY <2>1
  <2>2. CASE \E j \in 1..Len(qs) : pages'[i] = qs[j]
    <3>1. PICK j \in 1..Len(qs) : pages'[i] = qs[j]
      BY <2>2
    <3> QED BY <1>4, <1>5, <3>1
  <2> QED BY <1>10, <2>1, <2>2
<1>12. ASSUME NEW n \in 1..Len(found)
       PROVE  \E i \in 1..Len(pages') : pages'[i].url = found[n].url
  <2>1. n \in 1..Len(qs)
    BY <1>5
  <2>2. PICK i \in 1..Len(pages') : pages'[i] = qs[n]
    BY <1>10, <2>1
  <2> QED BY <1>4, <2>2
<1>13. Len(pages') = Len(pages) + Len(found)
  BY <1>5, <1>10
<1> QED
  BY <1>2, <1>3, <1>10, <1>11, <1>12, <1>13, Zenon DEF RoundRead, found

\* Nothing is in flight after a round, and what was is recorded, if it was read.
LEMMA RoundOver ==
  ASSUME CrawlInv, FinishRound, NEW found, RoundRead(found)
  PROVE  /\ Flight' = {} /\ Recorded \subseteq Recorded'
         /\ Recorded' \subseteq Recorded \cup Flight
         /\ \A n \in 1..Len(found) : found[n].url \in Recorded'
         /\ Len(pages) \in Nat /\ DOMAIN pages = 1..Len(pages)
         /\ Len(pages') \in Nat /\ DOMAIN pages' = 1..Len(pages')
<1>1. /\ pages \in Seq(PageOf) /\ pages' \in Seq(PageOf)
  BY DEF CrawlInv, CrawlTypes, RoundRead
<1>2. /\ Len(pages) \in Nat /\ DOMAIN pages = 1..Len(pages)
      /\ Len(pages') \in Nat /\ DOMAIN pages' = 1..Len(pages')
  BY <1>1, LenProperties
<1>3. /\ Recorded = {pages[i].url : i \in 1..Len(pages)}
      /\ Recorded' = {pages'[i].url : i \in 1..Len(pages')}
  BY <1>2 DEF Recorded
<1>4. Flight' = {}
  <2>1. round'.batches = <<>>
    BY DEF FinishRound
  <2>2. Len(round'.batches) = 0
    BY <2>1, EmptySeq
  <2> QED BY <2>2 DEF Flight
<1>5. Recorded \subseteq Recorded'
  BY <1>3 DEF RoundRead
<1>6. ASSUME NEW u \in Recorded' PROVE u \in Recorded \cup Flight
  <2>1. PICK i \in 1..Len(pages') : u = pages'[i].url
    BY <1>3
  <2>2. CASE \E j \in 1..Len(pages) : pages'[i] = pages[j]
    BY <1>3, <2>1, <2>2
  <2>3. CASE \E n \in 1..Len(found) : pages'[i].url = found[n].url
    BY <2>1, <2>3 DEF RoundRead
  <2> QED BY <2>2, <2>3 DEF RoundRead
<1>7. ASSUME NEW n \in 1..Len(found) PROVE found[n].url \in Recorded'
  <2>1. PICK i \in 1..Len(pages') : pages'[i].url = found[n].url
    BY DEF RoundRead
  <2> QED BY <1>3, <2>1
<1> QED
  BY <1>2, <1>4, <1>5, <1>6, <1>7

\* What the pages of a round link to, once it has been offered: known from
\* here on, at most a level below the page, and waiting unless the crawl was
\* refused more pages.
Spread(found) ==
  /\ seen \subseteq seen' /\ seen' \in SUBSET Url
  /\ depths' \in [Url -> 0..maxDepth] /\ \A u \in seen : depths'[u] = depths[u]
  /\ Held' \subseteq Held \cup (seen' \ seen)
  /\ \A u \in Held' \ seen :
       /\ crawlable(site, u)
       /\ \A n \in 1..Len(found) :
            (u \in Range(found[n].links) /\ depths[found[n].url] # maxDepth)
              => depths'[u] <= depths[found[n].url] + 1
  /\ \A n \in 1..Len(found) : \A v \in Range(found[n].links) :
       v \in seen' \/ ~crawlable(site, v) \/ depths[found[n].url] = maxDepth
  /\ \A u \in seen' \ seen : \E n \in 1..Len(found) : u \in Range(found[n].links)
  /\ frontier' \in Seq(Url) /\ Rising(frontier', Sooner(depths'))
  /\ Recorded' \cap Waiting' = {} /\ Waiting' \subseteq seen'
  /\ \A u \in Waiting', v \in Held' : depths'[v] <= depths'[u] + 1
  /\ capped' \in BOOLEAN /\ (capped' => frontier' = <<>>)
  /\ ~capped' => seen' \subseteq Held' \cup truncated

\* The depths of a queue that were known before a step are its depths after it.
LEMMA StillRising ==
  ASSUME NEW us \in Seq(Url), NEW d, NEW e, NEW S,
         \A i \in 1..Len(us) : us[i] \in S, \A u \in S : e[u] = d[u], Rising(us, Sooner(d))
  PROVE  Rising(us, Sooner(e))
<1> SUFFICES ASSUME NEW n \in 1..Len(us), NEW k \in 1..Len(us), n < k
             PROVE  <<us[n], us[k]>> \in Sooner(e)
  BY DEF Rising
<1>1. <<us[n], us[k]>> \in Sooner(d)
  BY DEF Rising
<1>2. us[n] \in Url /\ us[k] \in Url /\ us[n] # us[k] /\ d[us[n]] <= d[us[k]]
  BY <1>1 DEF Sooner
<1>3. e[us[n]] = d[us[n]] /\ e[us[k]] = d[us[k]]
  OBVIOUS
<1> QED
  BY <1>2, <1>3 DEF Sooner

\* A refusal: the rest of the answers is dropped and so is the frontier.
LEMMA CutSpreads ==
  ASSUME CrawlInv, FinishRound, NEW found, RoundRead(found),
         Cut(OfferedOf(found)), capped' = TRUE
  PROVE  Spread(found)
<1> DEFINE offers == OfferedOf(found)
<1>1. /\ Flight' = {} /\ Recorded' \subseteq Recorded \cup Flight
  BY RoundOver
<1>2. /\ seen \in SUBSET Url /\ depths \in [Url -> 0..maxDepth] /\ site \in Sites
      /\ maxDepth \in Nat
  BY CrawlAssumption DEF CrawlInv, CrawlTypes
<1>3. /\ offers \in Seq(Offer) /\ Rising(offers, Shallower)
      /\ \A k \in 1..Len(offers) : \E n \in 1..Len(found) :
           /\ depths[found[n].url] < maxDepth
           /\ offers[k].depth = depths[found[n].url] + 1
           /\ offers[k].url \in Range(found[n].links)
      /\ \A n \in 1..Len(found) : depths[found[n].url] # maxDepth =>
           \A v \in Range(found[n].links) : \E k \in 1..Len(offers) :
             /\ offers[k].url = v
             /\ offers[k].depth = depths[found[n].url] + 1
  BY <1>2, OfferedAre DEF RoundRead
<1>4. /\ seen' = seen \cup {offers[k].url : k \in Accepted(seen, offers)}
      /\ frontier' = <<>> /\ depths' = depths
  BY DEF Cut
<1> HIDE DEF offers
<1>5. /\ Len(offers) \in Nat /\ DOMAIN offers = 1..Len(offers)
      /\ \A k \in 1..Len(offers) : offers[k].url \in Url /\ offers[k].depth \in Nat
  BY <1>3, OffersTyped
<1>6. Accepted(seen, offers) \subseteq 1..Len(offers)
  BY <1>5 DEF Accepted
<1>7. seen \subseteq seen' /\ seen' \in SUBSET Url
  BY <1>2, <1>4, <1>5, <1>6
<1>8. Waiting' = {}
  <2>1. Len(frontier') = 0
    BY <1>4, EmptySeq
  <2> QED BY <2>1 DEF Waiting
<1>9. Held' \subseteq Held /\ Held \subseteq seen
  BY <1>1, <1>8 DEF Held, CrawlInv, Queued
<1>10. ASSUME NEW n \in 1..Len(found), NEW v \in Range(found[n].links)
       PROVE  v \in seen' \/ ~crawlable(site, v) \/ depths[found[n].url] = maxDepth
  <2> SUFFICES ASSUME v \notin seen', crawlable(site, v), depths[found[n].url] # maxDepth
               PROVE  FALSE
    OBVIOUS
  <2>1. PICK k \in 1..Len(offers) : offers[k].url = v /\ offers[k].depth = depths[found[n].url] + 1
    BY <1>3
  <2>2. depths[found[n].url] \in 0..maxDepth
    <3>1. found[n].url \in Url
      BY DEF RoundRead, Found
    <3> QED BY <1>2, <3>1
  <2>3. offers[k].depth <= maxDepth
    BY <1>2, <2>1, <2>2
  <2>4. offers[k].url \notin seen /\ crawlable(site, offers[k].url)
    BY <1>7, <2>1
  <2>5. PICK j \in Accepted(seen, offers) : offers[j].url = offers[k].url
    BY <1>3, <2>3, <2>4, AcceptedFirst
  <2> QED BY <1>4, <2>1, <2>5
<1>11. ASSUME NEW u \in seen' \ seen
       PROVE  \E n \in 1..Len(found) : u \in Range(found[n].links)
  <2>1. PICK k \in 1..Len(offers) : u = offers[k].url
    BY <1>4, <1>6
  <2> QED BY <1>3, <2>1
<1>12. frontier' \in Seq(Url) /\ Rising(frontier', Sooner(depths'))
  <2>1. Len(frontier') = 0
    BY <1>4, EmptySeq
  <2>2. Rising(frontier', Sooner(depths'))
    BY <2>1 DEF Rising
  <2> QED BY <1>4, <2>2, EmptySeq
<1> QED
  BY <1>2, <1>4, <1>7, <1>8, <1>9, <1>10, <1>11, <1>12 DEF Spread

\* No refusal: every answer is applied and what is new goes to the end of the
\* frontier, which nothing in it is more than a level above.
LEMMA EnqueueSpreads ==
  ASSUME CrawlInv, FinishRound, NEW found, RoundRead(found),
         Flight \subseteq Recorded',
         Enqueue(seen, frontier, OfferedOf(found)), capped' = capped
  PROVE  Spread(found)
<1> DEFINE offers == OfferedOf(found)
           new == seen' \ seen
<1>1. /\ Flight' = {} /\ Recorded \subseteq Recorded' /\ Recorded' \subseteq Recorded \cup Flight
  BY RoundOver
<1>2. /\ seen \in SUBSET Url /\ depths \in [Url -> 0..maxDepth] /\ frontier \in Seq(Url)
      /\ maxDepth \in Nat /\ 0..maxDepth \subseteq Nat
  BY CrawlAssumption DEF CrawlInv, CrawlTypes
<1>3. /\ offers \in Seq(Offer) /\ Rising(offers, Shallower)
      /\ \A k \in 1..Len(offers) : \E n \in 1..Len(found) :
           /\ depths[found[n].url] < maxDepth
           /\ offers[k].depth = depths[found[n].url] + 1
           /\ offers[k].url \in Range(found[n].links)
      /\ \A n \in 1..Len(found) : depths[found[n].url] # maxDepth =>
           \A v \in Range(found[n].links) : \E k \in 1..Len(offers) :
             /\ offers[k].url = v
             /\ offers[k].depth = depths[found[n].url] + 1
  BY <1>2, OfferedAre DEF RoundRead
<1> HIDE DEF offers
<1>4. Enqueued(seen, frontier, offers)
  BY <1>2, <1>3, EnqueueIs DEF offers
<1>5. /\ seen' \in SUBSET Url /\ seen \subseteq seen'
      /\ depths' \in [Url -> 0..maxDepth]
      /\ \A u \in Url : u \notin seen' \ seen => depths'[u] = depths[u]
      /\ \A u \in seen' \ seen :
           \E k \in 1..Len(offers) : /\ offers[k].url = u /\ offers[k].depth = depths'[u]
                                     /\ crawlable(site, u)
                                     /\ \A j \in 1..Len(offers) :
                                          offers[j].url = u => depths'[u] <= offers[j].depth
      /\ \A k \in 1..Len(offers) :
           \/ offers[k].url \in seen' \/ ~crawlable(site, offers[k].url)
           \/ ~(offers[k].depth <= maxDepth)
  BY <1>4 DEF Enqueued
<1>6. PICK added \in Seq(Url) :
        /\ frontier' = frontier \o added
        /\ \A i \in 1..Len(added) : added[i] \in seen' \ seen
        /\ \A u \in seen' \ seen : \E i \in 1..Len(added) : added[i] = u
        /\ Rising(added, Sooner(depths'))
  BY <1>4 DEF Enqueued
<1>7. \A u \in seen : depths'[u] = depths[u]
  BY <1>2, <1>5
<1>8. /\ Held \subseteq seen /\ Recorded \cap Waiting = {} /\ Flight \cap Waiting = {}
      /\ \A u \in Flight, v \in Waiting : depths[u] <= depths[v]
      /\ \A u \in Flight \cup Waiting, v \in Held : depths[v] <= depths[u] + 1
      /\ Rising(frontier, Sooner(depths))
  BY DEF CrawlInv, Queued, Levels
<1>9. \A n \in 1..Len(found) : found[n].url \in Flight /\ found[n].url \in Url
                                /\ depths[found[n].url] \in 0..maxDepth
  <2>1. \A n \in 1..Len(found) : found[n].url \in Flight /\ found[n].url \in Url
    BY DEF RoundRead, Found
  <2> QED BY <1>2, <2>1
<1>10. ASSUME NEW u \in new
       PROVE  \E x \in Flight : depths'[u] = depths[x] + 1
  <2>1. PICK k \in 1..Len(offers) : offers[k].url = u /\ offers[k].depth = depths'[u]
    BY <1>5
  <2>2. PICK n \in 1..Len(found) : offers[k].depth = depths[found[n].url] + 1
    BY <1>3
  <2> QED BY <1>9, <2>1, <2>2
<1>11. /\ \A u \in Flight : u \in Held /\ u \in Url
       /\ \A u \in Waiting : u \in Held /\ u \in Url
       /\ \A u \in Held : depths[u] \in Nat /\ depths'[u] = depths[u] /\ u \notin new
  <2>1. Flight \subseteq Url /\ Waiting \subseteq Url
    BY DEF Flight, Waiting
  <2>2. \A u \in Held : u \in seen /\ u \in Url
    BY <1>2, <1>8
  <2>3. \A u \in Url : depths[u] \in Nat
    BY <1>2
  <2> QED BY <1>7, <2>1, <2>2, <2>3 DEF Held
<1>12. \A i \in 1..Len(frontier) : frontier[i] \in Waiting /\ frontier[i] \in seen
  <2>1. \A i \in 1..Len(frontier) : frontier[i] \in Url
    <3>1. Len(frontier) \in Nat
      BY <1>2, LenProperties
    <3> QED BY <1>2, <3>1, ElementOfSeq
  <2>2. \A i \in 1..Len(frontier) : frontier[i] \in Waiting
    BY <2>1 DEF Waiting
  <2> QED BY <1>8, <1>11, <2>2
<1>13. /\ frontier' \in Seq(Url) /\ Rising(frontier', Sooner(depths'))
       /\ \A u \in Waiting' : u \in Waiting \/ u \in new
       /\ \A u \in Waiting : u \in Waiting' /\ \A v \in new : v \in Waiting'
       /\ \A v \in new : v \in Waiting'
  <2>1. Rising(frontier, Sooner(depths'))
    BY <1>2, <1>7, <1>8, <1>12, StillRising
  <2>2. ASSUME NEW i \in 1..Len(frontier), NEW j \in 1..Len(added)
        PROVE  <<frontier[i], added[j]>> \in Sooner(depths')
    <3> DEFINE v == frontier[i]
               w == added[j]
    <3>1. w \in new /\ w \in Url
      BY <1>5, <1>6
    <3>2. v \in Waiting /\ v \in seen /\ v \in Url /\ v \in Held
      BY <1>2, <1>11, <1>12
    <3>3. PICK x \in Flight : depths'[w] = depths[x] + 1
      BY <1>10, <3>1
    <3> HIDE DEF v, w
    <3>4. depths[v] <= depths[x] + 1 /\ depths'[v] = depths[v]
      BY <1>7, <1>8, <3>2
    <3>5. v # w
      BY <3>1, <3>2
    <3>6. depths'[v] <= depths'[w]
      BY <3>3, <3>4
    <3>7. <<v, w>> \in Sooner(depths')
      BY <3>1, <3>2, <3>5, <3>6 DEF Sooner
    <3> QED BY <3>7 DEF v, w
  <2>3. /\ frontier' \in Seq(Url) /\ Rising(frontier', Sooner(depths'))
        /\ \A i \in 1..Len(frontier') : \/ \E j \in 1..Len(frontier) : frontier'[i] = frontier[j]
                                        \/ \E j \in 1..Len(added) : frontier'[i] = added[j]
        /\ \A j \in 1..Len(frontier) : \E i \in 1..Len(frontier') : frontier'[i] = frontier[j]
        /\ \A j \in 1..Len(added) : \E i \in 1..Len(frontier') : frontier'[i] = added[j]
    <3> DEFINE R == Sooner(depths')
               g == frontier \o added
    <3>1. /\ Rising(frontier, R) /\ Rising(added, R)
          /\ \A i \in 1..Len(frontier), j \in 1..Len(added) : <<frontier[i], added[j]>> \in R
      BY <1>6, <2>1, <2>2
    <3>2. frontier' = g
      BY <1>6
    <3> HIDE DEF R
    <3>3. /\ g \in Seq(Url) /\ Rising(g, R)
          /\ \A i \in 1..Len(g) : \/ \E j \in 1..Len(frontier) : g[i] = frontier[j]
                                  \/ \E j \in 1..Len(added) : g[i] = added[j]
          /\ \A j \in 1..Len(frontier) : \E i \in 1..Len(g) : g[i] = frontier[j]
          /\ \A j \in 1..Len(added) : \E i \in 1..Len(g) : g[i] = added[j]
      BY <1>2, <3>1, QueueGrows
    <3> HIDE DEF g
    <3> QED BY <3>2, <3>3 DEF R
  <2>4. ASSUME NEW u \in Waiting' PROVE u \in Waiting \/ u \in new
    <3>1. PICK i \in 1..Len(frontier') : frontier'[i] = u
      BY DEF Waiting
    <3>2. CASE \E j \in 1..Len(frontier) : frontier'[i] = frontier[j]
      BY <1>12, <3>1, <3>2
    <3>3. CASE \E j \in 1..Len(added) : frontier'[i] = added[j]
      BY <1>6, <3>1, <3>3
    <3> QED BY <2>3, <3>2, <3>3
  <2>5. ASSUME NEW u \in Waiting PROVE u \in Waiting'
    <3>1. PICK j \in 1..Len(frontier) : frontier[j] = u
      BY DEF Waiting
    <3>2. PICK i \in 1..Len(frontier') : frontier'[i] = frontier[j]
      BY <2>3
    <3> QED BY <1>11, <3>1, <3>2 DEF Waiting
  <2>6. ASSUME NEW v \in new PROVE v \in Waiting'
    <3>1. PICK j \in 1..Len(added) : added[j] = v
      BY <1>6
    <3>2. PICK i \in 1..Len(frontier') : frontier'[i] = added[j]
      BY <2>3
    <3> QED BY <1>5, <3>1, <3>2 DEF Waiting
  <2> QED BY <2>3, <2>4, <2>5, <2>6
<1> HIDE DEF new
<1>14. \A u \in Held' : u \in Held \/ u \in new
  BY <1>1, <1>13 DEF Held
<1>15. Held \subseteq Held' /\ \A u \in new : u \in Held'
  <2>1. Recorded \subseteq Recorded' /\ Flight \subseteq Recorded' /\ Waiting \subseteq Waiting'
    BY <1>1, <1>13
  <2> QED BY <1>13, <2>1 DEF Held
<1>16. ASSUME NEW u \in Waiting', NEW v \in Held'
       PROVE  depths'[v] <= depths'[u] + 1
  <2>1. CASE u \in Waiting /\ v \in Held
    BY <1>8, <1>11, <2>1
  <2>2. CASE u \in Waiting /\ v \in new
    <3>1. PICK x \in Flight : depths'[v] = depths[x] + 1
      BY <1>10, <2>2
    <3>2. depths[x] <= depths[u] /\ depths'[u] = depths[u]
      BY <1>8, <1>11, <2>2
    <3>3. depths[x] \in Nat /\ depths[u] \in Nat
      BY <1>11, <2>2
    <3> QED BY <3>1, <3>2, <3>3
  <2>3. CASE u \in new /\ v \in Held
    <3>1. PICK x \in Flight : depths'[u] = depths[x] + 1
      BY <1>10, <2>3
    <3>2. depths[v] <= depths[x] + 1 /\ depths'[v] = depths[v]
      BY <1>8, <1>11, <2>3
    <3>3. depths[x] \in Nat /\ depths[v] \in Nat
      BY <1>11, <2>3
    <3> QED BY <3>1, <3>2, <3>3
  <2>4. CASE u \in new /\ v \in new
    <3>1. PICK x \in Flight : depths'[u] = depths[x] + 1
      BY <1>10, <2>4
    <3>2. PICK y \in Flight : depths'[v] = depths[y] + 1
      BY <1>10, <2>4
    <3>3. depths[y] <= depths[x] + 1
      BY <1>8, <1>11
    <3>4. depths[x] \in Nat /\ depths[y] \in Nat
      BY <1>11
    <3> QED BY <3>1, <3>2, <3>3, <3>4
  <2> QED BY <1>13, <1>14, <2>1, <2>2, <2>3, <2>4
<1>17. ASSUME NEW u \in new
       PROVE  /\ crawlable(site, u)
              /\ \E n \in 1..Len(found) : u \in Range(found[n].links)
              /\ \A n \in 1..Len(found) :
                   (u \in Range(found[n].links) /\ depths[found[n].url] # maxDepth)
                     => depths'[u] <= depths[found[n].url] + 1
  <2>1. PICK k \in 1..Len(offers) : /\ offers[k].url = u /\ crawlable(site, u)
                                    /\ \A j \in 1..Len(offers) :
                                         offers[j].url = u => depths'[u] <= offers[j].depth
    BY <1>5 DEF new
  <2>2. \E n \in 1..Len(found) : u \in Range(found[n].links)
    BY <1>3, <2>1
  <2>3. ASSUME NEW n \in 1..Len(found), u \in Range(found[n].links), depths[found[n].url] # maxDepth
        PROVE  depths'[u] <= depths[found[n].url] + 1
    <3>1. PICK j \in 1..Len(offers) : /\ offers[j].url = u
                                      /\ offers[j].depth = depths[found[n].url] + 1
      BY <1>3, <2>3
    <3> QED BY <2>1, <3>1
  <2> QED BY <2>1, <2>2, <2>3
<1>18. ASSUME NEW n \in 1..Len(found), NEW v \in Range(found[n].links)
       PROVE  v \in seen' \/ ~crawlable(site, v) \/ depths[found[n].url] = maxDepth
  <2> SUFFICES ASSUME depths[found[n].url] # maxDepth
               PROVE  v \in seen' \/ ~crawlable(site, v)
    OBVIOUS
  <2>1. PICK k \in 1..Len(offers) : offers[k].url = v /\ offers[k].depth = depths[found[n].url] + 1
    BY <1>3
  <2>2. offers[k].depth <= maxDepth
    BY <1>2, <1>9, <2>1
  <2> QED BY <1>5, <2>1, <2>2
<1>19. Recorded' \cap Waiting' = {} /\ Waiting' \subseteq seen'
  <2>1. Recorded \cup Flight \subseteq Held
    BY DEF Held
  <2>2. \A u \in Waiting : u \in seen
    BY <1>8, <1>11
  <2>3. \A u \in new : u \in seen'
    BY DEF new
  <2>4. Waiting' \subseteq seen'
    BY <1>5, <1>13, <2>2, <2>3
  <2>5. Recorded' \cap Waiting' = {}
    BY <1>1, <1>8, <1>11, <1>13, <2>1
  <2> QED BY <2>4, <2>5
<1>20. ~capped
  BY DEF CrawlInv, Phased, FinishRound
<1>21. seen' \subseteq Held' \cup truncated
  <2>1. seen \subseteq Held \cup truncated
    BY <1>20 DEF CrawlInv, Accounted
  <2> QED BY <1>15, <2>1 DEF new
<1>22. \A u \in Held' \ seen : u \in new
  BY <1>8, <1>14
<1>23. capped' = FALSE
  BY <1>20 DEF CrawlInv, CrawlTypes
<1>24. Held' \subseteq Held \cup (seen' \ seen)
  BY <1>14 DEF new
<1>25. \A u \in seen' \ seen : u \in new
  BY DEF new
<1> QED
  BY <1>5, <1>7, <1>13, <1>16, <1>17, <1>18, <1>19, <1>21, <1>22, <1>23, <1>24, <1>25 DEF Spread

\* The answers of a round are applied.
LEMMA FinishesRound ==
  ASSUME CrawlInv, GrantStep, FinishRound
  PROVE  /\ CrawlInv' /\ site' = site /\ phase' = "crawling"
         /\ Recorded \subseteq Recorded' /\ Recorded' \ Recorded \subseteq seen
         /\ seen \subseteq seen'
         /\ \A v \in seen' \ seen : \E u \in Recorded' \ Recorded : v \in Range(Reads[site][u])
<1>1. PICK upto \in 0..Len(answers) : Applied(upto)
  BY FinishApplies
<1> DEFINE found == FoundOf(upto)
<1>2. RoundRead(found)
  BY <1>1, RoundReads
<1>3. Spread(found)
  <2>1. CASE /\ upto = Len(answers) /\ Enqueue(seen, frontier, OfferedOf(found))
             /\ capped' = capped
    <3>1. /\ CrawlTypes /\ Answered /\ Layered(round.batches, Sooner(depths))
          /\ \A b \in DOMAIN answers : answers[b] # None
          /\ \A b \in 1..upto : ~answers[b].capped
      BY <1>1 DEF CrawlInv, Queued, FinishRound, Applied
    <3>2. \A u \in Flight : \E n \in 1..Len(found) : found[n].url = u
      BY <2>1, <3>1, FoundAre
    <3> HIDE DEF found
    <3>3. \A n \in 1..Len(found) : found[n].url \in Recorded'
      BY <1>2, RoundOver
    <3>4. Flight \subseteq Recorded'
      BY <3>2, <3>3
    <3> QED BY <1>2, <2>1, <3>4, EnqueueSpreads
  <2>2. CASE Cut(OfferedOf(found)) /\ capped' = TRUE
    <3> HIDE DEF found
    <3> QED BY <1>2, <2>2, CutSpreads
  <2> QED BY <1>1, <2>1, <2>2 DEF Applied
<1> HIDE DEF found
<1>4. /\ Flight' = {} /\ Recorded \subseteq Recorded' /\ Recorded' \subseteq Recorded \cup Flight
      /\ \A n \in 1..Len(found) : found[n].url \in Recorded'
      /\ Len(pages) \in Nat /\ DOMAIN pages = 1..Len(pages)
      /\ Len(pages') \in Nat /\ DOMAIN pages' = 1..Len(pages')
  BY <1>2, RoundOver
<1>5. /\ site' = site /\ truncated' = truncated /\ phase = "waiting" /\ phase' = "crawling"
      /\ round' = [sent |-> 0, batches |-> <<>>] /\ answers' = <<>>
  BY Zenon DEF FinishRound
<1>6. /\ found \in Seq(Found)
      /\ Len(found) \in Nat /\ Len(found) <= Cardinality(Flight)
      /\ \A n \in 1..Len(found) : /\ found[n] \in Found /\ Reported(found[n])
                                   /\ found[n].url \in Flight
      /\ pages' \in Seq(PageOf) /\ Len(pages') = Len(pages) + Len(found)
      /\ \A i, j \in 1..Len(pages') : i # j => pages'[i].url # pages'[j].url
      /\ \A i \in 1..Len(pages) : i \in 1..Len(pages') /\ pages'[i] = pages[i]
      /\ \A i \in 1..Len(pages') :
           (\E j \in 1..Len(pages) : pages'[i] = pages[j])
             \/ (\E n \in 1..Len(found) : /\ pages'[i].url = found[n].url
                                           /\ pages'[i].how = found[n].how
                                           /\ pages'[i].depth = depths[found[n].url])
  BY <1>2 DEF RoundRead
<1>7. /\ seen \subseteq seen' /\ seen' \in SUBSET Url
      /\ depths' \in [Url -> 0..maxDepth] /\ \A u \in seen : depths'[u] = depths[u]
      /\ Held' \subseteq Held \cup (seen' \ seen)
      /\ \A u \in Held' \ seen :
           /\ crawlable(site, u)
           /\ \A n \in 1..Len(found) :
                (u \in Range(found[n].links) /\ depths[found[n].url] # maxDepth)
                  => depths'[u] <= depths[found[n].url] + 1
      /\ \A n \in 1..Len(found) : \A v \in Range(found[n].links) :
           v \in seen' \/ ~crawlable(site, v) \/ depths[found[n].url] = maxDepth
      /\ \A u \in seen' \ seen : \E n \in 1..Len(found) : u \in Range(found[n].links)
      /\ frontier' \in Seq(Url) /\ Rising(frontier', Sooner(depths'))
      /\ Recorded' \cap Waiting' = {} /\ Waiting' \subseteq seen'
      /\ \A u \in Waiting', v \in Held' : depths'[v] <= depths'[u] + 1
      /\ capped' \in BOOLEAN /\ (capped' => frontier' = <<>>)
      /\ (~capped' => seen' \subseteq Held' \cup truncated)
  BY <1>3 DEF Spread
<1>8. /\ Held \subseteq seen /\ Recorded \cap Flight = {}
      /\ \A u \in Flight, v \in Held : depths[v] <= depths[u] + 1
      /\ \A u \in Flight : u \in Held
      /\ \A i \in 1..Len(pages) : pages[i].url \in Held /\ pages[i].depth = depths[pages[i].url]
  BY <1>4 DEF CrawlInv, Queued, Levels, Held, Recorded
<1>9. maxDepth \in Nat /\ site \in Sites /\ pages # <<>> /\ ~capped /\ round.sent = Len(pages)
      /\ depths \in [Url -> 0..maxDepth] /\ seen \in SUBSET Url
  BY <1>5, CrawlAssumption DEF CrawlInv, CrawlTypes, Phased
<1>10. Len(round'.batches) = 0 /\ round'.batches = <<>>
  BY <1>5, EmptySeq
<1>11. CrawlTypes'
  <2>1. round' \in [sent : Nat, batches : Seq(Seq(Url))]
    BY <1>5, EmptySeq
  <2>2. answers' \in [1..Len(round'.batches) -> {None} \cup [capped : BOOLEAN, pages : Seq(Found)]]
    BY <1>5, <1>10
  <2>3. granted' \in Nat \ {0}
    BY DEF GrantStep
  <2> QED BY <1>5, <1>6, <1>7, <1>9, <2>1, <2>2, <2>3 DEF CrawlTypes, Found, How, PageOf
<1>12. Answered'
  BY <1>10 DEF Answered
<1>13. Phased'
  <2>1. pages' # <<>>
    <3>1. pages \in Seq(PageOf)
      BY DEF CrawlInv, CrawlTypes
    <3>2. Len(pages) # 0
      BY <1>9, <3>1, EmptySeq
    <3>3. Len(pages') # 0
      BY <1>4, <1>6, <3>2
    <3> QED BY <3>3, EmptySeq
  <2> QED BY <1>5, <1>7, <1>10, <2>1 DEF Phased
<1>14. Held' \subseteq seen'
  BY <1>7, <1>8
<1>15. Queued'
  <2>1. Layered(round'.batches, Sooner(depths'))
    BY <1>10 DEF Layered
  <2> QED BY <1>4, <1>6, <1>7, <1>14, <2>1 DEF Queued
<1>16. ASSUME NEW i \in 1..Len(pages') PROVE pages'[i].depth = depths'[pages'[i].url]
  <2>1. CASE \E j \in 1..Len(pages) : pages'[i] = pages[j]
    BY <1>7, <1>8, <2>1
  <2>2. CASE \E n \in 1..Len(found) : /\ pages'[i].url = found[n].url
                                       /\ pages'[i].depth = depths[found[n].url]
    <3>1. PICK n \in 1..Len(found) : /\ pages'[i].url = found[n].url
                                      /\ pages'[i].depth = depths[found[n].url]
      BY <2>2
    <3>2. found[n].url \in seen
      BY <1>6, <1>8
    <3> QED BY <1>7, <3>1, <3>2
  <2> QED BY <1>6, <2>1, <2>2
<1>17. ASSUME NEW j \in 1..Len(pages'), pages'[j].how = "fetched",
              NEW v \in Range(Reads[site][pages'[j].url])
       PROVE  /\ v \in Held' => depths'[v] <= depths'[pages'[j].url] + 1
              /\ v \notin seen' => ~crawlable(site, v) \/ depths'[pages'[j].url] = maxDepth
  <2> DEFINE x == pages'[j].url
  <2>1. CASE \E k \in 1..Len(pages) : pages'[j] = pages[k]
    <3>1. PICK k \in 1..Len(pages) : pages'[j] = pages[k]
      BY <2>1
    <3>2. x \in seen /\ depths'[x] = depths[x] /\ x = pages[k].url
      BY <1>7, <1>8, <3>1
    <3>3. /\ v \in Held => depths[v] <= depths[x] + 1
          /\ v \notin seen => ~crawlable(site, v) \/ depths[x] = maxDepth
      BY <1>17, <3>1 DEF CrawlInv, Levels
    <3>4. ASSUME v \in Held' PROVE depths'[v] <= depths'[x] + 1
      <4>1. CASE v \in Held
        BY <1>7, <1>8, <3>2, <3>3, <4>1
      <4>2. CASE v \notin Held
        <5>1. v \in Held' \ seen /\ v \in Url
          BY <1>7, <3>4, <4>2
        <5>2. depths[x] = maxDepth
          BY <1>7, <3>3, <5>1
        <5>3. depths'[v] \in 0..maxDepth
          BY <1>7, <5>1
        <5> HIDE DEF x
        <5> QED BY <1>9, <3>2, <5>2, <5>3
      <4> QED BY <4>1, <4>2
    <3>5. v \notin seen' => ~crawlable(site, v) \/ depths'[x] = maxDepth
      BY <1>7, <3>2, <3>3
    <3> QED BY <3>4, <3>5
  <2>2. CASE \E n \in 1..Len(found) : x = found[n].url /\ pages'[j].how = found[n].how
    <3>1. PICK n \in 1..Len(found) : x = found[n].url /\ pages'[j].how = found[n].how
      BY <2>2
    <3>2. x \in Flight /\ x \in seen /\ depths'[x] = depths[x] /\ x \in Url
      BY <1>6, <1>7, <1>8, <1>9, <3>1
    <3>3. found[n].links = Reads[site][x]
      BY <1>6, <1>17, <3>1 DEF Reported
    <3>4. v \in Range(found[n].links)
      BY <3>3
    <3>5. ASSUME v \in Held' PROVE depths'[v] <= depths'[x] + 1
      <4>1. CASE v \in Held
        BY <1>7, <1>8, <3>2, <4>1
      <4>2. CASE v \notin Held
        <5>1. v \in Held' \ seen /\ v \in Url
          BY <1>7, <3>5, <4>2
        <5>2. CASE depths[x] # maxDepth
          BY <1>7, <3>1, <3>2, <3>4, <5>1, <5>2
        <5>3. CASE depths[x] = maxDepth
          <6>1. depths'[v] \in 0..maxDepth
            BY <1>7, <5>1
          <6> HIDE DEF x
          <6> QED BY <1>9, <3>2, <5>3, <6>1
        <5> QED BY <5>2, <5>3
      <4> QED BY <4>1, <4>2
    <3>6. v \notin seen' => ~crawlable(site, v) \/ depths'[x] = maxDepth
      BY <1>7, <3>1, <3>2, <3>4
    <3> QED BY <3>5, <3>6
  <2> QED BY <1>6, <2>1, <2>2
<1>18. Levels'
  <2>1. \A u \in Flight' \cup Waiting', v \in Held' : depths'[v] <= depths'[u] + 1
    BY <1>4, <1>7
  <2>2. \A j \in 1..Len(pages') : pages'[j].how = "fetched" =>
          \A v \in Range(Reads[site'][pages'[j].url]) :
            /\ v \in Held' => depths'[v] <= depths'[pages'[j].url] + 1
            /\ v \notin seen' => ~crawlable(site', v) \/ depths'[pages'[j].url] = maxDepth
    BY <1>5, <1>17
  <2> QED BY <1>16, <2>1, <2>2 DEF Levels, crawlable
<1>19. /\ Cardinality(Flight) \in Nat /\ Len(pages) + Cardinality(Flight) <= maxPages
       /\ Cardinality(Flight) <= BATCH * PARALLEL
       /\ maxPages \in Nat /\ BATCH * PARALLEL \in Nat
  BY CrawlAssumption, FS_CardinalityType DEF CrawlInv, Room
<1>20. Room'
  <2>1. IsFiniteSet(Flight') /\ Cardinality(Flight') = 0
    BY <1>4, FS_EmptySet
  <2>2. Len(pages') <= maxPages
    BY <1>4, <1>6, <1>19
  <2>3. Len(pages') + Cardinality(Flight') <= maxPages /\ Cardinality(Flight') <= BATCH * PARALLEL
    BY <1>4, <1>19, <2>1, <2>2
  <2> QED BY <2>1, <2>3 DEF Room
<1>21. Accounted'
  BY <1>5, <1>7 DEF Accounted
<1>22. FetchedWithinPlan'
  <2> DEFINE F == {i \in DOMAIN pages : pages[i].how = "fetched"}
             G == {i \in DOMAIN pages' : pages'[i].how = "fetched"}
  <2>1. /\ granted \in Nat /\ granted' \in Nat /\ granted <= granted'
    BY DEF GrantStep
  <2>2. /\ Cardinality(F) < granted + BATCH * PARALLEL /\ Cardinality(F) \in Nat
        /\ Cardinality(G) \in Nat /\ Cardinality(G) <= Len(pages')
    BY <1>6, FetchedAmong DEF CrawlInv, CrawlTypes, FetchedWithinPlan
  <2>3. CASE \A n \in 1..Len(found) : found[n].how # "fetched"
    <3>1. F = G
      <4>1. ASSUME NEW i \in G PROVE i \in F
        <5>1. i \in 1..Len(pages') /\ pages'[i].how = "fetched"
          BY <1>4
        <5>2. PICK j \in 1..Len(pages) : pages'[i] = pages[j]
          BY <1>6, <2>3, <5>1
        <5>4. \A k \in 1..Len(pages') : i # k => pages'[i].url # pages'[k].url
          BY <1>6, <5>1
        <5>5. j \in 1..Len(pages') /\ pages'[j] = pages[j]
          BY <1>6
        <5>3. i = j
          BY <5>2, <5>4, <5>5
        <5> QED BY <1>4, <5>1, <5>2, <5>3
      <4> QED BY <1>4, <1>6, <4>1
    <3> HIDE DEF F
    <3>2. Cardinality(F) < granted' + BATCH * PARALLEL
      BY <1>19, <2>1, <2>2, MoreGranted
    <3> QED BY <3>1, <3>2 DEF FetchedWithinPlan
  <2>4. CASE \E n \in 1..Len(found) : found[n].how = "fetched"
    <3>1. Len(pages) < granted
      BY <1>6, <1>9, <2>4 DEF Reported
    <3> DEFINE c == Cardinality(G)
               k == BATCH * PARALLEL
               p == Len(pages)
               m == Len(found)
               q == Cardinality(Flight)
    <3>2. /\ c \in Nat /\ k \in Nat /\ p \in Nat /\ m \in Nat /\ q \in Nat
          /\ c <= p + m /\ m <= q /\ q <= k /\ p < granted
      BY <1>4, <1>6, <1>19, <2>2, <3>1
    <3> HIDE DEF G, c, k, p, m, q
    <3>3. c < granted + k
      BY <2>1, <3>2
    <3>4. c < granted' + k
      BY <2>1, <3>2, <3>3, MoreGranted
    <3> QED BY <3>4 DEF FetchedWithinPlan, c, k, G
  <2> QED BY <2>3, <2>4
<1>23. Recorded' \ Recorded \subseteq seen
  BY <1>4, <1>8
<1>24. ASSUME NEW v \in seen' \ seen
       PROVE  \E u \in Recorded' \ Recorded : v \in Range(Reads[site][u])
  <2>1. PICK n \in 1..Len(found) : v \in Range(found[n].links)
    BY <1>7
  <2>2. found[n].url \in Recorded' \ Recorded
    BY <1>4, <1>6, <1>8
  <2>3. Range(<<>>) = {}
    BY DEF Range
  <2>4. found[n].links = Reads[site][found[n].url]
    BY <1>6, <2>1, <2>3 DEF Reported
  <2> QED BY <2>1, <2>2, <2>4
<1> QED
  BY <1>4, <1>5, <1>7, <1>11, <1>12, <1>13, <1>15, <1>18, <1>20, <1>21, <1>22, <1>23, <1>24
     DEF CrawlInv

-----------------------------------------------------------------------------
\* The crawl beside the webhook.

\* Nothing of the crawl changes.
LEMMA CrawlStutters ==
  ASSUME CrawlInv, UNCHANGED <<crawlVars, granted>>
  PROVE  CrawlInv'
<1>1. /\ UNCHANGED <<site, pages, seen, depths, frontier, round, truncated>>
      /\ UNCHANGED <<phase, answers, capped, granted>>
  BY DEF crawlVars
<1>2. granted \in Nat /\ granted <= granted
  BY DEF CrawlInv, CrawlTypes
<1>3. Queued' /\ Levels' /\ Room' /\ Accounted' /\ FetchedWithinPlan'
  BY <1>1, <1>2, Quiet
<1>4. CrawlTypes'
  BY <1>1 DEF CrawlInv, CrawlTypes
<1>5. Answered'
  <2>1. Answered
    BY DEF CrawlInv
  <2> SUFFICES ASSUME NEW b \in 1..Len(round.batches)
               PROVE  \/ answers[b] \in {None, Refusal, Lost(round.batches[b])}
                      \/ answers[b] = Fetched(round.batches[b])' /\ round.sent < granted
    BY <1>1 DEF Answered, Lost
  <2>2. Fetched(round.batches[b])' = Fetched(round.batches[b])
    BY <1>1 DEF Fetched
  <2> QED BY <2>1, <2>2 DEF Answered
<1>6. Phased'
  BY <1>1 DEF CrawlInv, Phased
<1> QED
  BY <1>3, <1>4, <1>5, <1>6 DEF CrawlInv

\* The largest ceiling so far is at least the one a step is taken under.
LEMMA CeilingGranted ==
  ASSUME CrawlInv, NEW ceiling \in Allowances,
         granted' = IF ceiling > granted THEN ceiling ELSE granted
  PROVE  GrantStep /\ ceiling \in Nat /\ ceiling <= granted'
<1>1. planOf(orgPlan) \in DOMAIN Ceiling
  BY BillingAssumption DEF planOf
<1>2. ceiling \in Nat \ {0}
  BY <1>1, BillingAssumption DEF Allowances, pagesPerRun
<1>3. granted \in Nat \ {0}
  BY DEF CrawlInv, CrawlTypes
<1> QED
  BY <1>2, <1>3 DEF GrantStep

\* Every step of the specification keeps the invariant.
LEMMA CrawlKept ==
  ASSUME CrawlInv, [Next]_vars
  PROVE  CrawlInv'
<1>1. CASE CrawlOn
  <2>1. PICK ceiling \in Allowances :
          /\ CrawlStep(ceiling)
          /\ granted' = IF ceiling > granted THEN ceiling ELSE granted
    BY <1>1 DEF CrawlOn
  <2>2. GrantStep /\ ceiling \in Nat /\ ceiling <= granted'
    BY <2>1, CeilingGranted
  <2>3. CASE Discover
    BY <2>2, <2>3, Discovers
  <2>4. CASE StartRound
    BY <2>2, <2>4, StartsRound
  <2>5. CASE FinishRound
    BY <2>2, <2>5, FinishesRound
  <2>6. CASE DiscoveryFails \/ AbortSeen \/ Return
    BY <2>2, <2>6, Stops
  <2>7. ASSUME NEW b \in DOMAIN answers, Answer(b, ceiling) \/ LoseAnswer(b)
        PROVE  CrawlInv'
    BY <2>2, <2>7, Answers
  <2> QED BY <2>1, <2>3, <2>4, <2>5, <2>6, <2>7 DEF CrawlStep
<1>2. CASE Bill
  BY <1>2, CrawlStutters DEF Bill
<1>3. CASE UNCHANGED vars
  <2>1. UNCHANGED <<crawlVars, granted>>
    BY <1>3 DEF vars
  <2> QED BY <2>1, CrawlStutters
<1> QED
  BY <1>1, <1>2, <1>3 DEF Next

\* A crawl that has not begun holds nothing.
LEMMA CrawlBegins ==
  ASSUME Init
  PROVE  CrawlInv
<1>1. /\ site \in Sites /\ phase = "discovering" /\ pages = <<>> /\ seen = {}
      /\ frontier = <<>> /\ depths = [u \in Url |-> 0] /\ round = [sent |-> 0, batches |-> <<>>]
      /\ answers = <<>> /\ capped = FALSE /\ truncated = {} /\ granted = Ceiling["free"]
  BY DEF Init, CrawlInit
<1>2. /\ Len(pages) = 0 /\ Len(frontier) = 0 /\ Len(round.batches) = 0 /\ DOMAIN pages = {}
      /\ round.batches = <<>>
  BY <1>1
<1>3. Flight = {} /\ Waiting = {} /\ Recorded = {} /\ Held = {}
  BY <1>2 DEF Flight, Waiting, Recorded, Held
<1>4. CrawlTypes
  <2>1. depths \in [Url -> 0..maxDepth] /\ granted \in Nat \ {0}
    BY <1>1, CrawlAssumption, BillingAssumption
  <2>2. pages \in Seq(PageOf) /\ frontier \in Seq(Url) /\ round \in [sent : Nat, batches : Seq(Seq(Url))]
    BY <1>1
  <2>3. answers \in [1..Len(round.batches) -> {None} \cup [capped : BOOLEAN, pages : Seq(Found)]]
    BY <1>1, <1>2
  <2> QED BY <1>1, <2>1, <2>2, <2>3 DEF CrawlTypes
<1>5. Answered
  BY <1>2 DEF Answered
<1>6. Phased
  BY <1>1, <1>2 DEF Phased
<1>7. Queued
  BY <1>2, <1>3 DEF Queued, Rising, Layered
<1>8. Levels
  BY <1>2, <1>3 DEF Levels
<1>9. Room
  <2>1. IsFiniteSet(Flight) /\ Cardinality(Flight) = 0
    BY <1>3, FS_EmptySet
  <2>2. maxPages \in Nat /\ BATCH * PARALLEL \in Nat
    BY CrawlAssumption
  <2> QED BY <1>2, <2>1, <2>2 DEF Room
<1>10. Accounted
  BY <1>1 DEF Accounted
<1>11. FetchedWithinPlan
  <2>1. {i \in DOMAIN pages : pages[i].how = "fetched"} = {}
    BY <1>2
  <2>2. Cardinality({}) = 0
    BY FS_EmptySet
  <2>3. BATCH * PARALLEL \in Nat /\ granted \in Nat \ {0}
    BY <1>4, CrawlAssumption DEF CrawlTypes
  <2> DEFINE k == BATCH * PARALLEL
  <2> HIDE DEF k
  <2>4. k \in Nat
    BY <2>3 DEF k
  <2>5. 0 < granted + k
    BY <2>3, <2>4
  <2> QED BY <2>1, <2>2, <2>5 DEF FetchedWithinPlan, k
<1> QED
  BY <1>4, <1>5, <1>6, <1>7, <1>8, <1>9, <1>10, <1>11 DEF CrawlInv

\* Where every address of a crawl is, at what depth and within which bounds,
\* in every reachable state of crawlSite beside the webhook: the inductive
\* invariant of the theorems below.
THEOREM CrawlHolds == Spec => []CrawlInv
<1>1. Init => CrawlInv
  BY CrawlBegins
<1>2. CrawlInv /\ [Next]_vars => CrawlInv'
  BY CrawlKept
<1> QED
  BY <1>1, <1>2, PTL DEF Spec

\* The pages crawlSite reports are apart, and each is shown at most a level
\* below any page that was fetched and links to it, for every site, batch
\* size and order of answers.
THEOREM DepthsAreShortest == Spec => []DepthIsShortest
<1>1. CrawlInv => DepthIsShortest
  <2> SUFFICES ASSUME CrawlInv, NEW i \in DOMAIN pages, NEW j \in DOMAIN pages
               PROVE  /\ i # j => pages[i].url # pages[j].url
                      /\ (pages[j].how = "fetched"
                           /\ pages[i].url \in Range(Reads[site][pages[j].url]))
                           => pages[i].depth <= pages[j].depth + 1
    BY DEF DepthIsShortest
  <2>1. pages \in Seq(PageOf)
    BY DEF CrawlInv, CrawlTypes
  <2>2. i \in 1..Len(pages) /\ j \in 1..Len(pages)
    BY <2>1, LenProperties
  <2>3. i # j => pages[i].url # pages[j].url
    BY <2>2 DEF CrawlInv, Queued
  <2>4. pages[i].url \in Held
    BY DEF Held, Recorded
  <2>5. pages[i].depth = depths[pages[i].url] /\ pages[j].depth = depths[pages[j].url]
    BY <2>2 DEF CrawlInv, Levels
  <2>6. (pages[j].how = "fetched" /\ pages[i].url \in Range(Reads[site][pages[j].url]))
          => depths[pages[i].url] <= depths[pages[j].url] + 1
    BY <2>2, <2>4 DEF CrawlInv, Levels
  <2> QED BY <2>3, <2>5, <2>6
<1> QED
  BY <1>1, CrawlHolds, PTL

\* A crawl that returns and does not call itself capped has a page for every
\* address it discovered, but for those the last round took beyond the limit
\* (crawlSite, the slice of the room left).
THEOREM UncappedAreComplete == Spec => []UncappedIsComplete
<1>1. CrawlInv => UncappedIsComplete
  <2> SUFFICES ASSUME CrawlInv, phase = "done", ~capped
               PROVE  seen \ Recorded \subseteq truncated
    BY DEF UncappedIsComplete
  <2>1. frontier = <<>> /\ round.batches = <<>>
    BY DEF CrawlInv, Phased
  <2>2. Len(frontier) = 0 /\ Len(round.batches) = 0
    BY <2>1
  <2>3. Flight = {} /\ Waiting = {}
    BY <2>2 DEF Flight, Waiting
  <2>4. seen \subseteq Held \cup truncated
    BY DEF CrawlInv, Accounted
  <2> QED BY <2>3, <2>4 DEF Held
<1> QED
  BY <1>1, CrawlHolds, PTL

\* However the webhook moves the plan beneath it, a crawl fetches less than a
\* round above the largest ceiling one of its batches was answered under.
THEOREM FetchesAreWithinPlan == Spec => []FetchedWithinPlan
<1>1. CrawlInv => FetchedWithinPlan
  BY DEF CrawlInv
<1> QED
  BY <1>1, CrawlHolds, PTL

-----------------------------------------------------------------------------
\* A list of pages names no more addresses than it is long.
LEMMA NamesFit ==
  ASSUME NEW ps \in Seq(PageOf)
  PROVE  /\ Cardinality({ps[i].url : i \in DOMAIN ps}) \in Nat
         /\ Cardinality({ps[i].url : i \in DOMAIN ps}) <= Len(ps)
<1> DEFINE S == 1..Len(ps)
           T == {ps[i].url : i \in DOMAIN ps}
           f == [i \in S |-> ps[i].url]
<1>1. Len(ps) \in Nat /\ DOMAIN ps = S
  BY LenProperties
<1>2. 1 \in Int /\ Len(ps) \in Int
  BY <1>1
<1>3. IsFiniteSet(S) /\ Cardinality(S) = IF 1 > Len(ps) THEN 0 ELSE Len(ps) - 1 + 1
  BY <1>2, FS_Interval
<1>4. Cardinality(S) = Len(ps)
  BY <1>1, <1>3
<1>5. T = {ps[i].url : i \in S}
  BY <1>1
<1> HIDE DEF S, T
<1>6. f \in [S -> T] /\ \A t \in T : \E i \in S : f[i] = t
  BY <1>5
<1>7. f \in Surjection(S, T)
  <2> HIDE DEF f
  <2> QED BY <1>6 DEF Surjection
<1>8. IsFiniteSet(T) /\ Cardinality(T) <= Cardinality(S)
  <2> HIDE DEF f
  <2> QED BY <1>3, <1>7, FS_Surjection
<1>9. Cardinality(T) \in Nat /\ Cardinality(T) <= Len(ps)
  BY <1>4, <1>8, FS_CardinalityType
<1> QED
  BY <1>9 DEF T

\* The pages after a step are within the limit.
LEMMA RecordedFit ==
  ASSUME CrawlInv'
  PROVE  Cardinality(Recorded') <= maxPages
<1> DEFINE c == Cardinality(Recorded')
           d == Cardinality(Flight')
<1>1. pages' \in Seq(PageOf) /\ IsFiniteSet(Flight') /\ Len(pages') + d <= maxPages
  BY DEF CrawlInv, CrawlTypes, Room, PageOf, How
<1>2. c \in Nat /\ c <= Len(pages')
  BY <1>1, NamesFit DEF Recorded
<1>3. d \in Nat /\ Len(pages') \in Nat /\ maxPages \in Nat
  BY <1>1, FS_CardinalityType, LenProperties, CrawlAssumption
<1> HIDE DEF c, d
<1>4. c <= maxPages
  BY <1>1, <1>2, <1>3
<1> QED
  BY <1>4 DEF c

\* What the abstract crawl sees of a site.
LEMMA SiteSeen ==
  ASSUME site \in Sites
  PROVE  /\ [u \in Url |-> Range(Reads[site][u])] \in [Url -> SUBSET Url]
         /\ Range(sitemapEntries(site)) \in SUBSET Url
         /\ site.home \in Url
<1>1. /\ site.home \in Url /\ sitemapEntries(site) \in Seq(Url)
      /\ \A u \in Url : Reads[site][u] \in Seq(Url)
  BY ReadsTyped
<1>2. ASSUME NEW s \in Seq(Url) PROVE Range(s) \in SUBSET Url
  <2>1. DOMAIN s = 1..Len(s) /\ Len(s) \in Nat /\ \A i \in 1..Len(s) : s[i] \in Url
    BY LenProperties, ElementOfSeq
  <2> QED BY <2>1 DEF Range
<1>3. \A u \in Url : Range(Reads[site][u]) \in SUBSET Url
  BY <1>1, <1>2
<1> QED
  BY <1>1, <1>2, <1>3

\* A step that leaves the site, the pages, what is known and the end alone.
LEMMA PromiseStutters ==
  ASSUME UNCHANGED <<site, pages, seen, phase>>
  PROVE  UNCHANGED Promise!promised
BY DEF Promise!promised, Recorded

\* The cardinality the promise is stated with is the one of this module.
LEMMA SameCardinality ==
  ASSUME NEW S
  PROVE  Promise!Cardinality(S) = Cardinality(S)
BY DEF Promise!Cardinality, Cardinality

\* Every step of the crawl is a step of what it promises.
LEMMA PromiseStep ==
  ASSUME CrawlInv, [Next]_vars
  PROVE  [Promise!Next]_(Promise!promised)
<1>1. CrawlInv'
  BY CrawlKept
<1>2. /\ site \in Sites /\ pages \in Seq(PageOf)
      /\ phase = "discovering" => pages = <<>>
      /\ phase \in {"crawling", "waiting"} => pages # <<>>
  BY DEF CrawlInv, CrawlTypes, Phased
<1>3. pages = <<>> => Recorded = {}
  BY DEF Recorded
<1>4. pages # <<>> => Recorded # {}
  <2>1. Len(pages) \in Nat /\ DOMAIN pages = 1..Len(pages) /\ (pages # <<>> => Len(pages) # 0)
    BY <1>2, LenProperties, EmptySeq
  <2>2. pages # <<>> => 1 \in DOMAIN pages
    BY <2>1
  <2> QED BY <2>2 DEF Recorded
<1>5. CASE CrawlOn
  <2>1. PICK ceiling \in Allowances :
          /\ CrawlStep(ceiling)
          /\ granted' = IF ceiling > granted THEN ceiling ELSE granted
    BY <1>5 DEF CrawlOn
  <2>2. GrantStep
    BY <2>1, CeilingGranted
  <2>3. CASE Discover
    <3>1. phase = "discovering" /\ phase' = "crawling" /\ site' = site
      BY <2>3 DEF Discover
    <3>2. Recorded = {} /\ site.home \in Url
      BY <1>2, <1>3, <3>1, SiteSeen
    <3>3. /\ site.home \in seen' /\ Recorded' = {site.home}
          /\ seen' \subseteq {site.home} \cup Range(Reads[site][site.home])
                               \cup Range(sitemapEntries(site))
      BY <2>2, <2>3, Discovers
    <3>4. (phase \in {"done", "failed"}) = FALSE /\ (phase' \in {"done", "failed"}) = FALSE
      BY <3>1
    <3>5. [u \in Url |-> Range(Reads[site][u])][site.home] = Range(Reads[site][site.home])
      BY <3>2
    <3>6. Promise!Begin
      BY <3>1, <3>2, <3>3, <3>4, <3>5 DEF Promise!Begin
    <3> QED BY <3>6 DEF Promise!Next
  <2>4. CASE StartRound \/ FinishRound
    <3>1. /\ phase \in {"crawling", "waiting"} /\ phase' \in {"crawling", "waiting"}
          /\ site' = site
          /\ Recorded \subseteq Recorded' /\ Recorded' \ Recorded \subseteq seen
          /\ seen \subseteq seen'
          /\ \A v \in seen' \ seen : \E u \in Recorded' \ Recorded : v \in Range(Reads[site][u])
      <4>1. CASE StartRound
        <5>1. phase = "crawling"
          BY <4>1 DEF StartRound, Looping
        <5> QED BY <2>2, <4>1, <5>1, StartsRound
      <4>2. CASE FinishRound
        <5>1. phase = "waiting"
          BY <4>2, Zenon DEF FinishRound
        <5> QED BY <2>2, <4>2, <5>1, FinishesRound
      <4> QED BY <2>4, <4>1, <4>2, Zenon
    <3>2. Recorded # {}
      BY <1>2, <1>4, <3>1
    <3>3. (phase \in {"done", "failed"}) = FALSE /\ (phase' \in {"done", "failed"}) = FALSE
      BY <3>1
    <3>4. Cardinality(Recorded') <= maxPages
      BY <1>1, RecordedFit
    <3>5. seen' \subseteq seen \cup Promise!LinkedFrom(Recorded' \ Recorded)
      <4> SUFFICES ASSUME NEW v \in seen', v \notin seen
                   PROVE  v \in Promise!LinkedFrom(Recorded' \ Recorded)
        OBVIOUS
      <4>1. PICK u \in Recorded' \ Recorded : v \in Range(Reads[site][u])
        BY <3>1
      <4>2. u \in Url
        BY <3>1 DEF CrawlInv, CrawlTypes
      <4>3. [w \in Url |-> Range(Reads[site][w])][u] = Range(Reads[site][u])
        BY <4>2
      <4> QED BY <4>1, <4>3 DEF Promise!LinkedFrom
    <3>6. Promise!Cardinality(Recorded') <= maxPages
      BY <3>4, SameCardinality
    <3>7. UNCHANGED <<[u \in Url |-> Range(Reads[site][u])], Range(sitemapEntries(site)),
                      phase \in {"done", "failed"}>>
      BY <3>1, <3>3
    <3>8. Promise!Read
      BY <3>1, <3>2, <3>3, <3>5, <3>6, <3>7 DEF Promise!Read
    <3> QED BY <3>8 DEF Promise!Next
  <2>5. CASE DiscoveryFails \/ AbortSeen \/ Return
    <3>1. /\ UNCHANGED <<site, pages, seen>>
          /\ phase \in {"discovering", "crawling"} /\ phase' \in {"done", "failed"}
      BY <2>5 DEF DiscoveryFails, AbortSeen, Return, Looping
    <3>2. (phase \in {"done", "failed"}) = FALSE /\ (phase' \in {"done", "failed"}) = TRUE
      BY <3>1
    <3>3. Promise!End
      BY <3>1, <3>2 DEF Promise!End, Recorded
    <3> QED BY <3>3 DEF Promise!Next
  <2>6. ASSUME NEW b \in DOMAIN answers, Answer(b, ceiling) \/ LoseAnswer(b)
        PROVE  UNCHANGED <<site, pages, seen, phase>>
    BY <2>6 DEF Answer, LoseAnswer
  <2> QED BY <2>1, <2>3, <2>4, <2>5, <2>6, PromiseStutters DEF CrawlStep
<1>6. CASE Bill \/ UNCHANGED vars
  <2>1. UNCHANGED <<site, pages, seen, phase>>
    BY <1>6 DEF Bill, vars, crawlVars
  <2> QED BY <2>1, PromiseStutters
<1> QED
  BY <1>5, <1>6 DEF Next

\* crawlSite implements what a crawl promises: pages are read once, after
\* they were discovered, never more than the limit, and nothing is discovered
\* but by the site files or a page that was read.
THEOREM CrawlKeepsPromise == Spec => PromiseKept
<1>1. Init => Promise!Init
  <2> SUFFICES ASSUME Init PROVE Promise!Init
    OBVIOUS
  <2>1. /\ site \in Sites /\ phase = "discovering" /\ pages = <<>> /\ seen = {}
    BY DEF Init, CrawlInit
  <2>2. Recorded = {} /\ (phase \in {"done", "failed"}) = FALSE
    BY <2>1 DEF Recorded
  <2> QED BY <2>1, <2>2, SiteSeen DEF Promise!Init
<1>2. CrawlInv /\ [Next]_vars => [Promise!Next]_(Promise!promised)
  BY PromiseStep
<1> QED
  BY <1>1, <1>2, CrawlHolds, PTL DEF Spec, PromiseKept, Promise!Spec
=============================================================================
