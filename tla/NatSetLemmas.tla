---------------------------- MODULE NatSetLemmas -----------------------------
(* Facts about finite sets and orders that several proofs need: minima and   *)
(* maxima of sets of naturals; induction over the subsets of a finite set    *)
(* and folds over them; the ranks of an ordered set's members, and the       *)
(* sequence that lists it in order.                                          *)
EXTENDS Naturals, Sequences, FiniteSetsExt, WellFoundedInduction,
        FiniteSetTheorems, SequenceTheorems, TLAPS

\* The least-number principle, for a set.
LEMMA NatSetHasLeast ==
    ASSUME NEW S \in SUBSET Nat, S # {}
    PROVE  \E m \in S : \A x \in S : m <= x
<1>1. PICK m \in S : \A x \in S : ~(<<x, m>> \in OpToRel(<, Nat))
  BY NatLessThanWellFounded, WFMin DEF OpToRel
<1>2. ASSUME NEW x \in S PROVE m <= x
  <2>1. <<x, m>> \in Nat \X Nat /\ <<x, m>>[1] = x /\ <<x, m>>[2] = m
    OBVIOUS
  <2>2. ~(x < m)
    BY <1>1, <2>1 DEF OpToRel
  <2> QED
    BY <2>2
<1> QED
  BY <1>2

\* Min of a nonempty set of naturals is its least member.
LEMMA MinIsLeast ==
    ASSUME NEW S \in SUBSET Nat, S # {}
    PROVE  Min(S) \in S /\ \A x \in S : Min(S) <= x
  BY NatSetHasLeast DEF Min

\* Max of a nonempty bounded set of naturals is its greatest member.
LEMMA MaxIsGreatest ==
    ASSUME NEW S \in SUBSET Nat, S # {}, NEW b \in Nat, \A x \in S : x < b
    PROVE  Max(S) \in S /\ \A x \in S : x <= Max(S)
<1> DEFINE U == {u \in Nat : \A x \in S : x <= u}
<1>1. PICK m \in U : \A u \in U : m <= u
  <2>1. b \in U
    OBVIOUS
  <2> QED
    BY <2>1, NatSetHasLeast
<1>2. m \in S
  <2>1. SUFFICES ASSUME m \notin S PROVE FALSE
    OBVIOUS
  <2>2. \A x \in S : x < m
    BY <2>1, <1>1
  <2>3. m - 1 \in U
    <3> PICK x \in S : TRUE
      OBVIOUS
    <3>1. x \in Nat /\ m \in Nat /\ x < m
      BY <2>2
    <3>2. m - 1 \in Nat
      BY <3>1
    <3>3. \A y \in S : y \in Nat /\ y <= m - 1
      BY <2>2, <3>1
    <3> QED
      BY <3>2, <3>3
  <2> QED
    BY <2>3, <1>1
<1> QED
  BY <1>1, <1>2 DEF Max

------------------------------------------------------------------------------
\* Induction over the subsets of a finite set, for a property given as the set
\* of the subsets that have it.
LEMMA SubsetInduction ==
    ASSUME NEW S, IsFiniteSet(S), NEW Good, {} \in Good,
           \A s \in SUBSET S : s # {} => \E x \in s : s \ {x} \in Good => s \in Good
    PROVE  SUBSET S \subseteq Good
<1> DEFINE Sizes == {n \in Nat : \E s \in SUBSET S : s \notin Good /\ Cardinality(s) = n}
<1>1. \A s \in SUBSET S : IsFiniteSet(s) /\ Cardinality(s) \in Nat
  BY FS_Subset, FS_CardinalityType
<1>2. Sizes = {}
  <2> SUFFICES ASSUME Sizes # {} PROVE FALSE
    OBVIOUS
  <2>1. PICK n \in Sizes : \A i \in Sizes : n <= i
    BY NatSetHasLeast
  <2>2. PICK s \in SUBSET S : s \notin Good /\ Cardinality(s) = n
    OBVIOUS
  <2>3. PICK x \in s : s \ {x} \in Good => s \in Good
    BY <2>2
  <2>4. IsFiniteSet(s) /\ s \ {x} \in SUBSET S /\ s \ {x} \notin Good
    BY <1>1, <2>2, <2>3
  <2>5. Cardinality(s \ {x}) = n - 1 /\ Cardinality(s \ {x}) \in Nat
    BY <1>1, <2>2, <2>4, FS_RemoveElement
  <2>6. n - 1 \in Sizes
    BY <2>4, <2>5
  <2> QED
    BY <2>1, <2>6
<1> QED
  BY <1>1, <1>2

\* c takes a member out of every nonempty subset of S, and g folds the subsets
\* in that order.
Picks(c, S) == \A s \in SUBSET S : s # {} => c[s] \in s
IsFold(g, S, base, H, c) ==
    \A s \in SUBSET S : g[s] = IF s = {} THEN base ELSE H[<<c[s], g[s \ {c[s]}]>>]

\* A fold over a finite set is defined when its step H is a function.
LEMMA FoldExists ==
    ASSUME NEW S, IsFiniteSet(S), NEW V, NEW base \in V, NEW H \in [S \X V -> V],
           NEW c, Picks(c, S)
    PROVE  \E g \in [SUBSET S -> V] : IsFold(g, S, base, H, c)
<1> DEFINE Next(g, s) == IF s = {} THEN base ELSE H[<<c[s], g[s \ {c[s]}]>>]
           Upto(n) == {s \in SUBSET S : Cardinality(s) <= n}
           Solved(n) == \E g \in [Upto(n) -> V] : \A s \in Upto(n) : g[s] = Next(g, s)
           Bad == {n \in Nat : ~Solved(n)}
<1>1. \A s \in SUBSET S : IsFiniteSet(s) /\ Cardinality(s) \in Nat /\ Cardinality(s) <= Cardinality(S)
  BY FS_Subset, FS_CardinalityType
<1>2. Cardinality(S) \in Nat
  BY FS_CardinalityType
<1>3. Bad = {}
  <2> SUFFICES ASSUME Bad # {} PROVE FALSE
    OBVIOUS
  <2>1. PICK n \in Bad : \A i \in Bad : n <= i
    BY NatSetHasLeast
  <2>2. CASE n = 0
    <3>1. \A s \in Upto(0) : s = {}
      BY <1>1, FS_EmptySet
    <3> DEFINE g == [s \in Upto(0) |-> base]
    <3>2. g \in [Upto(0) -> V] /\ \A s \in Upto(0) : g[s] = Next(g, s)
      BY <3>1
    <3> QED
      BY <3>2, <2>1, <2>2
  <2>3. CASE n # 0
    <3>1. n - 1 \in Nat /\ ~(n <= n - 1)
      BY <2>3
    <3>2. Solved(n - 1)
      BY <3>1, <2>1
    <3>3. PICK h \in [Upto(n - 1) -> V] : \A s \in Upto(n - 1) : h[s] = Next(h, s)
      BY <3>2
    <3> DEFINE g == [s \in Upto(n) |-> Next(h, s)]
    <3>4. ASSUME NEW s \in Upto(n), s # {} PROVE c[s] \in S /\ s \ {c[s]} \in Upto(n - 1)
      <4>1. c[s] \in s
        BY <3>4 DEF Picks
      <4>2. Cardinality(s \ {c[s]}) = Cardinality(s) - 1
        BY <4>1, <1>1, FS_RemoveElement
      <4> QED
        BY <4>1, <4>2, <1>1
    <3>5. ASSUME NEW s \in Upto(n - 1) PROVE g[s] = h[s]
      <4>1. s \in Upto(n)
        BY <1>1
      <4>2. h[s] = Next(h, s)
        BY <3>3
      <4> QED
        BY <4>1, <4>2
    <3>6. \A s \in Upto(n) : Next(h, s) \in V
      BY <3>3, <3>4
    <3>7. \A s \in Upto(n) : Next(h, s) = Next(g, s)
      BY <3>4, <3>5
    <3>8. g \in [Upto(n) -> V] /\ \A s \in Upto(n) : g[s] = Next(g, s)
      BY <3>6, <3>7
    <3> QED
      BY <3>8, <2>1
  <2> QED
    BY <2>2, <2>3
<1>4. Solved(Cardinality(S))
  BY <1>2, <1>3
<1>5. Upto(Cardinality(S)) = SUBSET S
  BY <1>1
<1> HIDE DEF Upto
<1> QED
  BY <1>4, <1>5 DEF IsFold

------------------------------------------------------------------------------
\* R orders S strictly and totally.
Orders(R, S) ==
    /\ \A a \in S : <<a, a>> \notin R
    /\ \A a, b \in S : a # b => <<a, b>> \in R \/ <<b, a>> \in R
    /\ \A a, b, c \in S : <<a, b>> \in R /\ <<b, c>> \in R => <<a, c>> \in R

Under(d, S, R) == {e \in S : <<e, d>> \in R}

\* s lists S in the order R: each member stands behind those under it.
Lists(s, S, R) ==
    /\ s \in [1 .. Cardinality(S) -> S]
    /\ \A d \in S : s[Cardinality(Under(d, S, R)) + 1] = d

\* A member of S has fewer members of S under it than S has.
LEMMA UnderCounts ==
    ASSUME NEW S, IsFiniteSet(S), NEW R, Orders(R, S), NEW d \in S
    PROVE  /\ IsFiniteSet(Under(d, S, R))
           /\ Cardinality(Under(d, S, R)) \in 0 .. Cardinality(S) - 1
<1>1. Under(d, S, R) \in SUBSET S /\ d \notin Under(d, S, R)
  BY DEF Under, Orders
<1>2. /\ IsFiniteSet(Under(d, S, R)) /\ Cardinality(Under(d, S, R)) <= Cardinality(S)
      /\ Cardinality(Under(d, S, R)) # Cardinality(S)
  BY <1>1, FS_Subset
<1>3. Cardinality(Under(d, S, R)) \in Nat /\ Cardinality(S) \in Nat
  BY <1>2, FS_CardinalityType
<1> QED
  BY <1>2, <1>3

\* Further up the order, more is under.
LEMMA UnderGrows ==
    ASSUME NEW S, IsFiniteSet(S), NEW R, Orders(R, S), NEW a \in S, NEW b \in S, <<a, b>> \in R
    PROVE  Cardinality(Under(a, S, R)) < Cardinality(Under(b, S, R))
<1>1. Under(a, S, R) \in SUBSET Under(b, S, R) /\ a \in Under(b, S, R) /\ a \notin Under(a, S, R)
  BY DEF Under, Orders
<1>2. IsFiniteSet(Under(a, S, R)) /\ IsFiniteSet(Under(b, S, R))
  BY UnderCounts
<1>3. /\ Cardinality(Under(a, S, R)) <= Cardinality(Under(b, S, R))
      /\ Cardinality(Under(a, S, R)) # Cardinality(Under(b, S, R))
  BY <1>1, <1>2, FS_Subset
<1>4. Cardinality(Under(a, S, R)) \in Nat /\ Cardinality(Under(b, S, R)) \in Nat
  BY <1>2, FS_CardinalityType
<1> QED
  BY <1>3, <1>4

\* Every rank below the size of S is the rank of one member.
LEMMA RanksCount ==
    ASSUME NEW S, IsFiniteSet(S), NEW R, Orders(R, S)
    PROVE  /\ \A a, b \in S : Cardinality(Under(a, S, R)) = Cardinality(Under(b, S, R)) => a = b
           /\ \A i \in 0 .. Cardinality(S) - 1 : \E d \in S : Cardinality(Under(d, S, R)) = i
<1> DEFINE n == Cardinality(S)
           rank == [d \in S |-> Cardinality(Under(d, S, R))]
<1>1. n \in Nat
  BY FS_CardinalityType
<1>2. rank \in [S -> 0 .. n - 1]
  BY UnderCounts
<1>3. \A a, b \in S : rank[a] = rank[b] => a = b
  <2> SUFFICES ASSUME NEW a \in S, NEW b \in S, a # b PROVE rank[a] # rank[b]
    OBVIOUS
  <2>1. rank[a] \in Nat /\ rank[b] \in Nat
    BY <1>1, <1>2
  <2>2. <<a, b>> \in R \/ <<b, a>> \in R
    BY DEF Orders
  <2>3. rank[a] < rank[b] \/ rank[b] < rank[a]
    BY <2>2, UnderGrows
  <2> QED
    BY <2>1, <2>3
<1>4. rank \in Injection(S, 0 .. n - 1)
  BY <1>2, <1>3 DEF Injection, IsInjective
<1>5. IsFiniteSet(0 .. n - 1) /\ Cardinality(0 .. n - 1) = n
  BY <1>1, FS_Interval
<1>6. rank \in Surjection(S, 0 .. n - 1)
  BY <1>4, <1>5, FS_Injection
<1>7. \A i \in 0 .. n - 1 : \E d \in S : rank[d] = i
  BY <1>6 DEF Surjection
<1> QED
  BY <1>3, <1>7

\* The same of one rank.
LEMMA RanksAreFilled ==
    ASSUME NEW S, IsFiniteSet(S), NEW R, Orders(R, S), NEW i \in 0 .. Cardinality(S) - 1
    PROVE  \E d \in S : Cardinality(Under(d, S, R)) = i
BY RanksCount

\* A list of S has every member once, in order.
LEMMA ListsInOrder ==
    ASSUME NEW S, IsFiniteSet(S), NEW R, Orders(R, S), NEW s, Lists(s, S, R)
    PROVE  /\ Cardinality(S) \in Nat
           /\ s \in Seq(S) /\ Len(s) = Cardinality(S) /\ DOMAIN s = 1 .. Cardinality(S)
           /\ \A d \in S : \E i \in 1 .. Cardinality(S) : s[i] = d
           /\ \A i, j \in 1 .. Cardinality(S) : i < j => <<s[i], s[j]>> \in R
<1> DEFINE n == Cardinality(S)
<1>1. n \in Nat
  BY FS_CardinalityType
<1>2. s \in [1 .. n -> S]
  BY DEF Lists
<1>3. s \in Seq(S) /\ Len(s) = n /\ DOMAIN s = 1 .. n
  BY <1>1, <1>2
<1>4. \A i \in 1 .. n : Cardinality(Under(s[i], S, R)) = i - 1
  <2> TAKE i \in 1 .. n
  <2>1. i - 1 \in 0 .. n - 1
    BY <1>1
  <2>2. PICK d \in S : Cardinality(Under(d, S, R)) = i - 1
    BY <2>1, RanksAreFilled
  <2>3. s[i] = d
    BY <2>2, <1>1 DEF Lists
  <2> QED
    BY <2>2, <2>3
<1>5. \A d \in S : \E i \in 1 .. n : s[i] = d
  <2> TAKE d \in S
  <2>1. Cardinality(Under(d, S, R)) + 1 \in 1 .. n
    BY <1>1, UnderCounts
  <2> QED
    BY <2>1 DEF Lists
<1>6. \A i, j \in 1 .. n : i < j => <<s[i], s[j]>> \in R
  <2> SUFFICES ASSUME NEW i \in 1 .. n, NEW j \in 1 .. n, i < j PROVE <<s[i], s[j]>> \in R
    OBVIOUS
  <2>1. s[i] \in S /\ s[j] \in S
    BY <1>2
  <2>2. s[i] # s[j]
    BY <1>4, <1>1
  <2>3. CASE <<s[j], s[i]>> \in R
    <3>1. Cardinality(Under(s[j], S, R)) < Cardinality(Under(s[i], S, R))
      BY <2>1, <2>3, UnderGrows
    <3> QED
      BY <3>1, <1>4, <1>1
  <2> QED
    BY <2>1, <2>2, <2>3 DEF Orders
<1> QED
  BY <1>1, <1>3, <1>5, <1>6

\* There is only one.
LEMMA ListsUnique ==
    ASSUME NEW S, IsFiniteSet(S), NEW R, Orders(R, S),
           NEW s, Lists(s, S, R), NEW t, Lists(t, S, R)
    PROVE  s = t
<1> DEFINE n == Cardinality(S)
<1>1. n \in Nat
  BY FS_CardinalityType
<1>2. s \in [1 .. n -> S] /\ t \in [1 .. n -> S]
  BY DEF Lists
<1>3. \A i \in 1 .. n : s[i] = t[i]
  <2> TAKE i \in 1 .. n
  <2>1. i - 1 \in 0 .. n - 1
    BY <1>1
  <2>2. PICK d \in S : Cardinality(Under(d, S, R)) = i - 1
    BY <2>1, RanksAreFilled
  <2> QED
    BY <2>2, <1>1 DEF Lists
<1>4. s = [i \in 1 .. n |-> s[i]] /\ t = [i \in 1 .. n |-> t[i]]
  BY <1>2
<1>5. [i \in 1 .. n |-> s[i]] = [i \in 1 .. n |-> t[i]]
  BY <1>3
<1> QED
  BY <1>4, <1>5

\* The list of a set is the list of its lower part, then that of its upper part.
LEMMA ListsConcat ==
    ASSUME NEW A, NEW B, IsFiniteSet(A), IsFiniteSet(B), NEW R, Orders(R, A \union B),
           \A a \in A, b \in B : <<a, b>> \in R,
           NEW s, Lists(s, A, R), NEW t, Lists(t, B, R)
    PROVE  Lists(s \o t, A \union B, R) /\ IsFiniteSet(A \union B)
<1> DEFINE U == A \union B
           m == Cardinality(A)
           n == Cardinality(B)
<1>1. m \in Nat /\ n \in Nat
  BY FS_CardinalityType
<1>2. A \intersect B = {}
  BY DEF Orders
<1>3. IsFiniteSet(U) /\ Cardinality(U) = m + n
  <2>1. IsFiniteSet(U) /\ Cardinality(U) = m + n - Cardinality(A \intersect B)
    BY FS_Union
  <2>2. Cardinality(A \intersect B) = 0
    BY <1>2, FS_EmptySet
  <2> QED
    BY <2>1, <2>2, <1>1
<1>4. Orders(R, A) /\ Orders(R, B)
  BY DEF Orders
<1>5. s \in [1 .. m -> A] /\ t \in [1 .. n -> B] /\ Len(s) = m /\ Len(t) = n /\ s \in Seq(U) /\ t \in Seq(U)
  BY <1>1 DEF Lists
<1>6. s \o t \in [1 .. m + n -> U] /\ \A i \in 1 .. m + n : (s \o t)[i] = IF i <= m THEN s[i] ELSE t[i - m]
  <2>1. s \o t \in Seq(U) /\ Len(s \o t) = m + n
    BY <1>1, <1>5, ConcatProperties
  <2>2. s \o t \in [1 .. m + n -> U]
    <3>1. PICK c \in Seq(U) : c = s \o t
      BY <2>1
    <3>2. Len(c) = m + n
      BY ONLY <2>1, <3>1, Zenon
    <3>3. c \in [1 .. Len(c) -> U]
      BY ONLY c \in Seq(U), LenProperties
    <3> QED
      BY ONLY <3>1, <3>2, <3>3
  <2>3. \A i \in 1 .. m + n : (s \o t)[i] = IF i <= m THEN s[i] ELSE t[i - m]
    <3>1. s \in Seq(U) /\ t \in Seq(U) /\ Len(s) = m /\ Len(t) = n
      BY <1>5
    <3> HIDE DEF U, m, n
    <3>2. \A i \in 1 .. Len(s) + Len(t) : (s \o t)[i] = IF i <= Len(s) THEN s[i] ELSE t[i - Len(s)]
      BY ONLY <3>1, ConcatProperties
    <3> QED
      BY ONLY <3>1, <3>2
  <2> QED
    BY <2>2, <2>3
<1>7. ASSUME NEW d \in U PROVE (s \o t)[Cardinality(Under(d, U, R)) + 1] = d
  <2>1. CASE d \in A
    <3>1. Under(d, U, R) = Under(d, A, R)
      BY <2>1 DEF Under, Orders
    <3>2. Cardinality(Under(d, A, R)) \in 0 .. m - 1
      BY <1>4, <2>1, UnderCounts
    <3>3. s[Cardinality(Under(d, A, R)) + 1] = d
      BY <2>1 DEF Lists
    <3> HIDE DEF m, n
    <3>4. PICK k \in 0 .. m - 1 : k = Cardinality(Under(d, A, R))
      BY <3>2
    <3>5. k + 1 \in 1 .. m + n /\ k + 1 <= m
      BY ONLY <1>1, k \in 0 .. m - 1
    <3>6. (s \o t)[k + 1] = s[k + 1]
      BY ONLY <1>6, <3>5
    <3> QED
      BY ONLY <3>1, <3>3, <3>4, <3>6
  <2>2. CASE d \in B
    <3>1. Under(d, U, R) = A \union Under(d, B, R)
      BY <2>2 DEF Under
    <3>2. Cardinality(Under(d, B, R)) \in 0 .. n - 1 /\ IsFiniteSet(Under(d, B, R))
      BY <1>4, <2>2, UnderCounts
    <3>3. Cardinality(Under(d, U, R)) = m + Cardinality(Under(d, B, R))
      <4>1. A \intersect Under(d, B, R) = {}
        BY <1>2 DEF Under
      <4>2. Cardinality(A \intersect Under(d, B, R)) = 0
        BY <4>1, FS_EmptySet
      <4>3. Cardinality(Under(d, U, R)) = m + Cardinality(Under(d, B, R)) - Cardinality(A \intersect Under(d, B, R))
        BY <3>1, <3>2, FS_Union
      <4> QED
        BY <4>2, <4>3, <3>2, <1>1
    <3>4. t[Cardinality(Under(d, B, R)) + 1] = d
      BY <2>2 DEF Lists
    <3> HIDE DEF m, n
    <3>5. PICK k \in 0 .. n - 1 : k = Cardinality(Under(d, B, R))
      BY <3>2
    <3>6. PICK j : j = m + k + 1
      OBVIOUS
    <3>7. j \in 1 .. m + n /\ ~(j <= m) /\ j - m = k + 1
      BY ONLY <1>1, <3>6, k \in 0 .. n - 1
    <3>8. (s \o t)[j] = t[j - m]
      BY ONLY <1>6, <3>7
    <3> QED
      BY ONLY <1>1, <3>3, <3>4, <3>5, <3>6, <3>7, <3>8, k \in 0 .. n - 1
  <2> QED
    BY <2>1, <2>2
<1> QED
  BY <1>3, <1>6, <1>7 DEF Lists

\* The naturals by size; every set of them is ordered.
Smaller == {p \in Nat \X Nat : p[1] < p[2]}

\* Less-than orders any set of naturals.
LEMMA SmallerOrders ==
    ASSUME NEW S \in SUBSET Nat
    PROVE  Orders(Smaller, S) /\ \A a, b \in S : <<a, b>> \in Smaller <=> a < b
<1>1. \A a, b \in S : <<a, b>> \in Smaller <=> a < b
  BY DEF Smaller
<1> QED
  BY <1>1 DEF Orders

\* The rank of a natural in a set of them is the number of smaller ones.
LEMMA SmallerRanks ==
    ASSUME NEW S \in SUBSET Nat, IsFiniteSet(S)
    PROVE  /\ \A d \in S : /\ Under(d, S, Smaller) = {e \in S : e < d}
                           /\ Cardinality({e \in S : e < d}) \in 0 .. Cardinality(S) - 1
           /\ \A a, b \in S : Cardinality({e \in S : e < a}) = Cardinality({e \in S : e < b}) => a = b
           /\ \A i \in 0 .. Cardinality(S) - 1 : \E d \in S : Cardinality({e \in S : e < d}) = i
<1>1. Orders(Smaller, S)
  BY SmallerOrders
<1>2. \A d \in S : Under(d, S, Smaller) = {e \in S : e < d}
  BY SmallerOrders DEF Under
<1>3. \A d \in S : Cardinality(Under(d, S, Smaller)) \in 0 .. Cardinality(S) - 1
  BY <1>1, UnderCounts
<1>4. ASSUME NEW i \in 0 .. Cardinality(S) - 1
      PROVE  \E d \in S : Cardinality(Under(d, S, Smaller)) = i
  BY <1>1, RanksAreFilled
<1>5. ASSUME NEW a \in S, NEW b \in S,
             Cardinality({e \in S : e < a}) = Cardinality({e \in S : e < b})
      PROVE  a = b
  <2>1. \A x, y \in S : Cardinality(Under(x, S, Smaller)) = Cardinality(Under(y, S, Smaller)) => x = y
    BY <1>1, RanksCount, SMT
  <2>2. Under(a, S, Smaller) = {e \in S : e < a} /\ Under(b, S, Smaller) = {e \in S : e < b}
    BY <1>2
  <2> QED
    BY ONLY <1>5, <2>1, <2>2, a \in S, b \in S
<1>6. ASSUME NEW i \in 0 .. Cardinality(S) - 1 PROVE \E d \in S : Cardinality({e \in S : e < d}) = i
  <2>1. PICK d \in S : Cardinality(Under(d, S, Smaller)) = i
    BY <1>4
  <2> QED
    BY ONLY <1>2, <2>1, d \in S
<1>7. ASSUME NEW d \in S PROVE Cardinality({e \in S : e < d}) \in 0 .. Cardinality(S) - 1
  <2>1. Under(d, S, Smaller) = {e \in S : e < d}
    BY <1>2
  <2> QED
    BY ONLY <1>3, <2>1, d \in S
<1> QED
  BY ONLY <1>2, <1>5, <1>6, <1>7

\* The ascending list, by how many lie under each place.
LEMMA AscendingLists ==
    ASSUME NEW S \in SUBSET Nat, IsFiniteSet(S),
           NEW s, s = [i \in 1 .. Cardinality(S) |-> CHOOSE d \in S : Cardinality({e \in S : e < d}) = i - 1]
    PROVE  Lists(s, S, Smaller)
<1> DEFINE n == Cardinality(S)
           Below(d) == Cardinality({e \in S : e < d})
<1>1. n \in Nat
  BY FS_CardinalityType
<1>2. ASSUME NEW i \in 1 .. n PROVE s[i] \in S /\ Below(s[i]) = i - 1
  <2>1. i - 1 \in 0 .. n - 1
    BY <1>1
  <2>2. \E d \in S : Below(d) = i - 1
    BY <2>1, SmallerRanks
  <2>3. s[i] = CHOOSE d \in S : Below(d) = i - 1
    OBVIOUS
  <2> QED
    BY <2>2, <2>3
<1>3. s \in [1 .. n -> S]
  BY <1>2
<1>4. ASSUME NEW d \in S PROVE s[Below(d) + 1] = d
  <2>1. Below(d) + 1 \in 1 .. n /\ (Below(d) + 1) - 1 = Below(d)
    BY <1>1, SmallerRanks
  <2>2. s[Below(d) + 1] \in S /\ Below(s[Below(d) + 1]) = Below(d)
    BY <2>1, <1>2
  <2>3. \A a, b \in S : Below(a) = Below(b) => a = b
    BY SmallerRanks
  <2> HIDE DEF Below
  <2> QED
    BY <2>2, <2>3
<1>5. \A d \in S : Cardinality(Under(d, S, Smaller)) = Below(d)
  BY SmallerRanks
<1> QED
  BY <1>3, <1>4, <1>5 DEF Lists

------------------------------------------------------------------------------
(* Sums over finite sets.                                                    *)

\* The sum of e over S, as the community modules fold it.
SumOver(e, S) == MapThenSumSet(LAMBDA x : e[x], S)

\* The recursive definition that the fold picks its function from.
Recurs(g, S, e) ==
    g = [s \in SUBSET S |-> IF s = {} THEN 0
                            ELSE e[CHOOSE x \in s : TRUE] + g[s \ {CHOOSE x \in s : TRUE}]]

\* g sums e over the subsets of S, whichever member is added last.
Sums(g, S, e) ==
    /\ g \in [SUBSET S -> Nat]
    /\ g[{}] = 0
    /\ \A s \in SUBSET S : \A x \in s : g[s] = e[x] + g[s \ {x}]

\* Some function satisfies the recursive definition.
LEMMA RecursionExists ==
    ASSUME NEW S, IsFiniteSet(S), NEW e, \A x \in S : e[x] \in Nat
    PROVE  \E g : Recurs(g, S, e)
<1> DEFINE H == [p \in S \X Nat |-> e[p[1]] + p[2]]
           c == [s \in SUBSET S |-> CHOOSE x \in s : TRUE]
<1>1. H \in [S \X Nat -> Nat]
  OBVIOUS
<1>2. Picks(c, S)
  BY DEF Picks
<1> HIDE DEF H, c
<1>3. PICK g \in [SUBSET S -> Nat] : IsFold(g, S, 0, H, c)
  BY <1>1, <1>2, FoldExists
<1>4. ASSUME NEW s \in SUBSET S
      PROVE  g[s] = IF s = {} THEN 0
                    ELSE e[CHOOSE x \in s : TRUE] + g[s \ {CHOOSE x \in s : TRUE}]
  <2>1. CASE s = {}
    BY <1>3, <2>1 DEF IsFold
  <2>2. CASE s # {}
    <3>1. PICK x \in s : x = c[s] /\ x = CHOOSE y \in s : TRUE
      BY <1>2, <2>2 DEF c, Picks
    <3>2. g[s] = H[<<x, g[s \ {x}]>>]
      BY <1>3, <2>2, <3>1 DEF IsFold
    <3>3. g[s \ {x}] \in Nat
      BY <1>3
    <3>4. H[<<x, g[s \ {x}]>>] = e[x] + g[s \ {x}]
      BY <3>3 DEF H
    <3> QED
      BY <2>2, <3>1, <3>2, <3>4
  <2> QED
    BY <2>1, <2>2
<1>5. g = [s \in SUBSET S |-> g[s]]
  BY <1>3
<1>6. Recurs(g, S, e)
  BY <1>4, <1>5 DEF Recurs
<1> QED
  BY <1>6

\* Whatever satisfies it sums, in any order.
LEMMA RecursionSums ==
    ASSUME NEW S, IsFiniteSet(S), NEW e, \A x \in S : e[x] \in Nat,
           NEW g, Recurs(g, S, e)
    PROVE  Sums(g, S, e)
<1> DEFINE Step(s, x) == g[s] = e[x] + g[s \ {x}]
           Good(s) == g[s] \in Nat /\ \A x \in s : Step(s, x)
           Bad == {n \in Nat : \E s \in SUBSET S : Cardinality(s) = n /\ ~Good(s)}
<1>1. \A s \in SUBSET S : g[s] = IF s = {} THEN 0
                    ELSE e[CHOOSE x \in s : TRUE] + g[s \ {CHOOSE x \in s : TRUE}]
  BY DEF Recurs
<1>2. g[{}] = 0
  BY <1>1
<1>3. \A s \in SUBSET S : s # {} => \E c \in s : Step(s, c)
  BY <1>1
<1>4. \A s \in SUBSET S : IsFiniteSet(s) /\ Cardinality(s) \in Nat
  BY FS_Subset, FS_CardinalityType
<1>5. Bad = {}
  <2> SUFFICES ASSUME Bad # {} PROVE FALSE
    OBVIOUS
  <2> HIDE DEF Good
  <2>1. PICK n \in Bad : \A i \in Bad : n <= i
    BY NatSetHasLeast
  <2>2. PICK s \in SUBSET S : Cardinality(s) = n /\ ~Good(s)
    BY <2>1
  <2>3. \A t \in SUBSET S : Cardinality(t) < n => Good(t)
    BY <1>4, <2>1
  <2>4. CASE s = {}
    BY <1>2, <2>2, <2>4 DEF Good
  <2>5. CASE s # {}
    <3>1. PICK c \in s : Step(s, c)
      BY <1>3, <2>5
    <3>2. \A x \in s : Good(s \ {x})
      <4> SUFFICES ASSUME NEW x \in s PROVE Good(s \ {x})
        OBVIOUS
      <4>1. Cardinality(s \ {x}) = Cardinality(s) - 1
        BY <1>4, FS_RemoveElement
      <4>2. Cardinality(s \ {x}) < n
        BY <1>4, <2>2, <4>1
      <4> QED
        BY <2>3, <4>2
    <3>3. g[s] \in Nat
      <4>1. g[s \ {c}] \in Nat /\ e[c] \in Nat
        BY <3>2 DEF Good
      <4> QED
        BY <3>1, <4>1
    <3>4. ASSUME NEW x \in s PROVE Step(s, x)
      <4>1. CASE x = c
        BY <3>1, <4>1
      <4>2. CASE x # c
        <5> DEFINE t == (s \ {c}) \ {x}
        <5>1. t = (s \ {x}) \ {c}
          OBVIOUS
        <5>2. g[s \ {c}] = e[x] + g[t]
          <6>1. x \in s \ {c}
            BY <4>2
          <6> QED
            BY <3>2, <6>1 DEF Good
        <5>3. g[s \ {x}] = e[c] + g[t]
          <6>1. c \in s \ {x} /\ Good(s \ {x})
            BY <3>2, <4>2
          <6>2. g[s \ {x}] = e[c] + g[(s \ {x}) \ {c}]
            BY <6>1 DEF Good
          <6> QED
            BY <5>1, <6>2
        <5>4. g[t] \in Nat /\ e[x] \in Nat /\ e[c] \in Nat
          <6>1. Cardinality(s \ {c}) = Cardinality(s) - 1
            BY <1>4, FS_RemoveElement
          <6>2. x \in s \ {c}
            BY <4>2
          <6>3. Cardinality(t) = Cardinality(s \ {c}) - 1
            BY <1>4, <6>2, FS_RemoveElement
          <6>4. Cardinality(t) < n
            BY <1>4, <2>2, <6>1, <6>3
          <6> HIDE DEF t
          <6>5. t \in SUBSET S
            BY DEF t
          <6> QED
            BY <2>3, <6>4, <6>5 DEF Good
        <5> HIDE DEF t
        <5> QED
          BY <3>1, <5>2, <5>3, <5>4
      <4> QED
        BY <4>1, <4>2
    <3> QED
      BY <2>2, <3>3, <3>4 DEF Good
  <2> QED
    BY <2>4, <2>5
<1>6. \A s \in SUBSET S : Good(s)
  <2> HIDE DEF Good
  <2> QED
    BY <1>4, <1>5
<1>7. g \in [SUBSET S -> Nat]
  BY <1>6 DEF Recurs
<1> QED
  BY <1>2, <1>6, <1>7 DEF Sums

\* The sum over a set is the last value of a function that sums, and of every one.
LEMMA SumOverSums ==
    ASSUME NEW S, IsFiniteSet(S), NEW e, \A x \in S : e[x] \in Nat
    PROVE  /\ \E g : Sums(g, S, e) /\ SumOver(e, S) = g[S]
           /\ \A g : Sums(g, S, e) => SumOver(e, S) = g[S]
<1>1. \E g : Recurs(g, S, e)
  BY RecursionExists
<1> DEFINE F == CHOOSE g : Recurs(g, S, e)
<1>2. Recurs(F, S, e)
  BY <1>1
<1>3. SumOver(e, S) = F[S]
  BY DEF SumOver, MapThenSumSet, MapThenFoldSet, Recurs
<1> HIDE DEF F
<1>4. Sums(F, S, e)
  BY <1>2, RecursionSums
<1>5. ASSUME NEW g, Sums(g, S, e) PROVE g[S] = F[S]
  <2> DEFINE Good == {s \in SUBSET S : g[s] = F[s]}
  <2>1. {} \in Good
    BY <1>4, <1>5 DEF Sums
  <2>2. ASSUME NEW s \in SUBSET S, s # {} PROVE \E x \in s : s \ {x} \in Good => s \in Good
    <3>1. PICK x \in s : TRUE
      BY <2>2
    <3>2. g[s] = e[x] + g[s \ {x}] /\ F[s] = e[x] + F[s \ {x}]
      BY <1>4, <1>5 DEF Sums
    <3> QED
      BY <3>2
  <2> HIDE DEF Good
  <2>3. SUBSET S \subseteq Good
    BY <2>1, <2>2, SubsetInduction
  <2> QED
    BY <2>3 DEF Good
<1> QED
  BY <1>3, <1>4, <1>5

\* What sums over a set sums over its subsets.
LEMMA SumOverPart ==
    ASSUME NEW S, IsFiniteSet(S), NEW e, \A x \in S : e[x] \in Nat,
           NEW g, Sums(g, S, e), NEW T \in SUBSET S
    PROVE  SumOver(e, T) = g[T]
<1> DEFINE h == [s \in SUBSET T |-> g[s]]
<1>1. Sums(h, T, e)
  BY DEF Sums
<1>2. IsFiniteSet(T)
  BY FS_Subset
<1> HIDE DEF h
<1>3. SumOver(e, T) = h[T]
  BY <1>1, <1>2, SumOverSums
<1> QED
  BY <1>3 DEF h

\* Sums, one member at a time.
LEMMA SumOverStep ==
    ASSUME NEW S, IsFiniteSet(S), NEW e, \A x \in S : e[x] \in Nat
    PROVE  /\ SumOver(e, S) \in Nat
           /\ SumOver(e, {}) = 0
           /\ \A x \in S : SumOver(e, S) = e[x] + SumOver(e, S \ {x})
<1>1. PICK g : Sums(g, S, e)
  BY SumOverSums
<1>2. \A T \in SUBSET S : SumOver(e, T) = g[T]
  BY <1>1, SumOverPart
<1>3. SumOver(e, S) = g[S] /\ SumOver(e, {}) = g[{}]
  BY <1>2
<1>4. \A x \in S : SumOver(e, S \ {x}) = g[S \ {x}]
  BY <1>2
<1> QED
  BY <1>1, <1>3, <1>4 DEF Sums

\* The sum over two disjoint sets.
LEMMA SumOverUnion ==
    ASSUME NEW A, NEW B, IsFiniteSet(A), IsFiniteSet(B), A \intersect B = {},
           NEW e, \A x \in A \union B : e[x] \in Nat
    PROVE  SumOver(e, A \union B) = SumOver(e, A) + SumOver(e, B)
<1> DEFINE Good == {s \in SUBSET B : SumOver(e, A \union s) = SumOver(e, A) + SumOver(e, s)}
<1>1. SumOver(e, A) \in Nat /\ SumOver(e, {}) = 0
  BY SumOverStep
<1>2. {} \in Good
  BY <1>1
<1>3. ASSUME NEW s \in SUBSET B, s # {} PROVE \E x \in s : s \ {x} \in Good => s \in Good
  <2>1. PICK x \in s : TRUE
    BY <1>3
  <2>2. IsFiniteSet(s) /\ IsFiniteSet(s \ {x}) /\ IsFiniteSet(A \union s)
    BY FS_Subset, FS_Union
  <2>3. SumOver(e, s) = e[x] + SumOver(e, s \ {x})
    BY <2>2, SumOverStep
  <2>4. SumOver(e, s \ {x}) \in Nat
    BY <2>2, SumOverStep
  <2>5. (A \union s) \ {x} = A \union (s \ {x})
    BY <2>1
  <2>6. SumOver(e, A \union s) = e[x] + SumOver(e, (A \union s) \ {x})
    <3>1. PICK U : U = A \union s
      OBVIOUS
    <3>2. IsFiniteSet(U) /\ x \in U /\ \A y \in U : e[y] \in Nat
      BY <2>2, <3>1
    <3>3. SumOver(e, U) = e[x] + SumOver(e, U \ {x})
      BY <3>2, SumOverStep
    <3> QED
      BY <3>1, <3>3
  <2>7. e[x] \in Nat
    BY <2>1
  <2>8. ASSUME s \ {x} \in Good PROVE s \in Good
    <3>1. SumOver(e, A \union (s \ {x})) = SumOver(e, A) + SumOver(e, s \ {x})
      BY <2>8
    <3>2. SumOver(e, (A \union s) \ {x}) = SumOver(e, A) + SumOver(e, s \ {x})
      BY <2>5, <3>1
    <3>3. SumOver(e, A \union s) = SumOver(e, A) + SumOver(e, s)
      BY <1>1, <2>3, <2>4, <2>6, <2>7, <3>2
    <3> QED
      BY <3>3
  <2> QED
    BY <2>8
<1> HIDE DEF Good
<1>4. SUBSET B \subseteq Good
  BY <1>2, <1>3, SubsetInduction
<1> QED
  BY <1>4 DEF Good

\* Terms that are no larger sum to no more; equal terms, to as much.
LEMMA SumOverMono ==
    ASSUME NEW S, IsFiniteSet(S), NEW e, NEW f,
           \A x \in S : e[x] \in Nat /\ f[x] \in Nat /\ e[x] <= f[x]
    PROVE  SumOver(e, S) <= SumOver(f, S)
<1> DEFINE Good == {s \in SUBSET S : SumOver(e, s) <= SumOver(f, s)}
<1>1. SumOver(e, {}) = 0 /\ SumOver(f, {}) = 0
  BY SumOverStep
<1>2. {} \in Good
  BY <1>1
<1>3. ASSUME NEW s \in SUBSET S, s # {} PROVE \E x \in s : s \ {x} \in Good => s \in Good
  <2>1. PICK x \in s : TRUE
    BY <1>3
  <2>2. IsFiniteSet(s) /\ IsFiniteSet(s \ {x})
    BY FS_Subset
  <2>3. SumOver(e, s) = e[x] + SumOver(e, s \ {x})
    BY <2>2, SumOverStep
  <2>4. SumOver(f, s) = f[x] + SumOver(f, s \ {x})
    BY <2>2, SumOverStep
  <2>5. SumOver(e, s \ {x}) \in Nat
    BY <2>2, SumOverStep
  <2>6. SumOver(f, s \ {x}) \in Nat
    BY <2>2, SumOverStep
  <2>7. e[x] \in Nat /\ f[x] \in Nat /\ e[x] <= f[x]
    BY <2>1
  <2>8. ASSUME SumOver(e, s \ {x}) <= SumOver(f, s \ {x}) PROVE SumOver(e, s) <= SumOver(f, s)
    BY <2>3, <2>4, <2>5, <2>6, <2>7, <2>8
  <2> QED
    BY <2>8
<1> HIDE DEF Good
<1>4. SUBSET S \subseteq Good
  BY <1>2, <1>3, SubsetInduction
<1> QED
  BY <1>4 DEF Good

\* A union has at most as many members as its parts together, and as many if
\* the parts are disjoint.
LEMMA SumOverCover ==
    ASSUME NEW I, IsFiniteSet(I), NEW M, \A i \in I : IsFiniteSet(M[i]),
           NEW c, \A i \in I : c[i] = Cardinality(M[i])
    PROVE  /\ IsFiniteSet(UNION {M[i] : i \in I})
           /\ Cardinality(UNION {M[i] : i \in I}) <= SumOver(c, I)
           /\ (\A i, j \in I : i # j => M[i] \intersect M[j] = {}) =>
                Cardinality(UNION {M[i] : i \in I}) = SumOver(c, I)
<1> DEFINE U(s) == UNION {M[i] : i \in s}
           Apart == \A i, j \in I : i # j => M[i] \intersect M[j] = {}
           Holds(s) == /\ IsFiniteSet(U(s)) /\ Cardinality(U(s)) <= SumOver(c, s)
                       /\ Apart => Cardinality(U(s)) = SumOver(c, s)
           Good == {s \in SUBSET I : Holds(s)}
<1>1. \A i \in I : c[i] \in Nat
  BY FS_CardinalityType
<1>2. {} \in Good
  <2>1. U({}) = {}
    OBVIOUS
  <2>2. IsFiniteSet({}) /\ Cardinality({}) = 0
    BY FS_EmptySet
  <2>3. SumOver(c, {}) = 0
    BY <1>1, SumOverStep
  <2> QED
    BY <2>1, <2>2, <2>3
<1>3. ASSUME NEW s \in SUBSET I, s # {} PROVE \E x \in s : s \ {x} \in Good => s \in Good
  <2>1. PICK x \in s : TRUE
    BY <1>3
  <2>2. IsFiniteSet(s) /\ IsFiniteSet(s \ {x})
    BY FS_Subset
  <2>3. SumOver(c, s) = c[x] + SumOver(c, s \ {x})
    BY <1>1, <2>2, SumOverStep
  <2>4. SumOver(c, s \ {x}) \in Nat
    BY <1>1, <2>2, SumOverStep
  <2>5. c[x] \in Nat /\ c[x] = Cardinality(M[x]) /\ IsFiniteSet(M[x])
    BY <1>1, <2>1
  <2> DEFINE V == U(s \ {x})
  <2>6. U(s) = V \union M[x]
    BY <2>1
  <2>7. Apart => V \intersect M[x] = {}
    BY <2>1
  <2>8. ASSUME Holds(s \ {x}) PROVE Holds(s)
    <3>1. IsFiniteSet(V) /\ Cardinality(V) <= SumOver(c, s \ {x})
          /\ (Apart => Cardinality(V) = SumOver(c, s \ {x}))
      BY <2>8
    <3> HIDE DEF V, Apart, U
    <3>2. /\ IsFiniteSet(V \union M[x]) /\ Cardinality(V) \in Nat
          /\ IsFiniteSet(V \intersect M[x])
          /\ Cardinality(V \intersect M[x]) \in Nat
      BY <2>5, <3>1, FS_Union, FS_Intersection, FS_CardinalityType
    <3>3. Cardinality(V \union M[x]) =
            Cardinality(V) + Cardinality(M[x]) - Cardinality(V \intersect M[x])
      BY <2>5, <3>1, FS_Union
    <3>4. Cardinality(V \union M[x]) <= SumOver(c, s)
      BY <2>3, <2>4, <2>5, <3>1, <3>2, <3>3
    <3>5. Apart => Cardinality(V \intersect M[x]) = 0
      BY <2>7, FS_EmptySet
    <3>6. Apart => Cardinality(V \union M[x]) = SumOver(c, s)
      BY <2>3, <2>4, <2>5, <3>1, <3>2, <3>3, <3>5
    <3> QED
      BY <2>6, <3>2, <3>4, <3>6
  <2> HIDE DEF Holds
  <2> QED
    BY <2>8
<1> HIDE DEF Good
<1>4. SUBSET I \subseteq Good
  BY <1>2, <1>3, SubsetInduction
<1> QED
  BY <1>4 DEF Good
------------------------------------------------------------------------------
(* Rounds: what holds after every round of a fold over 1 .. n.                *)

\* What holds at first and is kept by every step holds up to n.
LEMMA UptoInduction ==
    ASSUME NEW n \in Nat, NEW P, 0 \in P, \A k \in 1 .. n : k - 1 \in P => k \in P
    PROVE  0 .. n \subseteq P
<1> SUFFICES ASSUME ~(0 .. n \subseteq P) PROVE FALSE
  OBVIOUS
<1> DEFINE Bad == {k \in 0 .. n : k \notin P}
<1>1. PICK m \in Bad : \A k \in Bad : m <= k
  <2>1. Bad \in SUBSET Nat /\ Bad # {}
    OBVIOUS
  <2> HIDE DEF Bad
  <2> QED
    BY <2>1, NatSetHasLeast
<1>2. m \in 1 .. n /\ m - 1 \in 0 .. n /\ ~(m <= m - 1)
  BY <1>1
<1>3. m - 1 \in P
  BY <1>1, <1>2
<1> QED
  BY <1>1, <1>2, <1>3

\* A fold that takes the greatest member last goes through 1 .. n in order.
LEMMA InOrder ==
    /\ 1 .. 0 = {}
    /\ \A n \in Nat : \A k \in 1 .. n :
          /\ 1 .. k \in SUBSET (1 .. n) /\ 1 .. k # {}
          /\ Max(1 .. k) = k /\ (1 .. k) \ {k} = 1 .. k - 1
<1>1. \A n \in Nat : \A k \in 1 .. n :
          1 .. k \in SUBSET (1 .. n) /\ 1 .. k # {} /\ (1 .. k) \ {k} = 1 .. k - 1
  OBVIOUS
<1>2. ASSUME NEW n \in Nat, NEW k \in 1 .. n PROVE Max(1 .. k) = k
  <2>1. 1 .. k \in SUBSET Nat /\ 1 .. k # {} /\ k + 1 \in Nat /\ \A x \in 1 .. k : x < k + 1
    OBVIOUS
  <2>2. Max(1 .. k) \in 1 .. k /\ \A x \in 1 .. k : x <= Max(1 .. k)
    BY <2>1, MaxIsGreatest
  <2>3. k \in 1 .. k
    OBVIOUS
  <2> QED
    BY <2>2, <2>3
<1> QED
  BY <1>1, <1>2

\* Such a fold takes a member of every set.
LEMMA GreatestPicks ==
    ASSUME NEW n \in Nat
    PROVE  IsFiniteSet(1 .. n) /\ Picks([s \in SUBSET (1 .. n) |-> Max(s)], 1 .. n)
<1>1. ASSUME NEW s \in SUBSET (1 .. n), s # {} PROVE Max(s) \in s
  <2>1. s \in SUBSET Nat /\ n + 1 \in Nat /\ \A x \in s : x < n + 1
    OBVIOUS
  <2> QED
    BY <1>1, <2>1, MaxIsGreatest
<1> QED
  BY <1>1, FS_Interval DEF Picks

\* g folds the subsets of 1 .. n, the greatest member last.
Rounds(g, n, V, base, H) ==
    /\ g \in [SUBSET (1 .. n) -> V] /\ g[{}] = base
    /\ \A s \in SUBSET (1 .. n) :
          s # {} => /\ Max(s) \in 1 .. n /\ g[s \ {Max(s)}] \in V
                    /\ g[s] = H[<<Max(s), g[s \ {Max(s)}]>>]

\* A fold over 1 .. n that takes the greatest member last is defined when its
\* step H is a function.
LEMMA RoundsExist ==
    ASSUME NEW n \in Nat, NEW V, NEW base \in V, NEW H \in [(1 .. n) \X V -> V]
    PROVE  \E g : Rounds(g, n, V, base, H)
<1> DEFINE c == [s \in SUBSET (1 .. n) |-> Max(s)]
<1>1. IsFiniteSet(1 .. n) /\ Picks(c, 1 .. n)
  BY GreatestPicks
<1> HIDE DEF c
<1>2. PICK g \in [SUBSET (1 .. n) -> V] : IsFold(g, 1 .. n, base, H, c)
  BY <1>1, FoldExists
<1>3. g[{}] = base
  BY <1>2 DEF IsFold
<1>4. ASSUME NEW s \in SUBSET (1 .. n), s # {}
      PROVE  /\ Max(s) \in 1 .. n /\ g[s \ {Max(s)}] \in V
             /\ g[s] = H[<<Max(s), g[s \ {Max(s)}]>>]
  <2>1. PICK x : x = Max(s)
    OBVIOUS
  <2>2. c[s] = x /\ x \in 1 .. n
    BY <1>1, <1>4, <2>1 DEF c, Picks
  <2>3. s \ {x} \in SUBSET (1 .. n)
    OBVIOUS
  <2>4. g[s \ {x}] \in V /\ g[s] = H[<<x, g[s \ {x}]>>]
    BY <1>2, <1>4, <2>2, <2>3 DEF IsFold
  <2> QED
    BY <2>1, <2>2, <2>4
<1> QED
  BY <1>2, <1>3, <1>4 DEF Rounds

\* A sequence of members of S, each at the place of its rank, lists S.
LEMMA RanksListed ==
    ASSUME NEW S, IsFiniteSet(S), NEW R, Orders(R, S), NEW s \in [1 .. Cardinality(S) -> S],
           \A i \in 1 .. Cardinality(S) : Cardinality(Under(s[i], S, R)) = i - 1
    PROVE  Lists(s, S, R)
<1>1. Cardinality(S) \in Nat
  BY FS_CardinalityType
<1>2. ASSUME NEW d \in S PROVE s[Cardinality(Under(d, S, R)) + 1] = d
  <2>1. PICK r \in Nat : r = Cardinality(Under(d, S, R)) /\ r \in 0 .. Cardinality(S) - 1
    BY <1>1, UnderCounts
  <2>2. r + 1 \in 1 .. Cardinality(S) /\ (r + 1) - 1 = r
    BY <1>1, <2>1
  <2>3. s[r + 1] \in S /\ Cardinality(Under(s[r + 1], S, R)) = r
    BY <2>2
  <2>4. \A a, b \in S : Cardinality(Under(a, S, R)) = Cardinality(Under(b, S, R)) => a = b
    BY RanksCount
  <2> QED
    BY <2>1, <2>3, <2>4
<1> QED
  BY <1>2 DEF Lists
==============================================================================
