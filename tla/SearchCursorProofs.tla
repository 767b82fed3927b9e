------------------------- MODULE SearchCursorProofs --------------------------
(****************************************************************************)
(* Proofs about the pagination cursor: first that the pieces a query is     *)
(* evaluated in (head, windows, whole tail) are pieces of its answer, then  *)
(* the cursor's inductive invariant and what follows from it.               *)
(****************************************************************************)
EXTENDS SearchCursor, NatSetLemmas

\* The documents in at least k of some postings.
AtLeast(post, terms, k) ==
    {d \in UNION {post[t] : t \in terms} : Cardinality({t \in terms : d \in post[t]}) >= k}

\* What the k-th counter becomes when term x is counted after the others of s.
WithTerm(post, s, x, k) ==
    IF k = 1 THEN AtLeast(post, s \ {x}, k) \union post[x]
    ELSE AtLeast(post, s \ {x}, k) \union (AtLeast(post, s \ {x}, k - 1) \intersect post[x])

\* The counters c stand for the terms of s.
Counts(c, post, s, m) == \A k \in 1 .. m : c[k] = AtLeast(post, s, k)

\* One more term's effect on the documents in at least k postings.
LEMMA AtLeastGrows ==
    ASSUME NEW post, NEW s, IsFiniteSet(s), NEW x \in s, NEW k \in Nat, k >= 1
    PROVE  AtLeast(post, s, k) = WithTerm(post, s, x, k)
<1> DEFINE Has(d) == {t \in s : d \in post[t]}
           HasRest(d) == {t \in s \ {x} : d \in post[t]}
           All == UNION {post[t] : t \in s}
<1>1. ASSUME NEW d \in All
      PROVE  /\ Cardinality(Has(d)) \in Nat /\ Cardinality(HasRest(d)) \in Nat
             /\ Cardinality(Has(d)) = Cardinality(HasRest(d)) + IF d \in post[x] THEN 1 ELSE 0
             /\ Cardinality(HasRest(d)) >= 1 => d \in UNION {post[t] : t \in s \ {x}}
  <2>1. IsFiniteSet(Has(d)) /\ IsFiniteSet(HasRest(d))
    BY FS_Subset
  <2>2. Cardinality(Has(d)) \in Nat /\ Cardinality(HasRest(d)) \in Nat
    BY <2>1, FS_CardinalityType
  <2>3. ASSUME d \in post[x] PROVE Cardinality(Has(d)) = Cardinality(HasRest(d)) + 1
    <3>1. Has(d) = HasRest(d) \union {x} /\ x \notin HasRest(d)
      BY <2>3
    <3> QED
      BY <3>1, <2>1, <2>2, FS_AddElement
  <2>4. ASSUME d \notin post[x] PROVE Has(d) = HasRest(d)
    BY <2>4
  <2>5. Cardinality(HasRest(d)) >= 1 => HasRest(d) # {}
    BY FS_EmptySet
  <2>6. HasRest(d) # {} => d \in UNION {post[t] : t \in s \ {x}}
    OBVIOUS
  <2> HIDE DEF Has, HasRest
  <2> QED
    BY <2>2, <2>3, <2>4, <2>5, <2>6
<1>2. AtLeast(post, s, k) = {d \in All : Cardinality(Has(d)) >= k}
  BY DEF AtLeast
<1>3. \A j \in Nat : j >= 1 => AtLeast(post, s \ {x}, j) = {d \in All : Cardinality(HasRest(d)) >= j}
  <2> TAKE j \in Nat
  <2>1. HAVE j >= 1
  <2>2. AtLeast(post, s \ {x}, j) = {d \in UNION {post[t] : t \in s \ {x}} : Cardinality(HasRest(d)) >= j}
    BY DEF AtLeast
  <2>3. UNION {post[t] : t \in s \ {x}} \subseteq All
    OBVIOUS
  <2>4. \A d \in All : Cardinality(HasRest(d)) >= j => d \in UNION {post[t] : t \in s \ {x}}
    <3> TAKE d \in All
    <3>1. HAVE Cardinality(HasRest(d)) >= j
    <3>2. Cardinality(HasRest(d)) \in Nat
      BY <1>1
    <3>3. Cardinality(HasRest(d)) >= 1
      BY <2>1, <3>1, <3>2
    <3> QED
      BY <1>1, <3>3
  <2> HIDE DEF All, HasRest
  <2> QED
    BY <2>2, <2>3, <2>4
<1>4. post[x] \subseteq All
  OBVIOUS
<1> HIDE DEF Has, HasRest, All
<1>5. CASE k = 1
  <2>1. \A d \in All : Cardinality(Has(d)) >= 1 <=> Cardinality(HasRest(d)) >= 1 \/ d \in post[x]
    BY <1>1
  <2> QED
    BY <2>1, <1>2, <1>3, <1>4, <1>5 DEF WithTerm
<1>6. CASE k # 1
  <2>1. \A d \in All : Cardinality(Has(d)) >= k <=>
            Cardinality(HasRest(d)) >= k \/ (Cardinality(HasRest(d)) >= k - 1 /\ d \in post[x])
    BY <1>1
  <2>2. k - 1 \in Nat /\ k - 1 >= 1
    BY <1>6
  <2> QED
    BY <2>1, <2>2, <1>2, <1>3, <1>4, <1>6 DEF WithTerm
<1> QED
  BY <1>5, <1>6

\* The k-th counter after term x is counted.
Counted(post, c, x, k) == IF k = 1 THEN c[1] \union post[x] ELSE c[k] \union (c[k - 1] \intersect post[x])

\* Counting a term keeps the counters right: updated from high to low, each
\* reads the one below it before that changes.
LEMMA CountersStep ==
    ASSUME NEW post, NEW m \in Nat, NEW s, IsFiniteSet(s), NEW x \in s, NEW c,
           Counts(c, post, s \ {x}, m), NEW k \in 1 .. m
    PROVE  AtLeast(post, s, k) = Counted(post, c, x, k)
<1>1. k \in Nat /\ k >= 1 /\ (k # 1 => k - 1 \in 1 .. m)
  OBVIOUS
<1>2. AtLeast(post, s, k) = WithTerm(post, s, x, k)
  BY <1>1, AtLeastGrows
<1>3. c[k] = AtLeast(post, s \ {x}, k) /\ (k # 1 => c[k - 1] = AtLeast(post, s \ {x}, k - 1))
  BY <1>1 DEF Counts
<1> QED
  BY <1>2, <1>3 DEF WithTerm, Counted

\* The cascading counters of `threshold` find the documents that are in at least
\* m of the postings, whatever order the postings are counted in.
LEMMA ThresholdCounts ==
    ASSUME NEW post, NEW terms, IsFiniteSet(terms), NEW m \in Nat, m >= 1
    PROVE  Threshold(post, terms, m) = AtLeast(post, terms, m)
<1> DEFINE U == UNION {post[t] : t \in terms}
           V == [1 .. m -> SUBSET U]
           base == [k \in 1 .. m |-> {}]
           Count(t, c) == [k \in 1 .. m |-> IF k = 1 THEN c[1] \union post[t]
                              ELSE c[k] \union (c[k - 1] \intersect post[t])]
           H == [p \in terms \X V |-> Count(p[1], p[2])]
           c == [s \in SUBSET terms |-> CHOOSE x \in s : TRUE]
           Folds(g) == g = [s \in SUBSET terms |-> IF s = {} THEN base
                             ELSE Count(CHOOSE x \in s : TRUE, g[s \ {CHOOSE x \in s : TRUE}])]
<1>1. \E g : Folds(g)
  <2>1. base \in V
    OBVIOUS
  <2>2. H \in [terms \X V -> V]
    <3>1. ASSUME NEW t \in terms, NEW v \in V PROVE Count(t, v) \in V
      <4>1. \A k \in 1 .. m : k # 1 => k - 1 \in 1 .. m
        OBVIOUS
      <4> QED
        BY <4>1
    <3> QED
      BY <3>1
  <2>3. Picks(c, terms)
    BY DEF Picks
  <2> HIDE DEF V, base, H, c
  <2>4. PICK g \in [SUBSET terms -> V] : IsFold(g, terms, base, H, c)
    BY <2>1, <2>2, <2>3, FoldExists
  <2>5. \A s \in SUBSET terms : s # {} =>
            H[<<c[s], g[s \ {c[s]}]>>] = Count(CHOOSE x \in s : TRUE, g[s \ {CHOOSE x \in s : TRUE}])
    BY <2>3, <2>4 DEF H, c, Picks
  <2>6. Folds(g)
    <3>1. g = [s \in SUBSET terms |-> g[s]]
      BY <2>4
    <3> HIDE DEF Count
    <3>2. \A s \in SUBSET terms : g[s] = IF s = {} THEN base
                             ELSE Count(CHOOSE x \in s : TRUE, g[s \ {CHOOSE x \in s : TRUE}])
      BY <2>4, <2>5 DEF IsFold
    <3> QED
      BY <3>1, <3>2
  <2> QED
    BY <2>6
<1>2. ASSUME NEW g, Folds(g) PROVE g[terms][m] = AtLeast(post, terms, m)
  <2> DEFINE Good == {s \in SUBSET terms : Counts(g[s], post, s, m)}
  <2>1. {} \in Good
    BY <1>2 DEF AtLeast, Counts
  <2>2. ASSUME NEW s \in SUBSET terms, s # {} PROVE \E x \in s : s \ {x} \in Good => s \in Good
    <3> DEFINE x == CHOOSE y \in s : TRUE
    <3>1. x \in s
      BY <2>2
    <3>2. g[s] = Count(x, g[s \ {x}])
      BY <1>2, <2>2
    <3>3. IsFiniteSet(s)
      BY FS_Subset
    <3> HIDE DEF x
    <3>4. ASSUME s \ {x} \in Good, NEW k \in 1 .. m PROVE g[s][k] = AtLeast(post, s, k)
      <4>1. Counts(g[s \ {x}], post, s \ {x}, m)
        BY <3>4
      <4>2. AtLeast(post, s, k) = Counted(post, g[s \ {x}], x, k)
        BY <3>1, <3>3, <4>1, CountersStep
      <4> QED
        BY <3>2, <4>2 DEF Counted
    <3> QED
      BY <3>1, <3>4 DEF Counts
  <2>3. SUBSET terms \subseteq Good
    <3> HIDE DEF Good
    <3> QED
      BY <2>1, <2>2, SubsetInduction
  <2> QED
    BY <2>3 DEF Counts
<1>3. m > Cardinality(terms) => AtLeast(post, terms, m) = {}
  <2>1. \A d : IsFiniteSet({t \in terms : d \in post[t]}) /\ Cardinality({t \in terms : d \in post[t]}) <= Cardinality(terms)
    BY FS_Subset
  <2>2. Cardinality(terms) \in Nat /\ \A d : Cardinality({t \in terms : d \in post[t]}) \in Nat
    BY <2>1, FS_CardinalityType
  <2> QED
    BY <2>1, <2>2 DEF AtLeast
<1>4. FoldSet(Count, base, terms) = (CHOOSE g : Folds(g))[terms]
  BY DEF FoldSet, MapThenFoldSet
<1>5. Threshold(post, terms, m) = IF m > Cardinality(terms) THEN {} ELSE (CHOOSE g : Folds(g))[terms][m]
  BY DEF Threshold, FoldSet, MapThenFoldSet
<1>6. Folds(CHOOSE g : Folds(g))
  <2> HIDE DEF Folds
  <2> QED
    BY <1>1
<1> HIDE DEF Folds
<1> QED
  BY <1>2, <1>3, <1>5, <1>6

------------------------------------------------------------------------------
\* Buckets are numbered from 0.
LEMMA BucketIsNat ==
    ASSUME NEW d \in Nat
    PROVE  Bucket(d) \in Nat
BY BucketAssumption DEF Bucket

\* min_match is at least 1, however many keys may be missed.
LEMMA QueryShape ==
    ASSUME NEW q, IsQuery(q)
    PROVE  /\ IsFiniteSet(Recs(q)) /\ Recs(q) \subseteq q.keys
           /\ Cardinality(Recs(q)) \in Nat
           /\ MinMatch(q) \in Nat /\ MinMatch(q) >= 1
<1>1. IsFiniteSet(Recs(q)) /\ Recs(q) \subseteq q.keys
  BY FS_Subset DEF IsQuery, Recs
<1>2. Cardinality(Recs(q)) \in Nat /\ Cardinality(q.keys) \in Nat
  BY <1>1, FS_CardinalityType DEF IsQuery
<1> DEFINE lost == Min({q.maxMissing, Cardinality(q.keys)})
<1>3. lost \in Nat /\ lost <= Cardinality(q.keys)
  <2>1. {q.maxMissing, Cardinality(q.keys)} \in SUBSET Nat
    BY <1>2 DEF IsQuery
  <2> QED
    BY <2>1, MinIsLeast
<1> HIDE DEF lost
<1> DEFINE both == {1, Cardinality(q.keys) - lost}
<1>4. both \in SUBSET Nat /\ both # {} /\ \A n \in both : n < Cardinality(q.keys) + 2
  BY <1>2, <1>3
<1>5. Max(both) \in both /\ \A n \in both : n <= Max(both)
  <2>1. Cardinality(q.keys) + 2 \in Nat
    BY <1>2
  <2> HIDE DEF both
  <2> QED
    BY <1>4, <2>1, MaxIsGreatest
<1>6. Max(both) \in Nat /\ Max(both) >= 1
  <2>1. 1 \in both
    OBVIOUS
  <2> HIDE DEF both
  <2> QED
    BY <1>4, <1>5, <2>1
<1> QED
  BY <1>1, <1>2, <1>6 DEF MinMatch, lost

\* Keys the dictionary lacks have no part in the answer.
LEMMA MatchingByRecs ==
    ASSUME NEW q, IsQuery(q)
    PROVE  Matching(q) = {d \in AtLeast(q.post, Recs(q), MinMatch(q)) : Passes(q, d)}
<1>1. \A d : {t \in q.keys : d \in q.post[t]} = {t \in Recs(q) : d \in q.post[t]}
  BY DEF Recs
<1>2. UNION {q.post[t] : t \in q.keys} = UNION {q.post[t] : t \in Recs(q)}
  BY DEF Recs
<1> QED
  BY <1>1, <1>2 DEF Matching, AtLeast

\* An answer is a finite set of documents.
LEMMA MatchingShape ==
    ASSUME NEW q, IsQuery(q)
    PROVE  Matching(q) \in SUBSET Nat /\ IsFiniteSet(Matching(q))
<1> DEFINE Posts == {q.post[t] : t \in q.keys}
<1>1. IsFiniteSet(Posts) 
  <2> DEFINE f == [t \in q.keys |-> q.post[t]]
  <2>1. f \in Surjection(q.keys, Posts)
    BY DEF Surjection
  <2>2. IsFiniteSet(q.keys)
    BY DEF IsQuery
  <2> HIDE DEF f, Posts
  <2> QED
    BY <2>1, <2>2, FS_Surjection
<1>2. \A p \in Posts : IsFiniteSet(p) /\ p \in SUBSET Nat
  BY DEF IsQuery
<1> HIDE DEF Posts
<1>3. IsFiniteSet(UNION Posts)
  BY <1>1, <1>2, FS_UNION
<1>4. Matching(q) \in SUBSET UNION Posts
  BY DEF Matching, Posts
<1> QED
  BY <1>2, <1>3, <1>4, FS_Subset

\* The eager prefixes, thresholded and filtered, are the head of the answer.
LEMMA HeadIsMatching ==
    ASSUME NEW q, IsQuery(q)
    PROVE  HeadDocs(q) = Within(Matching(q), {0})
<1> DEFINE prefix == [t \in Recs(q) |-> Within(q.post[t], {0})]
           m == MinMatch(q)
<1>1. IsFiniteSet(Recs(q)) /\ m \in Nat /\ m >= 1
  BY QueryShape
<1>2. Threshold(prefix, Recs(q), m) = AtLeast(prefix, Recs(q), m)
  <2> HIDE DEF prefix, m
  <2> QED
    BY <1>1, ThresholdCounts
<1>3. AtLeast(prefix, Recs(q), m) = Within(AtLeast(q.post, Recs(q), m), {0})
  <2>1. ASSUME NEW d, Bucket(d) = 0
        PROVE  {t \in Recs(q) : d \in prefix[t]} = {t \in Recs(q) : d \in q.post[t]}
    BY <2>1 DEF Within
  <2>2. UNION {prefix[t] : t \in Recs(q)} = Within(UNION {q.post[t] : t \in Recs(q)}, {0})
    BY DEF Within
  <2>3. \A d \in UNION {prefix[t] : t \in Recs(q)} : Bucket(d) = 0
    BY DEF Within
  <2> HIDE DEF prefix, m
  <2> QED
    BY <2>1, <2>2, <2>3 DEF AtLeast, Within
<1>4. HeadDocs(q) = Filtered(q, Within(AtLeast(q.post, Recs(q), m), {0}), {0})
  BY <1>2, <1>3 DEF HeadDocs
<1> HIDE DEF m
<1>5. Matching(q) = {d \in AtLeast(q.post, Recs(q), m) : Passes(q, d)}
  BY MatchingByRecs DEF m
<1> QED
  BY <1>4, <1>5 DEF Filtered, Within, Passes

\* A strict AND matches the documents that every posting holds.
LEMMA StrictMatching ==
    ASSUME NEW q, IsQuery(q), Strict(q), NEW seed \in Recs(q)
    PROVE  \A d : d \in Matching(q) <=> (\A t \in Recs(q) : d \in q.post[t]) /\ Passes(q, d)
<1>1. IsFiniteSet(Recs(q)) /\ MinMatch(q) = Cardinality(Recs(q)) /\ Cardinality(Recs(q)) \in Nat
  BY QueryShape DEF Strict
<1>2. ASSUME NEW d
      PROVE  Cardinality({t \in Recs(q) : d \in q.post[t]}) >= Cardinality(Recs(q))
                 <=> \A t \in Recs(q) : d \in q.post[t]
  <2> DEFINE T == {t \in Recs(q) : d \in q.post[t]}
  <2>1. T \in SUBSET Recs(q)
    OBVIOUS
  <2>2. /\ IsFiniteSet(T) /\ Cardinality(T) <= Cardinality(Recs(q))
        /\ Cardinality(Recs(q)) = Cardinality(T) => Recs(q) = T
    <3> HIDE DEF T
    <3> QED
      BY <1>1, <2>1, FS_Subset
  <2>3. Cardinality(T) \in Nat
    BY <2>2, FS_CardinalityType
  <2>4. (\A t \in Recs(q) : d \in q.post[t]) <=> T = Recs(q)
    OBVIOUS
  <2> HIDE DEF T
  <2>5. Cardinality(T) >= Cardinality(Recs(q)) <=> T = Recs(q)
    BY <1>1, <2>2, <2>3
  <2> QED
    BY <2>4, <2>5 DEF T
<1>3. Matching(q) = {d \in AtLeast(q.post, Recs(q), Cardinality(Recs(q))) : Passes(q, d)}
  BY <1>1, MatchingByRecs
<1> QED
  BY <1>2, <1>3 DEF AtLeast

\* A window of the scan finds the answer in its buckets, whichever posting seeds
\* the intersection.
LEMMA WindowIsMatching ==
    ASSUME NEW q, IsQuery(q), Strict(q), NEW seed \in Recs(q), NEW keys
    PROVE  WindowDocs(q, seed, keys) = Within(Matching(q), keys)
<1>1. SeededAnd(q, seed, keys) = {d \in Within(q.post[seed], keys) : \A t \in Recs(q) : d \in q.post[t]}
  BY DEF SeededAnd, Within, Buckets
<1>2. \A d : d \in Matching(q) <=> (\A t \in Recs(q) : d \in q.post[t]) /\ Passes(q, d)
  BY StrictMatching
<1> QED
  BY <1>1, <1>2 DEF WindowDocs, Filtered, Passes, Within

\* The whole-tail load finds the answer past the head, strict or thresholded.
LEMMA WholeTailIsMatching ==
    ASSUME NEW q, IsQuery(q), NEW seed \in Recs(q)
    PROVE  WholeTail(q, seed) = {d \in Matching(q) : Bucket(d) >= 1}
<1> DEFINE all == UNION {Buckets(q.post[t]) : t \in Recs(q)}
           docs == IF Strict(q) THEN SeededAnd(q, seed, all)
                   ELSE Threshold(q.post, Recs(q), MinMatch(q))
<1>1. \A d : d \in docs /\ Passes(q, d) <=> d \in Matching(q)
  <2>1. CASE Strict(q)
    <3>1. docs = {d \in q.post[seed] : \A t \in Recs(q) : d \in q.post[t]}
      BY <2>1 DEF SeededAnd, Within, Buckets
    <3>2. \A d : d \in Matching(q) <=> (\A t \in Recs(q) : d \in q.post[t]) /\ Passes(q, d)
      BY <2>1, StrictMatching
    <3> QED
      BY <3>1, <3>2
  <2>2. CASE ~Strict(q)
    <3>1. IsFiniteSet(Recs(q)) /\ MinMatch(q) \in Nat /\ MinMatch(q) >= 1
      BY QueryShape
    <3>2. docs = AtLeast(q.post, Recs(q), MinMatch(q))
      BY <2>2, <3>1, ThresholdCounts
    <3> QED
      BY <3>2, MatchingByRecs
  <2> QED
    BY <2>1, <2>2
<1>2. \A d \in docs : Bucket(d) \in all
  <2>1. docs \subseteq UNION {q.post[t] : t \in Recs(q)}
    <3>1. CASE Strict(q)
      BY <3>1 DEF SeededAnd, Within
    <3>2. CASE ~Strict(q)
      <4>1. IsFiniteSet(Recs(q)) /\ MinMatch(q) \in Nat /\ MinMatch(q) >= 1
        BY QueryShape
      <4>2. docs = AtLeast(q.post, Recs(q), MinMatch(q))
        BY <3>2, <4>1, ThresholdCounts
      <4> QED
        BY <4>2 DEF AtLeast
    <3> QED
      BY <3>1, <3>2
  <2> HIDE DEF docs
  <2> QED
    BY <2>1 DEF Buckets
<1>3. WholeTail(q, seed) = Filtered(q, {d \in docs : Bucket(d) >= 1}, all \ {0})
  BY DEF WholeTail
<1> HIDE DEF docs, all
<1>4. ASSUME NEW d \in docs, Bucket(d) >= 1
      PROVE  \A c : d \in Within(c, all \ {0}) <=> d \in c
  BY <1>2, <1>4 DEF Within
<1>5. Filtered(q, {d \in docs : Bucket(d) >= 1}, all \ {0}) = {d \in {e \in docs : Bucket(e) >= 1} : Passes(q, d)}
  BY <1>4 DEF Filtered, Passes
<1> QED
  BY <1>1, <1>3, <1>5

\* The buckets the scan visits leave out no answer past the head.
LEMMA TailInCandidates ==
    ASSUME NEW q, IsQuery(q), Strict(q), NEW d \in Matching(q), Bucket(d) >= 1
    PROVE  Bucket(d) \in CandidateKeys(q)
<1>1. Recs(q) # {}
  BY MatchingByRecs DEF AtLeast
<1>2. PICK seed \in Recs(q) : TRUE
  BY <1>1
<1>3. (\A t \in Recs(q) : d \in q.post[t]) /\ Passes(q, d)
  BY <1>2, StrictMatching
<1> QED
  BY <1>2, <1>3 DEF CandidateKeys, Buckets, Passes

\* A query that search_cursor_filtered gives up at once has no answer.
LEMMA UnmatchableIsEmpty ==
    ASSUME NEW q, IsQuery(q), HasEmptyArm(q) \/ Cardinality(Recs(q)) < MinMatch(q)
    PROVE  Matching(q) = {}
<1>1. CASE HasEmptyArm(q)
  BY <1>1 DEF HasEmptyArm, Matching, Passes
<1>2. CASE Cardinality(Recs(q)) < MinMatch(q)
  <2>1. \A d : /\ Cardinality({t \in Recs(q) : d \in q.post[t]}) <= Cardinality(Recs(q))
               /\ IsFiniteSet({t \in Recs(q) : d \in q.post[t]})
    BY QueryShape, FS_Subset
  <2>2. \A d : Cardinality({t \in Recs(q) : d \in q.post[t]}) \in Nat
    BY <2>1, FS_CardinalityType
  <2>3. Cardinality(Recs(q)) \in Nat /\ MinMatch(q) \in Nat
    BY QueryShape
  <2>4. ASSUME NEW d PROVE ~(Cardinality({t \in Recs(q) : d \in q.post[t]}) >= MinMatch(q))
    <3> DEFINE n == Cardinality({t \in Recs(q) : d \in q.post[t]})
    <3>1. n \in Nat /\ n <= Cardinality(Recs(q))
      BY <2>1, <2>2
    <3> HIDE DEF n
    <3>2. ~(n >= MinMatch(q))
      BY <1>2, <2>3, <3>1
    <3> QED
      BY <3>2 DEF n
  <2>5. AtLeast(q.post, Recs(q), MinMatch(q)) = {}
    BY <2>4 DEF AtLeast
  <2> QED
    BY <2>5, MatchingByRecs
<1> QED
  BY <1>1, <1>2

------------------------------------------------------------------------------
\* A Roaring iteration lists a set in ascending order.
LEMMA SortedLists ==
    ASSUME NEW S \in SUBSET Nat, IsFiniteSet(S)
    PROVE  Lists(Sorted(S), S, Smaller)
BY AscendingLists DEF Sorted

\* It is a sequence of just the set's members.
LEMMA SortedIsSeq ==
    ASSUME NEW S \in SUBSET Nat, IsFiniteSet(S)
    PROVE  Sorted(S) \in Seq(S) /\ ToSet(Sorted(S)) = S
<1>1. Lists(Sorted(S), S, Smaller) /\ Orders(Smaller, S)
  BY SortedLists, SmallerOrders
<1> DEFINE s == Sorted(S)
<1> HIDE DEF s
<1>2. s \in Seq(S) /\ DOMAIN s = 1 .. Cardinality(S) /\ \A d \in S : \E i \in 1 .. Cardinality(S) : s[i] = d
  BY <1>1, ListsInOrder DEF s
<1>3. \A i \in DOMAIN s : s[i] \in S
  BY <1>2, LenProperties, ElementOfSeq
<1>4. ToSet(s) = S
  BY <1>2, <1>3 DEF ToSet
<1> QED
  BY <1>2, <1>4 DEF s

\* Nothing, sorted.
LEMMA SortedEmpty == Sorted({}) = <<>>
BY FS_EmptySet, SortedIsSeq, EmptySeq DEF Sorted

\* Two sorted parts, one above the other, make one sorted sequence.
LEMMA SortedConcat ==
    ASSUME NEW A \in SUBSET Nat, NEW B \in SUBSET Nat, IsFiniteSet(A), IsFiniteSet(B),
           \A a \in A, b \in B : a < b
    PROVE  Sorted(A) \o Sorted(B) = Sorted(A \union B)
<1>1. Lists(Sorted(A), A, Smaller) /\ Lists(Sorted(B), B, Smaller)
  BY SortedLists
<1>2. A \union B \in SUBSET Nat
  OBVIOUS
<1>3. Orders(Smaller, A \union B) /\ \A a, b \in A \union B : <<a, b>> \in Smaller <=> a < b
  BY <1>2, SmallerOrders
<1>4. \A a \in A, b \in B : <<a, b>> \in Smaller
  BY <1>3
<1>5. Lists(Sorted(A) \o Sorted(B), A \union B, Smaller) /\ IsFiniteSet(A \union B)
  BY <1>1, <1>3, <1>4, ListsConcat
<1>6. Lists(Sorted(A \union B), A \union B, Smaller)
  BY <1>2, <1>5, SortedLists
<1> QED
  BY <1>3, <1>5, <1>6, ListsUnique

\* A sequence begins its extensions.
LEMMA ConcatIsPrefix ==
    ASSUME NEW S, NEW s \in Seq(S), NEW t \in Seq(S)
    PROVE  IsPrefix(s, s \o t)
<1>1. Len(s) \in Nat /\ Len(t) \in Nat /\ Len(s \o t) = Len(s) + Len(t)
  BY ConcatProperties, LenProperties
<1>2. SubSeq(s \o t, 1, Len(s)) = SubSeq(s, 1, Len(s))
  <2>1. CASE s = <<>>
    BY <2>1, SubSeqEmpty
  <2>2. CASE s # <<>>
    <3>1. 1 \in 1 .. Len(s) /\ Len(s) \in 1 .. Len(s)
      BY <1>1, <2>2, EmptySeq
    <3> QED
      BY <3>1, SubSeqOfConcat1
  <2> QED
    BY <2>1, <2>2
<1> QED
  BY <1>1, <1>2 DEF IsPrefix

\* The lower part of a set, sorted, begins the sorted set.
LEMMA SortedPrefix ==
    ASSUME NEW S \in SUBSET Nat, IsFiniteSet(S), NEW A \in SUBSET S,
           \A a \in A, b \in S \ A : a < b
    PROVE  IsPrefix(Sorted(A), Sorted(S))
<1>1. /\ A \in SUBSET Nat /\ IsFiniteSet(A)
      /\ S \ A \in SUBSET Nat /\ IsFiniteSet(S \ A)
      /\ A \union (S \ A) = S
  BY FS_Subset
<1>2. Sorted(A) \o Sorted(S \ A) = Sorted(S)
  BY <1>1, SortedConcat
<1>3. Sorted(A) \in Seq(Nat) /\ Sorted(S \ A) \in Seq(Nat)
  <2>1. Sorted(A) \in Seq(A) /\ Sorted(S \ A) \in Seq(S \ A)
    BY <1>1, SortedIsSeq
  <2> QED
    BY <1>1, <2>1, SeqMonotonic
<1> QED
  BY <1>2, <1>3, ConcatIsPrefix

\* A document of a lower bucket is a lower document.
LEMMA BucketOrder ==
    ASSUME NEW a \in Nat, NEW b \in Nat, Bucket(a) < Bucket(b)
    PROVE  a < b
<1> DEFINE P == PerBucket
           x == a \div P
           y == b \div P
<1>1. P \in Nat /\ P > 0
  BY BucketAssumption
<1>2. x \in Nat /\ y \in Nat /\ x < y
  BY BucketIsNat DEF Bucket
<1>3. a = P * x + (a % P) /\ a % P \in 0 .. P - 1
  BY <1>1
<1>4. b = P * y + (b % P) /\ b % P \in 0 .. P - 1
  BY <1>1
<1> HIDE DEF x, y, P
<1>5. P * y >= P * x + P
  <2>1. y >= x + 1
    BY <1>2
  <2>2. P * y >= P * (x + 1)
    BY <1>1, <1>2, <2>1
  <2>3. P * (x + 1) = P * x + P
    BY <1>1, <1>2
  <2> QED
    BY <1>1, <1>2, <2>2, <2>3
<1>6. P * x \in Nat /\ P * y \in Nat
  BY <1>1, <1>2
<1> QED
  BY <1>1, <1>3, <1>4, <1>5, <1>6

\* A window takes the lowest buckets left.
LEMMA NextKeysAreLowest ==
    ASSUME NEW keys \in SUBSET Nat, IsFiniteSet(keys)
    PROVE  \A k \in NextKeys(keys), j \in keys \ NextKeys(keys) : k < j
<1> TAKE k \in NextKeys(keys), j \in keys \ NextKeys(keys)
<1> DEFINE Low(i) == {h \in keys : h < i}
<1>1. \A i \in keys : IsFiniteSet(Low(i)) /\ Cardinality(Low(i)) \in Nat
  BY FS_Subset, FS_CardinalityType
<1>2. k \in keys /\ j \in keys /\ Cardinality(Low(k)) < KeyBatch /\ ~(Cardinality(Low(j)) < KeyBatch)
  BY DEF NextKeys
<1>3. SUFFICES ASSUME j <= k PROVE FALSE
  BY <1>2
<1>4. Low(j) \in SUBSET Low(k)
  <2>1. j \in Nat /\ k \in Nat /\ j <= k
    BY <1>2, <1>3
  <2>2. \A h \in keys : h \in Nat /\ (h < j => h < k)
    BY <2>1
  <2> QED
    BY <2>2
<1> HIDE DEF Low
<1>5. Cardinality(Low(j)) <= Cardinality(Low(k))
  BY <1>1, <1>2, <1>4, FS_Subset
<1> QED
  BY <1>1, <1>2, <1>5, BucketAssumption

------------------------------------------------------------------------------
CallKinds == {"none", "next", "page", "load"}
PhaseNames == {"idle", "opening", "scanning", "loading", "replying", "mapping"}
Typed ==
    /\ query \in Queries
    /\ results \in Seq(Matching(query)) /\ pos \in 0 .. Len(results)
    /\ tailDone \in BOOLEAN /\ tried \in BOOLEAN
    /\ scan \in [held : BOOLEAN, keys : SUBSET (Nat \ {0})] /\ IsFiniteSet(scan.keys)
    /\ phase \in PhaseNames
    /\ call \in [kind : CallKinds, want : Nat, windows : 0 .. WindowsPerCall, start : Nat]
    /\ outbox \in Seq(Matching(query)) /\ delivered \in Seq(Nat)
    /\ faults \in 0 .. MaxFaults

\* Where a call can be, given what the cursor holds.
Phases ==
    /\ Unmatchable(query) => tailDone
    /\ scan.held => tried /\ Strict(query) /\ query.seekable /\ ~Unmatchable(query)
    /\ phase = "opening" => Strict(query) /\ ~tried /\ ~tailDone
    /\ phase = "scanning" => scan.held /\ ~tailDone
    /\ phase = "loading" => ~scan.held /\ ~tailDone
    /\ phase = "mapping" => query.mapped

\* What is materialised, while a scan is held, without one, and after one failed.
Scanned == {d \in Matching(query) : Bucket(d) \notin scan.keys}
Content ==
    /\ scan.held => /\ results = Sorted(Scanned)
                    /\ \A d \in Scanned, k \in scan.keys : Bucket(d) < k
                    /\ tailDone => scan.keys = {}
    /\ ~scan.held /\ ~ScanLost =>
         results = Sorted(IF tailDone THEN Matching(query) ELSE Within(Matching(query), {0}))
    /\ ScanLost => /\ Within(Matching(query), {0}) \subseteq ToSet(results)
                   /\ tailDone => Matching(query) \subseteq ToSet(results)

\* The pages delivered or being mapped are the answer up to the position.
Ranked(ranks) == IF query.mapped THEN Primary(ranks) ELSE ranks
Delivery ==
    /\ call.kind = "next" => pos <= call.want
    /\ phase # "mapping" => outbox = <<>>
    /\ "mapping" \notin Faulty => delivered \o Ranked(outbox) = Ranked(SubSeq(results, 1, pos))

\* What the assumption on queries says of the cursor's own.
LEMMA QueryIs ==
    ASSUME query \in Queries
    PROVE  IsQuery(query) /\ Matching(query) \in SUBSET Nat /\ IsFiniteSet(Matching(query))
BY QueriesAssumption, MatchingShape

\* The scan starts with finitely many buckets, all past the head.
LEMMA CandidatesShape ==
    ASSUME NEW q, IsQuery(q)
    PROVE  CandidateKeys(q) \in SUBSET (Nat \ {0}) /\ IsFiniteSet(CandidateKeys(q))
<1> DEFINE Docs == UNION {q.post[t] : t \in Recs(q)}
           f == [d \in Docs |-> Bucket(d)]
<1>1. Docs \in SUBSET Nat /\ IsFiniteSet(Docs)
  <2>1. \A t \in Recs(q) : q.post[t] \in SUBSET Nat /\ IsFiniteSet(q.post[t])
    BY DEF IsQuery, Recs
  <2>2. IsFiniteSet({q.post[t] : t \in Recs(q)})
    <3> DEFINE Posts == {q.post[t] : t \in Recs(q)}
               g == [t \in Recs(q) |-> q.post[t]]
    <3>1. g \in Surjection(Recs(q), Posts)
      BY DEF Surjection
    <3>2. IsFiniteSet(Recs(q))
      BY QueryShape
    <3> HIDE DEF g, Posts
    <3>3. IsFiniteSet(Posts)
      BY <3>1, <3>2, FS_Surjection
    <3> QED
      BY <3>3 DEF Posts
  <2> QED
    BY <2>1, <2>2, FS_UNION
<1>2. f \in Surjection(Docs, {Bucket(d) : d \in Docs})
  BY DEF Surjection
<1>3. CandidateKeys(q) \in SUBSET {Bucket(d) : d \in Docs}
  BY DEF CandidateKeys, Buckets
<1>4. \A d \in Docs : Bucket(d) \in Nat
  BY <1>1, BucketIsNat
<1>5. IsFiniteSet({Bucket(d) : d \in Docs})
  <2> DEFINE B == {Bucket(d) : d \in Docs}
  <2> HIDE DEF B, f, Docs
  <2>1. IsFiniteSet(B)
    BY <1>1, <1>2, FS_Surjection DEF B
  <2> QED
    BY <2>1 DEF B
<1>6. IsFiniteSet(CandidateKeys(q))
  <2> HIDE DEF Docs
  <2> QED
    BY <1>3, <1>5, FS_Subset
<1>7. \A b \in CandidateKeys(q) : b >= 1
  BY DEF CandidateKeys
<1> HIDE DEF Docs
<1> QED
  BY <1>3, <1>4, <1>6, <1>7

\* Any window the scan may read next.
LEMMA WindowIs ==
    ASSUME Typed, Phases, phase = "scanning", NEW win \in Windows
    PROVE  win = Within(Matching(query), NextKeys(scan.keys))
<1>1. IsQuery(query) /\ Strict(query)
  BY QueryIs DEF Typed, Phases
<1> QED
  BY <1>1, WindowIsMatching DEF Windows

\* Any whole tail the cursor may load.
LEMMA TailIs ==
    ASSUME Typed, NEW tail \in Tails
    PROVE  tail = {d \in Matching(query) : Bucket(d) >= 1}
<1>1. IsQuery(query)
  BY QueryIs DEF Typed
<1> QED
  BY <1>1, WholeTailIsMatching DEF Tails

\* A sorted part of the answer is a sequence of it, before or after another.
LEMMA PartsAreSeqs ==
    ASSUME Typed, NEW S \in SUBSET Matching(query)
    PROVE  /\ S \in SUBSET Nat /\ IsFiniteSet(S)
           /\ Sorted(S) \in Seq(Matching(query)) /\ ToSet(Sorted(S)) = S
<1>1. Matching(query) \in SUBSET Nat /\ IsFiniteSet(Matching(query))
  BY QueryIs DEF Typed
<1>2. S \in SUBSET Nat /\ IsFiniteSet(S)
  BY <1>1, FS_Subset
<1>3. Sorted(S) \in Seq(S) /\ ToSet(Sorted(S)) = S
  BY <1>2, SortedIsSeq
<1> QED
  BY <1>2, <1>3, SeqMonotonic

\* Concatenating sequences unites their members.
LEMMA ConcatToSet ==
    ASSUME NEW S, NEW s \in Seq(S), NEW t \in Seq(S)
    PROVE  ToSet(s \o t) = ToSet(s) \union ToSet(t)
<1>1. /\ Len(s) \in Nat /\ DOMAIN s = 1 .. Len(s)
      /\ Len(t) \in Nat /\ DOMAIN t = 1 .. Len(t)
  BY LenProperties
<1>2. /\ DOMAIN (s \o t) = 1 .. Len(s) + Len(t)
      /\ \A i \in 1 .. Len(s) + Len(t) : (s \o t)[i] = IF i <= Len(s) THEN s[i] ELSE t[i - Len(s)]
  BY ConcatProperties, LenProperties
<1>3. ASSUME NEW x \in ToSet(s) \union ToSet(t) PROVE x \in ToSet(s \o t)
  <2>1. CASE x \in ToSet(s)
    <3>1. PICK i \in 1 .. Len(s) : x = s[i]
      BY <1>1, <2>1 DEF ToSet
    <3>2. i \in 1 .. Len(s) + Len(t) /\ i <= Len(s)
      BY <1>1
    <3> QED
      BY <1>2, <3>1, <3>2 DEF ToSet
  <2>2. CASE x \in ToSet(t)
    <3>1. PICK i \in 1 .. Len(t) : x = t[i]
      BY <1>1, <2>2 DEF ToSet
    <3>2. /\ Len(s) + i \in 1 .. Len(s) + Len(t)
          /\ ~(Len(s) + i <= Len(s)) /\ (Len(s) + i) - Len(s) = i
      BY <1>1
    <3> QED
      BY <1>2, <3>1, <3>2 DEF ToSet
  <2> QED
    BY <2>1, <2>2
<1>4. ASSUME NEW x \in ToSet(s \o t) PROVE x \in ToSet(s) \union ToSet(t)
  <2>1. PICK i \in 1 .. Len(s) + Len(t) : x = (s \o t)[i]
    BY <1>2 DEF ToSet
  <2>2. CASE i <= Len(s)
    BY <1>1, <1>2, <2>1, <2>2 DEF ToSet
  <2>3. CASE ~(i <= Len(s))
    <3>1. i - Len(s) \in 1 .. Len(t)
      BY <1>1, <2>3
    <3> QED
      BY <1>1, <1>2, <2>1, <2>3, <3>1 DEF ToSet
  <2> QED
    BY <2>2, <2>3
<1> QED
  BY <1>3, <1>4

\* A reply never reads past what is materialised or wanted, nor back before the
\* position.
LEMMA ReachedIs ==
    ASSUME Typed
    PROVE  /\ Reached \in 0 .. Len(results) /\ Reached <= call.want
           /\ pos <= call.want => pos <= Reached
<1>1. call.want \in Nat /\ Len(results) \in Nat /\ pos <= Len(results)
  BY LenProperties DEF Typed
<1>2. Reached \in {call.want, Len(results)} /\ Reached <= call.want /\ Reached <= Len(results)
  <2>1. {call.want, Len(results)} \in SUBSET Nat
    BY <1>1
  <2> QED
    BY <2>1, MinIsLeast DEF Reached
<1> QED
  BY <1>1, <1>2

\* A page maps to as many primary ids.
LEMMA PrimaryIsSeq ==
    ASSUME Typed, query.mapped, NEW ranks \in Seq(Matching(query))
    PROVE  Primary(ranks) \in Seq(Nat) /\ Len(Primary(ranks)) = Len(ranks)
<1>1. \A d \in Matching(query) : Perm[d] \in Nat
  BY QueriesAssumption DEF Typed, Matching
<1>2. Len(ranks) \in Nat /\ DOMAIN ranks = 1 .. Len(ranks) /\ \A i \in 1 .. Len(ranks) : ranks[i] \in Matching(query)
  BY LenProperties, ElementOfSeq
<1> QED
  BY <1>1, <1>2 DEF Primary

\* The cursor starts typed.
LEMMA TypedInit == Init => Typed
<1> SUFFICES ASSUME Init PROVE Typed
  OBVIOUS
<1>1. query \in Queries
  BY DEF Init
<1>2. IsQuery(query) /\ Matching(query) \in SUBSET Nat /\ IsFiniteSet(Matching(query))
  BY <1>1, QueryIs
<1>3. results \in Seq(Matching(query))
  <2>1. Sorted(HeadDocs(query)) \in Seq(Matching(query))
    <3>1. HeadDocs(query) \in SUBSET Matching(query)
      BY <1>2, HeadIsMatching DEF Within
    <3>2. HeadDocs(query) \in SUBSET Nat /\ IsFiniteSet(HeadDocs(query))
      BY <1>2, <3>1, FS_Subset
    <3> QED
      BY <3>1, <3>2, SortedIsSeq, SeqMonotonic
  <2> QED
    BY <2>1 DEF Init
<1>4. pos \in 0 .. Len(results)
  BY <1>3, LenProperties DEF Init
<1>5. scan \in [held : BOOLEAN, keys : SUBSET (Nat \ {0})] /\ IsFiniteSet(scan.keys)
  BY FS_EmptySet DEF Init, NoScan
<1>6. call \in [kind : CallKinds, want : Nat, windows : 0 .. WindowsPerCall, start : Nat]
  BY CursorAssumption DEF Init, NoCall, CallKinds
<1>7. faults \in 0 .. MaxFaults
  BY CursorAssumption DEF Init
<1>8. tailDone \in BOOLEAN /\ tried \in BOOLEAN
  BY DEF Init, Unmatchable, HasEmptyArm
<1> QED
  BY <1>1, <1>3, <1>4, <1>5, <1>6, <1>7, <1>8 DEF Init, Typed, PhaseNames

\* What a call in the cursor's type leaves typed.
LEMMA BeginTyped ==
    ASSUME Typed, NEW kind \in CallKinds, NEW want \in Nat, Begin(kind, want)
    PROVE  Typed'
<1>1. Len(results) \in Nat
  BY LenProperties DEF Typed
<1>2. call' \in [kind : CallKinds, want : Nat, windows : 0 .. WindowsPerCall, start : Nat]
  BY <1>1, CursorAssumption DEF Begin
<1>3. phase' \in PhaseNames
  BY DEF Begin, EnsurePhase, PhaseNames
<1> QED
  BY <1>2, <1>3 DEF Typed, Begin, cursorVars

\* Appending a part of the answer keeps results and position typed.
LEMMA AppendTyped ==
    ASSUME Typed, NEW docs, docs \in SUBSET Matching(query), query' = query, pos' = pos,
           results' = results \o Sorted(docs)
    PROVE  results' \in Seq(Matching(query)) /\ pos' \in 0 .. Len(results')
<1>1. results \in Seq(Matching(query)) /\ Sorted(docs) \in Seq(Matching(query))
  BY PartsAreSeqs DEF Typed
<1>2. results' \in Seq(Matching(query)) /\ Len(results') = Len(results) + Len(Sorted(docs))
  BY <1>1, ConcatProperties
<1>3. Len(results) \in Nat /\ Len(Sorted(docs)) \in Nat
  BY <1>1, LenProperties
<1> QED
  BY <1>2, <1>3 DEF Typed

\* A page is made of results.
LEMMA PageTyped ==
    ASSUME Typed
    PROVE  SubSeq(results, pos + 1, Reached) \in Seq(Matching(query))
<1>1. Reached \in 0 .. Len(results) /\ pos \in Nat
  BY ReachedIs DEF Typed
<1>2. \A i \in pos + 1 .. Reached : results[i] \in Matching(query)
  <2>1. results \in Seq(Matching(query)) /\ Len(results) \in Nat
    BY LenProperties DEF Typed
  <2>2. \A i \in pos + 1 .. Reached : i \in 1 .. Len(results)
    BY <1>1, <2>1
  <2> QED
    BY <2>1, <2>2, ElementOfSeq
<1> QED
  BY <1>1, <1>2, SubSeqProperties

\* Every step of the cursor or its caller keeps it typed.
LEMMA TypedStep ==
    ASSUME Typed, Phases, [NextStep]_vars
    PROVE  Typed'
<1>1. CASE \E n \in PageSizes : Next(n)
  <2>1. PICK n \in PageSizes : Next(n)
    BY <1>1
  <2>2. pos + n \in Nat
    BY CursorAssumption DEF Typed
  <2> QED
    BY <2>1, <2>2, BeginTyped DEF Next, CallKinds
<1>2. CASE \E n \in PageSizes, offset \in {0, Len(results)} : Page(offset, n)
  <2>1. PICK n \in PageSizes, offset \in {0, Len(results)} : Page(offset, n)
    BY <1>2
  <2>2. offset + n \in Nat
    BY LenProperties, CursorAssumption DEF Typed
  <2> QED
    BY <2>1, <2>2, BeginTyped DEF Page, CallKinds
<1>3. CASE LoadTail
  BY <1>3, BeginTyped, CursorAssumption DEF LoadTail, CallKinds
<1>4. CASE OpenScan
  <2>1. CandidateKeys(query) \in SUBSET (Nat \ {0}) /\ IsFiniteSet(CandidateKeys(query))
    BY QueryIs, CandidatesShape DEF Typed
  <2>2. scan' \in [held : BOOLEAN, keys : SUBSET (Nat \ {0})] /\ IsFiniteSet(scan'.keys)
    BY <1>4, <2>1, FS_EmptySet DEF OpenScan, NoScan
  <2> QED
    BY <1>4, <2>2 DEF OpenScan, Typed, PhaseNames
<1>5. CASE ScanWindow
  <2>1. PICK win \in Windows : results' = results \o Sorted(win)
    BY <1>5 DEF ScanWindow
  <2>2. phase = "scanning" /\ call.windows > 0
    BY <1>5 DEF ScanWindow, Scanning
  <2>3. win \in SUBSET Matching(query)
    BY <2>2, WindowIs DEF Within
  <2>4. results' \in Seq(Matching(query)) /\ pos' \in 0 .. Len(results')
    BY <1>5, <2>1, <2>3, AppendTyped DEF ScanWindow
  <2>5. scan' \in [held : BOOLEAN, keys : SUBSET (Nat \ {0})] /\ IsFiniteSet(scan'.keys)
    <3>1. scan'.keys \in SUBSET scan.keys /\ IsFiniteSet(scan.keys)
      BY <1>5 DEF ScanWindow, Typed
    <3>2. IsFiniteSet(scan'.keys)
      BY <3>1, FS_Subset
    <3> QED
      BY <1>5, <3>2 DEF ScanWindow, Typed
  <2>6. call' \in [kind : CallKinds, want : Nat, windows : 0 .. WindowsPerCall, start : Nat]
    <3>1. call \in [kind : CallKinds, want : Nat, windows : 0 .. WindowsPerCall, start : Nat]
      BY DEF Typed
    <3>2. call.windows - 1 \in 0 .. WindowsPerCall
      BY <2>2, <3>1, CursorAssumption
    <3>3. call' = [call EXCEPT !.windows = call.windows - 1]
      BY <1>5 DEF ScanWindow
    <3> QED
      BY <3>1, <3>2, <3>3
  <2> QED
    BY <1>5, <2>4, <2>5, <2>6 DEF ScanWindow, Typed
<1>6. CASE ScanStop
  BY <1>6 DEF ScanStop, Typed, PhaseNames
<1>7. CASE LoadWhole
  <2>1. PICK tail \in Tails : results' = results \o Sorted(tail)
    BY <1>7 DEF LoadWhole
  <2>2. tail \in SUBSET Matching(query)
    BY TailIs
  <2>3. results' \in Seq(Matching(query)) /\ pos' \in 0 .. Len(results')
    BY <1>7, <2>1, <2>2, AppendTyped DEF LoadWhole
  <2> QED
    BY <1>7, <2>3 DEF LoadWhole, Typed, PhaseNames
<1>8. CASE ReplyNext
  <2>1. SubSeq(results, pos + 1, Reached) \in Seq(Matching(query)) /\ <<>> \in Seq(Matching(query))
    BY PageTyped, EmptySeq
  <2>2. Reached \in 0 .. Len(results)
    BY ReachedIs
  <2>3. SubSeq(results, pos + 1, Reached) \in Seq(Nat)
    BY <2>1, QueryIs, SeqMonotonic DEF Typed
  <2>4. delivered' \in Seq(Nat)
    <3>1. delivered \in Seq(Nat)
      BY DEF Typed
    <3>2. delivered \o SubSeq(results, pos + 1, Reached) \in Seq(Nat)
      BY <2>3, <3>1, ConcatProperties
    <3> QED
      BY <1>8, <3>1, <3>2 DEF ReplyNext
  <2>5. call' \in [kind : CallKinds, want : Nat, windows : 0 .. WindowsPerCall, start : Nat]
    BY <1>8, CursorAssumption DEF ReplyNext, NoCall, CallKinds, Typed
  <2> QED
    BY <1>8, <2>1, <2>2, <2>4, <2>5 DEF ReplyNext, Typed, PhaseNames
<1>9. CASE ReplyPage
  BY <1>9, CursorAssumption DEF ReplyPage, NoCall, Typed, PhaseNames, CallKinds, cursorVars
<1>10. CASE ReplyLoad
  <2>1. call' \in [kind : CallKinds, want : Nat, windows : 0 .. WindowsPerCall, start : Nat]
    <3>1. call \in [kind : CallKinds, want : Nat, windows : 0 .. WindowsPerCall, start : Nat]
      BY DEF Typed
    <3>2. Len(results) \in Nat /\ WindowsPerCall \in 0 .. WindowsPerCall
      BY LenProperties, CursorAssumption DEF Typed
    <3>3. NoCall \in [kind : CallKinds, want : Nat, windows : 0 .. WindowsPerCall, start : Nat]
      BY CursorAssumption DEF NoCall, CallKinds
    <3>4. call' \in {[call EXCEPT !.windows = WindowsPerCall, !.start = Len(results)], NoCall}
      BY <1>10 DEF ReplyLoad
    <3> QED
      BY <3>1, <3>2, <3>3, <3>4
  <2>2. phase' \in PhaseNames
    BY <1>10 DEF ReplyLoad, EnsurePhase, PhaseNames
  <2> QED
    BY <1>10, <2>1, <2>2 DEF ReplyLoad, Typed, cursorVars
<1>11. CASE MapPage
  <2>1. Primary(outbox) \in Seq(Nat)
    <3>1. query.mapped
      BY <1>11 DEF MapPage, Phases
    <3>2. outbox \in Seq(Matching(query))
      BY DEF Typed
    <3> QED
      BY <3>1, <3>2, PrimaryIsSeq
  <2>2. delivered' \in Seq(Nat)
    BY <1>11, <2>1, ConcatProperties DEF MapPage, Typed
  <2> QED
    BY <1>11, <2>2, EmptySeq, CursorAssumption DEF MapPage, Typed, NoCall, CallKinds, PhaseNames, cursorVars
<1>12. CASE Fault
  <2>1. scan' \in [held : BOOLEAN, keys : SUBSET (Nat \ {0})] /\ IsFiniteSet(scan'.keys)
    BY <1>12, FS_EmptySet DEF Fault, NoScan, Typed
  <2>2. faults' \in 0 .. MaxFaults
    BY <1>12, CursorAssumption DEF Fault, Typed
  <2> QED
    BY <1>12, <2>1, <2>2, EmptySeq, CursorAssumption DEF Fault, Typed, NoCall, CallKinds, PhaseNames
<1>13. CASE UNCHANGED vars
  BY <1>13 DEF vars, cursorVars, Typed
<1> QED
  BY <1>1, <1>2, <1>3, <1>4, <1>5, <1>6, <1>7, <1>8, <1>9, <1>10, <1>11, <1>12, <1>13 DEF NextStep

\* A new cursor is idle, and done if its query is unmatchable.
LEMMA PhasesInit == Init => Phases
BY DEF Init, Phases, NoScan

\* A call starts where the cursor's state lets it.
LEMMA EnsureIs ==
    ASSUME Phases, NEW want
    PROVE  /\ EnsurePhase(want) = "opening" => Strict(query) /\ ~tried /\ ~tailDone
           /\ EnsurePhase(want) = "scanning" => scan.held /\ ~tailDone
           /\ EnsurePhase(want) = "loading" => ~scan.held /\ ~tailDone
           /\ EnsurePhase(want) # "mapping"
BY DEF EnsurePhase, Phases

\* No step leaves a call where the cursor's state does not allow it.
LEMMA PhasesStep ==
    ASSUME Typed, Phases, [NextStep]_vars
    PROVE  Phases'
<1>0. Unmatchable(query)' <=> Unmatchable(query')
  OBVIOUS
<1>1. ASSUME NEW kind, NEW want, Begin(kind, want) PROVE Phases'
  <2>1. phase' = EnsurePhase(want) /\ UNCHANGED <<query, tailDone, tried, scan>>
    BY <1>1 DEF Begin, cursorVars
  <2>2. /\ phase' = "opening" => Strict(query) /\ ~tried /\ ~tailDone
        /\ phase' = "scanning" => scan.held /\ ~tailDone
        /\ phase' = "loading" => ~scan.held /\ ~tailDone
        /\ phase' # "mapping"
    BY <2>1, EnsureIs
  <2> QED
    BY <2>1, <2>2 DEF Phases
<1>2. CASE (\E n \in PageSizes : Next(n)) \/ (\E n \in PageSizes, offset \in {0, Len(results)} : Page(offset, n)) \/ LoadTail
  BY <1>1, <1>2 DEF Next, Page, LoadTail
<1>3. CASE OpenScan
  BY <1>3 DEF OpenScan, Phases, NoScan
<1>4. CASE ScanWindow
  BY <1>4 DEF ScanWindow, Scanning, Phases, Typed
<1>5. CASE ScanStop
  BY <1>5 DEF ScanStop, Phases
<1>6. CASE LoadWhole
  BY <1>6 DEF LoadWhole, Phases
<1>7. CASE ReplyNext
  BY <1>7 DEF ReplyNext, Phases
<1>8. CASE ReplyPage
  BY <1>8 DEF ReplyPage, Phases, cursorVars
<1>9. CASE ReplyLoad
  <2>1. UNCHANGED <<query, tailDone, tried, scan>> /\ phase' \in {EnsurePhase(call.want), "idle"}
    BY <1>9 DEF ReplyLoad, cursorVars
  <2>2. /\ phase' = "opening" => Strict(query) /\ ~tried /\ ~tailDone
        /\ phase' = "scanning" => scan.held /\ ~tailDone
        /\ phase' = "loading" => ~scan.held /\ ~tailDone
        /\ phase' # "mapping"
    BY <2>1, EnsureIs
  <2> QED
    BY <2>1, <2>2 DEF Phases
<1>10. CASE MapPage
  BY <1>10 DEF MapPage, Phases, cursorVars
<1>11. CASE Fault
  BY <1>11 DEF Fault, Phases, NoScan
<1>12. CASE UNCHANGED vars
  BY <1>12 DEF vars, cursorVars, Phases
<1> QED
  BY <1>2, <1>3, <1>4, <1>5, <1>6, <1>7, <1>8, <1>9, <1>10, <1>11, <1>12 DEF NextStep

\* A new cursor holds the head of the answer, or all of an empty one.
LEMMA ContentInit == Init => Content
<1> SUFFICES ASSUME Init PROVE Content
  OBVIOUS
<1>1. Typed /\ IsQuery(query)
  BY TypedInit, QueryIs DEF Typed
<1>2. ~scan.held /\ ~ScanLost
  BY DEF Init, NoScan, ScanLost
<1>3. CASE Unmatchable(query)
  <2>1. Matching(query) = {}
    BY <1>1, <1>3, UnmatchableIsEmpty DEF Unmatchable
  <2>2. results = Sorted({}) /\ tailDone
    BY <1>3, SortedEmpty DEF Init
  <2> QED
    BY <1>2, <2>1, <2>2 DEF Content
<1>4. CASE ~Unmatchable(query)
  <2>1. results = Sorted(Within(Matching(query), {0})) /\ ~tailDone
    BY <1>1, <1>4, HeadIsMatching DEF Init
  <2> QED
    BY <1>2, <2>1 DEF Content
<1> QED
  BY <1>3, <1>4

\* Appending later buckets to a part of the answer keeps it sorted.
LEMMA AppendLater ==
    ASSUME Typed, NEW S \in SUBSET Matching(query), NEW T \in SUBSET Matching(query),
           \A a \in S, b \in T : Bucket(a) < Bucket(b)
    PROVE  Sorted(S) \o Sorted(T) = Sorted(S \union T)
<1>1. /\ S \in SUBSET Nat /\ IsFiniteSet(S)
      /\ T \in SUBSET Nat /\ IsFiniteSet(T)
  BY PartsAreSeqs
<1>2. \A a \in S, b \in T : a < b
  BY <1>1, BucketOrder
<1> QED
  BY <1>1, <1>2, SortedConcat

\* Answers lie in numbered buckets.
LEMMA MatchingBuckets ==
    ASSUME Typed
    PROVE  \A d \in Matching(query) : d \in Nat /\ Bucket(d) \in Nat
BY QueryIs, BucketIsNat DEF Typed

\* Opening the scan leaves the head, and plans the rest.
LEMMA ContentOpen ==
    ASSUME Typed, Phases, Content, OpenScan
    PROVE  Content'
<1>1. /\ UNCHANGED <<query, results, tailDone>> /\ tried'
      /\ Strict(query) /\ ~tried /\ ~tailDone /\ ~scan.held
  BY DEF OpenScan, Phases
<1>2. results = Sorted(Within(Matching(query), {0}))
  BY <1>1 DEF Content, ScanLost
<1>3. CASE query.seekable
  <2>1. scan'.keys = CandidateKeys(query) /\ scan'.held
    BY <1>3 DEF OpenScan
  <2>2. CandidateKeys(query) \in SUBSET (Nat \ {0}) /\ IsQuery(query)
    BY QueryIs, CandidatesShape DEF Typed
  <2>3. ASSUME NEW d \in Matching(query)
        PROVE  Bucket(d) \notin CandidateKeys(query) <=> Bucket(d) = 0
    <3>1. Bucket(d) \in Nat
      BY MatchingBuckets
    <3>2. Bucket(d) >= 1 => Bucket(d) \in CandidateKeys(query)
      BY <1>1, <2>2, TailInCandidates
    <3> QED
      BY <2>2, <3>1, <3>2
  <2>4. {d \in Matching(query) : Bucket(d) \notin CandidateKeys(query)} = Within(Matching(query), {0})
    BY <2>3 DEF Within
  <2>5. Scanned' = {d \in Matching(query) : Bucket(d) \notin CandidateKeys(query)}
    BY <1>1, <2>1 DEF Scanned
  <2>6. \A d \in Scanned', k \in scan'.keys : Bucket(d) < k
    BY <2>1, <2>2, <2>3, <2>5
  <2>7. results' = Sorted(Scanned')
    BY <1>1, <1>2, <2>4, <2>5
  <2> QED
    BY <1>1, <2>1, <2>6, <2>7 DEF Content, ScanLost
<1>4. CASE ~query.seekable
  <2>1. ~scan'.held
    BY <1>4 DEF OpenScan, NoScan
  <2> QED
    BY <1>1, <1>2, <1>4, <2>1 DEF Content, ScanLost
<1> QED
  BY <1>3, <1>4

\* A window appends the next buckets of the answer.
LEMMA ContentWindow ==
    ASSUME Typed, Phases, Content, ScanWindow
    PROVE  Content'
<1> DEFINE next == NextKeys(scan.keys)
           win == Within(Matching(query), next)
<1>1. phase = "scanning" /\ scan.held /\ ~tailDone
  BY DEF ScanWindow, Scanning, Phases
<1>2. results' = results \o Sorted(win)
  BY <1>1, WindowIs DEF ScanWindow
<1>3. UNCHANGED <<query, tailDone, tried>> /\ scan'.held /\ scan'.keys = scan.keys \ next
  BY <1>1 DEF ScanWindow, Typed
<1>4. results = Sorted(Scanned) /\ \A d \in Scanned, k \in scan.keys : Bucket(d) < k
  BY <1>1 DEF Content
<1>5. next \subseteq scan.keys /\ \A k \in next, j \in scan.keys \ next : k < j
  BY NextKeysAreLowest DEF NextKeys, Typed
<1>6. Scanned \in SUBSET Matching(query) /\ win \in SUBSET Matching(query)
  BY DEF Scanned, Within
<1>7. \A a \in Scanned, b \in win : Bucket(a) < Bucket(b)
  BY <1>4, <1>5 DEF Within
<1>8. Scanned' = Scanned \union win
  BY <1>3, <1>5 DEF Scanned, Within
<1>9. results' = Sorted(Scanned')
  <2> HIDE DEF win
  <2> QED
    BY <1>2, <1>4, <1>6, <1>7, <1>8, AppendLater
<1>10. \A d \in Scanned', k \in scan'.keys : Bucket(d) < k
  BY <1>3, <1>4, <1>5, <1>8 DEF Within
<1> QED
  BY <1>1, <1>3, <1>9, <1>10 DEF Content, ScanLost

\* The whole-tail load appends all that lies past the head: the rest of the
\* answer, or, after a failed window, more than the rest.
LEMMA ContentLoad ==
    ASSUME Typed, Phases, Content, LoadWhole
    PROVE  Content'
<1> DEFINE tail == {d \in Matching(query) : Bucket(d) >= 1}
           head == Within(Matching(query), {0})
<1>1. ~scan.held /\ ~tailDone /\ UNCHANGED <<query, scan, tried>> /\ tailDone'
  BY DEF LoadWhole, Phases
<1>2. results' = results \o Sorted(tail)
  BY TailIs DEF LoadWhole
<1>3. head \in SUBSET Matching(query) /\ tail \in SUBSET Matching(query)
  BY DEF Within
<1>4. head \union tail = Matching(query) /\ \A a \in head, b \in tail : Bucket(a) < Bucket(b)
  BY MatchingBuckets DEF Within
<1> HIDE DEF tail, head
<1>5. CASE ~ScanLost
  <2>1. results = Sorted(head)
    BY <1>1, <1>5 DEF Content, head
  <2>2. results' = Sorted(Matching(query))
    BY <1>2, <1>3, <1>4, <2>1, AppendLater
  <2> QED
    BY <1>1, <1>5, <2>2 DEF Content, ScanLost
<1>6. CASE ScanLost
  <2>1. head \subseteq ToSet(results)
    BY <1>6 DEF Content, head
  <2>2. Sorted(tail) \in Seq(Matching(query)) /\ ToSet(Sorted(tail)) = tail
    BY <1>3, PartsAreSeqs
  <2>3. ToSet(results') = ToSet(results) \union tail
    BY <1>2, <2>2, ConcatToSet DEF Typed
  <2>4. Matching(query) \subseteq ToSet(results') /\ head \subseteq Matching(query)
    BY <1>3, <1>4, <2>1, <2>3
  <2> QED
    BY <1>1, <1>6, <2>4 DEF Content, ScanLost, head
<1> QED
  BY <1>5, <1>6

\* What is materialised stays described, whatever is called and whatever fails.
LEMMA ContentStep ==
    ASSUME Typed, Phases, Content, [NextStep]_vars
    PROVE  Content'
<1>1. ASSUME UNCHANGED <<query, results, tailDone, tried, scan>> PROVE Content'
  BY <1>1 DEF Content, Scanned, ScanLost
<1>2. CASE \/ \E n \in PageSizes : Next(n)
           \/ \E n \in PageSizes, offset \in {0, Len(results)} : Page(offset, n)
           \/ LoadTail
  BY <1>1, <1>2 DEF Next, Page, LoadTail, Begin, cursorVars
<1>3. CASE OpenScan
  BY <1>3, ContentOpen
<1>4. CASE ScanWindow
  BY <1>4, ContentWindow
<1>5. CASE ScanStop
  <2>1. scan.held /\ UNCHANGED <<query, results, scan, tried>> /\ tailDone' = (scan.keys = {})
    BY <1>5 DEF ScanStop, Phases
  <2> QED
    BY <2>1 DEF Content, Scanned, ScanLost
<1>6. CASE LoadWhole
  BY <1>6, ContentLoad
<1>7. CASE ReplyNext \/ ReplyPage \/ ReplyLoad \/ MapPage
  BY <1>1, <1>7 DEF ReplyNext, ReplyPage, ReplyLoad, MapPage, cursorVars
<1>8. CASE Fault
  <2>1. CASE phase # "scanning"
    BY <1>1, <1>8, <2>1 DEF Fault
  <2>2. CASE phase = "scanning"
    <3>1. scan.held /\ ~tailDone /\ ~scan'.held /\ UNCHANGED <<query, results, tailDone, tried>>
      BY <1>8, <2>2 DEF Fault, Phases, NoScan
    <3>2. tried /\ Strict(query) /\ query.seekable /\ ~Unmatchable(query)
      BY <3>1 DEF Phases
    <3>3. Within(Matching(query), {0}) \subseteq Scanned
      BY DEF Within, Scanned, Typed
    <3>4. results = Sorted(Scanned) /\ ToSet(Sorted(Scanned)) = Scanned
      BY <3>1, PartsAreSeqs DEF Content, Scanned
    <3> QED
      BY <3>1, <3>2, <3>3, <3>4 DEF Content, ScanLost
  <2> QED
    BY <2>1, <2>2
<1>9. CASE UNCHANGED vars
  BY <1>1, <1>9 DEF vars, cursorVars
<1> QED
  BY <1>2, <1>3, <1>4, <1>5, <1>6, <1>7, <1>8, <1>9 DEF NextStep

\* A prefix agrees with the sequence as far as it goes.
LEMMA PrefixIs ==
    ASSUME NEW S, NEW s \in Seq(S), NEW t \in Seq(S)
    PROVE  IsPrefix(s, t) <=> Len(s) <= Len(t) /\ \A i \in 1 .. Len(s) : s[i] = t[i]
<1>1. Len(s) \in Nat /\ Len(t) \in Nat
  BY LenProperties
<1>2. CASE Len(s) <= Len(t)
  <2>1. \A i \in 1 .. Len(s) : s[i] \in S /\ t[i] \in S
    <3>1. \A i \in 1 .. Len(s) : i \in 1 .. Len(t)
      BY <1>1, <1>2
    <3> QED
      BY <3>1, ElementOfSeq
  <2>2. SubSeq(s, 1, Len(s)) = s
    BY SubSeqFull
  <2> DEFINE u == SubSeq(t, 1, Len(s))
  <2>3. u \in Seq(S) /\ Len(u) = Len(s) /\ \A i \in 1 .. Len(s) : u[i] = t[i]
    <3>1. /\ u \in Seq(S)
          /\ Len(u) = IF 1 <= Len(s) THEN Len(s) - 1 + 1 ELSE 0
          /\ \A i \in 1 .. Len(s) - 1 + 1 : u[i] = t[1 + i - 1]
      BY <1>1, <2>1, SubSeqProperties
    <3> HIDE DEF u
    <3> QED
      BY <1>1, <3>1
  <2> HIDE DEF u
  <2>4. s = u <=> \A i \in 1 .. Len(s) : s[i] = t[i]
    BY <2>3, SeqEqual
  <2> QED
    BY <1>2, <2>2, <2>4 DEF IsPrefix, u
<1>3. CASE ~(Len(s) <= Len(t))
  BY <1>3 DEF IsPrefix
<1> QED
  BY <1>2, <1>3

\* A prefix's prefix.
LEMMA PrefixTransitive ==
    ASSUME NEW S, NEW s \in Seq(S), NEW t \in Seq(S), NEW u \in Seq(S),
           IsPrefix(s, t), IsPrefix(t, u)
    PROVE  IsPrefix(s, u)
<1>1. Len(s) \in Nat /\ Len(t) \in Nat /\ Len(u) \in Nat
  BY LenProperties
<1>2. Len(s) <= Len(t) /\ \A i \in 1 .. Len(s) : s[i] = t[i]
  BY PrefixIs
<1>3. Len(t) <= Len(u) /\ \A i \in 1 .. Len(t) : t[i] = u[i]
  BY PrefixIs
<1>4. Len(s) <= Len(u) /\ \A i \in 1 .. Len(s) : s[i] = u[i]
  BY <1>1, <1>2, <1>3
<1> QED
  BY <1>4, PrefixIs

\* The first n members are a prefix.
LEMMA CutIsPrefix ==
    ASSUME NEW S, NEW s \in Seq(S), NEW n \in 0 .. Len(s)
    PROVE  SubSeq(s, 1, n) \in Seq(S) /\ IsPrefix(SubSeq(s, 1, n), s)
<1> DEFINE u == SubSeq(s, 1, n)
<1>1. Len(s) \in Nat /\ \A i \in 1 .. n : i \in 1 .. Len(s)
  BY LenProperties
<1>2. \A i \in 1 .. n : s[i] \in S
  BY <1>1, ElementOfSeq
<1>3. /\ u \in Seq(S)
      /\ Len(u) = IF 1 <= n THEN n - 1 + 1 ELSE 0
      /\ \A i \in 1 .. n - 1 + 1 : u[i] = s[1 + i - 1]
  BY <1>1, <1>2, SubSeqProperties
<1> HIDE DEF u
<1>4. Len(u) = n /\ \A i \in 1 .. n : u[i] = s[i]
  BY <1>1, <1>3
<1>5. IsPrefix(u, s)
  BY <1>1, <1>3, <1>4, PrefixIs
<1> QED
  BY <1>3, <1>5 DEF u

\* Mapping to primary ids keeps prefixes.
LEMMA PrimaryPrefix ==
    ASSUME Typed, query.mapped, NEW s \in Seq(Matching(query)), NEW t \in Seq(Matching(query)),
           IsPrefix(s, t)
    PROVE  IsPrefix(Primary(s), Primary(t))
<1>1. Len(s) \in Nat /\ DOMAIN s = 1 .. Len(s) /\ Len(t) \in Nat /\ DOMAIN t = 1 .. Len(t)
  BY LenProperties
<1>2. Len(s) <= Len(t) /\ \A i \in 1 .. Len(s) : s[i] = t[i]
  BY PrefixIs
<1>3. /\ Primary(s) \in Seq(Nat) /\ Len(Primary(s)) = Len(s)
      /\ Primary(t) \in Seq(Nat) /\ Len(Primary(t)) = Len(t)
  BY PrimaryIsSeq
<1>4. \A i \in 1 .. Len(s) : Primary(s)[i] = Primary(t)[i]
  BY <1>1, <1>2 DEF Primary
<1> QED
  BY <1>2, <1>3, <1>4, PrefixIs

\* Mapping two pages is mapping them together.
LEMMA PrimaryConcat ==
    ASSUME Typed, query.mapped, NEW s \in Seq(Matching(query)), NEW t \in Seq(Matching(query))
    PROVE  Primary(s) \o Primary(t) = Primary(s \o t)
<1>1. Len(s) \in Nat /\ DOMAIN s = 1 .. Len(s) /\ Len(t) \in Nat /\ DOMAIN t = 1 .. Len(t)
  BY LenProperties
<1>2. /\ s \o t \in Seq(Matching(query)) /\ Len(s \o t) = Len(s) + Len(t)
      /\ \A i \in 1 .. Len(s) + Len(t) : (s \o t)[i] = IF i <= Len(s) THEN s[i] ELSE t[i - Len(s)]
  BY ConcatProperties
<1>3. DOMAIN (s \o t) = 1 .. Len(s) + Len(t)
  BY <1>2, LenProperties
<1>4. /\ Primary(s) \in Seq(Nat) /\ Len(Primary(s)) = Len(s)
      /\ Primary(t) \in Seq(Nat) /\ Len(Primary(t)) = Len(t)
      /\ Primary(s \o t) \in Seq(Nat) /\ Len(Primary(s \o t)) = Len(s) + Len(t)
  BY <1>2, PrimaryIsSeq
<1> DEFINE p == Primary(s) \o Primary(t)
<1>5. /\ p \in Seq(Nat) /\ Len(p) = Len(s) + Len(t)
      /\ \A i \in 1 .. Len(s) + Len(t) : p[i] = IF i <= Len(s) THEN Primary(s)[i] ELSE Primary(t)[i - Len(s)]
  <2> DEFINE a == Primary(s)
             b == Primary(t)
  <2>1. a \in Seq(Nat) /\ Len(a) = Len(s) /\ b \in Seq(Nat) /\ Len(b) = Len(t)
    BY <1>4
  <2> HIDE DEF a, b
  <2>2. /\ a \o b \in Seq(Nat) /\ Len(a \o b) = Len(a) + Len(b)
        /\ \A i \in 1 .. Len(a) + Len(b) : (a \o b)[i] = IF i <= Len(a) THEN a[i] ELSE b[i - Len(a)]
    BY <2>1, ConcatProperties
  <2> QED
    BY <2>1, <2>2 DEF a, b
<1> HIDE DEF p
<1>6. ASSUME NEW i \in 1 .. Len(s) + Len(t) PROVE p[i] = Primary(s \o t)[i]
  <2>1. Primary(s \o t)[i] = Perm[(s \o t)[i]]
    BY <1>3 DEF Primary
  <2>2. CASE i <= Len(s)
    <3>1. i \in 1 .. Len(s)
      BY <1>1, <2>2
    <3>2. Primary(s)[i] = Perm[s[i]]
      BY <1>1, <3>1 DEF Primary
    <3> QED
      BY <1>2, <1>5, <2>1, <2>2, <3>2
  <2>3. CASE ~(i <= Len(s))
    <3>1. i - Len(s) \in 1 .. Len(t)
      BY <1>1, <2>3
    <3>2. Primary(t)[i - Len(s)] = Perm[t[i - Len(s)]]
      BY <1>1, <3>1 DEF Primary
    <3> QED
      BY <1>2, <1>5, <2>1, <2>3, <3>2
  <2> QED
    BY <2>2, <2>3
<1>7. p = Primary(s \o t)
  BY <1>4, <1>5, <1>6, SeqEqual
<1> QED
  BY <1>7 DEF p

\* A new cursor has delivered nothing.
LEMMA DeliveryInit == Init => Delivery
<1> SUFFICES ASSUME Init PROVE Delivery
  OBVIOUS
<1>1. delivered = <<>> /\ outbox = <<>> /\ pos = 0 /\ phase = "idle" /\ call.kind = "none"
  BY DEF Init, NoCall
<1>2. SubSeq(results, 1, pos) = <<>>
  BY <1>1, SubSeqEmpty
<1>3. Ranked(<<>>) = <<>> /\ <<>> \o <<>> = <<>>
  BY DEF Ranked, Primary
<1> QED
  BY <1>1, <1>2, <1>3 DEF Delivery

\* What was answered up to the position is not changed by an append.
LEMMA AppendKeeps ==
    ASSUME Typed, Delivery, NEW docs \in SUBSET Matching(query),
           results' = results \o Sorted(docs),
           UNCHANGED <<query, pos, outbox, delivered>>, phase # "mapping", phase' # "mapping",
           call'.kind = call.kind, call'.want = call.want
    PROVE  Delivery'
<1>1. results \in Seq(Matching(query)) /\ Sorted(docs) \in Seq(Matching(query)) /\ pos \in 0 .. Len(results)
  BY PartsAreSeqs DEF Typed
<1>2. SubSeq(results \o Sorted(docs), 1, pos) = SubSeq(results, 1, pos)
  <2>1. CASE pos = 0
    BY <2>1, SubSeqEmpty
  <2>2. CASE pos # 0
    <3>1. 1 \in 1 .. Len(results) /\ pos \in 1 .. Len(results)
      BY <1>1, <2>2, LenProperties
    <3> QED
      BY <1>1, <3>1, SubSeqOfConcat1
  <2> QED
    BY <2>1, <2>2
<1> QED
  BY <1>2 DEF Delivery, Ranked

\* A reply delivers, or hands to the mapping, the page after the position.
LEMMA DeliveryReply ==
    ASSUME Typed, Phases, Delivery, ReplyNext
    PROVE  Delivery'
<1> DEFINE page == SubSeq(results, pos + 1, Reached)
           cut(n) == SubSeq(results, 1, n)
<1>1. /\ phase = "replying" /\ outbox = <<>> /\ pos <= call.want
      /\ pos' = Reached /\ UNCHANGED <<query, results>>
  BY DEF ReplyNext, Delivery
<1>2. Reached \in 0 .. Len(results) /\ Reached <= call.want /\ pos <= Reached /\ pos \in 0 .. Len(results)
  BY <1>1, ReachedIs DEF Typed
<1>3. page \in Seq(Matching(query)) /\ cut(pos) \in Seq(Matching(query))
  BY <1>2, PageTyped, CutIsPrefix DEF Typed
<1>4. cut(pos) \o page = cut(Reached)
  <2>1. 1 \in 1 .. Len(results) + 1 /\ pos \in 1 - 1 .. Len(results) /\ Reached \in pos .. Len(results)
    BY <1>2, LenProperties DEF Typed
  <2> QED
    BY <2>1, ConcatAdjacentSubSeq DEF Typed
<1>5. (SubSeq(results, 1, pos))' = cut(Reached)
  BY <1>1
<1> HIDE DEF page, cut
<1>6. call'.kind = "next" => pos' <= call'.want
  BY <1>1, <1>2 DEF ReplyNext, NoCall
<1>7. CASE query.mapped
  <2>1. outbox' = page /\ delivered' = delivered /\ phase' = "mapping"
    BY <1>7 DEF ReplyNext, page
  <2>2. ASSUME "mapping" \notin Faulty PROVE delivered \o Primary(page) = Primary(cut(Reached))
    <3>1. delivered \o Ranked(outbox) = Primary(cut(pos))
      BY <1>7, <2>2 DEF Delivery, Ranked, cut
    <3>2. Ranked(outbox) = <<>>
      BY <1>1 DEF Ranked, Primary
    <3>3. delivered \o <<>> = delivered
      BY ConcatEmptySeq DEF Typed
    <3>4. Primary(cut(pos)) \o Primary(page) = Primary(cut(pos) \o page)
      BY <1>3, <1>7, PrimaryConcat
    <3> QED
      BY <1>4, <3>1, <3>2, <3>3, <3>4
  <2> QED
    BY <1>1, <1>5, <1>6, <1>7, <2>1, <2>2 DEF Delivery, Ranked, Primary
<1>8. CASE ~query.mapped
  <2>1. outbox' = <<>> /\ delivered' = delivered \o page /\ phase' = "idle"
    BY <1>8 DEF ReplyNext, page
  <2>2. ASSUME "mapping" \notin Faulty PROVE (delivered \o page) \o <<>> = cut(Reached)
    <3>1. delivered \o outbox = cut(pos)
      BY <1>8, <2>2 DEF Delivery, Ranked, cut
    <3>2. delivered \o <<>> = delivered
      BY ConcatEmptySeq DEF Typed
    <3>3. delivered = cut(pos)
      BY <1>1, <3>1, <3>2
    <3>4. cut(pos) \o page \in Seq(Matching(query))
      BY <1>3, ConcatProperties
    <3>5. (cut(pos) \o page) \o <<>> = cut(pos) \o page
      BY <3>4, ConcatEmptySeq
    <3> QED
      BY <1>4, <3>3, <3>5
  <2> QED
    BY <1>1, <1>5, <1>6, <1>8, <2>1, <2>2 DEF Delivery, Ranked
<1> QED
  BY <1>7, <1>8

\* Mapping delivers the page handed over.
LEMMA DeliveryMap ==
    ASSUME Typed, Phases, Delivery, MapPage
    PROVE  Delivery'
<1>1. /\ query.mapped /\ UNCHANGED <<query, results, pos>>
      /\ delivered' = delivered \o Primary(outbox) /\ outbox' = <<>>
      /\ phase' = "idle" /\ call'.kind = "none"
  BY DEF MapPage, Phases, cursorVars, NoCall
<1>2. delivered' \o Primary(<<>>) = delivered'
  <2>1. Primary(outbox) \in Seq(Nat)
    BY <1>1, PrimaryIsSeq DEF Typed
  <2>2. delivered \o Primary(outbox) \in Seq(Nat)
    BY <2>1, ConcatProperties DEF Typed
  <2>3. Primary(<<>>) = <<>>
    BY DEF Primary
  <2> QED
    BY <1>1, <2>2, <2>3, ConcatEmptySeq
<1> QED
  BY <1>1, <1>2 DEF Delivery, Ranked

\* Everything delivered is the answer up to the position, in order.
LEMMA DeliveryStep ==
    ASSUME Typed, Phases, Delivery, [NextStep]_vars
    PROVE  Delivery'
<1>1. ASSUME UNCHANGED <<query, results, pos, outbox, delivered>>, phase # "mapping", phase' # "mapping",
             call'.kind = "next" => pos <= call'.want
      PROVE  Delivery'
  BY <1>1 DEF Delivery, Ranked, Primary
<1>2. ASSUME NEW kind, NEW want, Begin(kind, want), kind = "next" => pos <= want
      PROVE  Delivery'
  <2>1. phase' # "mapping"
    BY <1>2, EnsureIs DEF Begin
  <2> QED
    BY <1>1, <1>2, <2>1 DEF Begin, cursorVars
<1>3. CASE \E n \in PageSizes : Next(n)
  <2>1. PICK n \in PageSizes : Next(n)
    BY <1>3
  <2>2. pos <= pos + n
    BY CursorAssumption DEF Typed
  <2> QED
    BY <1>2, <2>1, <2>2 DEF Next
<1>4. CASE (\E n \in PageSizes, offset \in {0, Len(results)} : Page(offset, n)) \/ LoadTail
  BY <1>2, <1>4 DEF Page, LoadTail
<1>5. CASE OpenScan
  BY <1>1, <1>5 DEF OpenScan, Delivery
<1>6. CASE ScanWindow
  <2>1. PICK win \in Windows : results' = results \o Sorted(win)
    BY <1>6 DEF ScanWindow
  <2>2. win \in SUBSET Matching(query)
    BY <1>6, WindowIs DEF ScanWindow, Scanning, Within
  <2>3. call'.kind = call.kind /\ call'.want = call.want
    BY <1>6 DEF ScanWindow, Typed
  <2> QED
    BY <1>6, <2>1, <2>2, <2>3, AppendKeeps DEF ScanWindow, Scanning
<1>7. CASE ScanStop
  BY <1>1, <1>7 DEF ScanStop, Delivery
<1>8. CASE LoadWhole
  <2>1. PICK tail \in Tails : results' = results \o Sorted(tail)
    BY <1>8 DEF LoadWhole
  <2>2. tail \in SUBSET Matching(query)
    BY TailIs
  <2>3. call'.kind = call.kind /\ call'.want = call.want
    BY <1>8 DEF LoadWhole
  <2> QED
    BY <1>8, <2>1, <2>2, <2>3, AppendKeeps DEF LoadWhole
<1>9. CASE ReplyNext
  BY <1>9, DeliveryReply
<1>10. CASE ReplyPage
  BY <1>1, <1>10 DEF ReplyPage, NoCall, cursorVars
<1>11. CASE ReplyLoad
  <2>1. phase' # "mapping"
    BY <1>11, EnsureIs DEF ReplyLoad
  <2>2. call'.kind # "next"
    BY <1>11 DEF ReplyLoad, NoCall, Typed
  <2> QED
    BY <1>1, <1>11, <2>1, <2>2 DEF ReplyLoad, cursorVars
<1>12. CASE MapPage
  BY <1>12, DeliveryMap
<1>13. CASE Fault
  <2>1. UNCHANGED <<query, results, pos, delivered>> /\ outbox' = <<>> /\ phase' = "idle" /\ call'.kind = "none"
    BY <1>13 DEF Fault, NoCall
  <2>2. CASE phase = "mapping"
    <3>1. "mapping" \in Faulty
      BY <1>13, <2>2 DEF Fault
    <3> QED
      BY <2>1, <3>1 DEF Delivery
  <2>3. CASE phase # "mapping"
    BY <1>1, <2>1, <2>3 DEF Delivery
  <2> QED
    BY <2>2, <2>3
<1>14. CASE UNCHANGED vars
  BY <1>14 DEF vars, cursorVars, Delivery, Ranked, Primary
<1> QED
  BY <1>3, <1>4, <1>5, <1>6, <1>7, <1>8, <1>9, <1>10, <1>11, <1>12, <1>13, <1>14 DEF NextStep

IInv == Typed /\ Phases /\ Content /\ Delivery

\* The inductive invariant of the cursor (rust/src/index.rs, Cursor): types, the
\* phases a call may be in, what is materialised, and what was delivered.
THEOREM CursorInvariant == Spec => []IInv
<1>1. Init => IInv
  BY TypedInit, PhasesInit, ContentInit, DeliveryInit DEF IInv
<1>2. IInv /\ [NextStep]_vars => IInv'
  BY TypedStep, PhasesStep, ContentStep, DeliveryStep DEF IInv
<1> QED
  BY <1>1, <1>2, PTL DEF Spec

\* The cursor's type invariant, for every set of queries and every page size.
THEOREM CursorTypeOK == Spec => []TypeOK
<1>1. IInv => TypeOK
  <2> SUFFICES ASSUME Typed PROVE TypeOK
    BY DEF IInv
  <2>1. Matching(query) \in SUBSET Nat
    BY QueryIs DEF Typed
  <2>2. results \in Seq(Nat) /\ outbox \in Seq(Nat)
    BY <2>1, SeqMonotonic DEF Typed
  <2> QED
    BY <2>2 DEF Typed, TypeOK, PhaseNames, CallKinds
<1> QED
  BY <1>1, CursorInvariant, PTL

\* What the content part says of the two properties.
LEMMA ContentIsPrefix ==
    ASSUME Typed, Content
    PROVE  PrefixOfAnswer /\ NothingForeignNothingLost
<1>1. Matching(query) \in SUBSET Nat /\ IsFiniteSet(Matching(query)) /\ ToSet(Answer) = Matching(query)
  BY QueryIs, SortedIsSeq DEF Typed, Answer
<1>2. ToSet(results) \subseteq Matching(query)
  BY LenProperties, ElementOfSeq DEF Typed, ToSet
<1>3. ASSUME NEW S \in SUBSET Matching(query), results = Sorted(S),
             \A a \in S, b \in Matching(query) \ S : Bucket(a) < Bucket(b)
      PROVE  IsPrefix(results, Answer)
  <2>1. \A a \in S, b \in Matching(query) \ S : a < b
    BY <1>1, <1>3, BucketOrder
  <2> QED
    BY <1>1, <1>3, <2>1, SortedPrefix DEF Answer
<1>4. CASE scan.held
  <2>1. results = Sorted(Scanned) /\ Scanned \in SUBSET Matching(query)
    BY <1>4 DEF Content, Scanned
  <2>2. \A a \in Scanned, b \in Matching(query) \ Scanned : Bucket(a) < Bucket(b)
    BY <1>4 DEF Content, Scanned
  <2>3. IsPrefix(results, Answer)
    BY <1>3, <2>1, <2>2
  <2>4. ToSet(results) = Scanned
    BY <2>1, PartsAreSeqs
  <2>5. tailDone => Scanned = Matching(query)
    BY <1>4 DEF Content, Scanned
  <2> QED
    BY <1>1, <1>2, <2>3, <2>4, <2>5 DEF PrefixOfAnswer, NothingForeignNothingLost
<1>5. CASE ~scan.held /\ ~ScanLost
  <2> DEFINE S == IF tailDone THEN Matching(query) ELSE Within(Matching(query), {0})
  <2>1. results = Sorted(S) /\ S \in SUBSET Matching(query)
    BY <1>5 DEF Content, Within
  <2>2. \A a \in S, b \in Matching(query) \ S : Bucket(a) < Bucket(b)
    BY MatchingBuckets DEF Within
  <2>3. tailDone => S = Matching(query)
    OBVIOUS
  <2> HIDE DEF S
  <2>4. IsPrefix(results, Answer)
    BY <1>3, <2>1, <2>2
  <2>5. ToSet(results) = S
    BY <2>1, PartsAreSeqs
  <2> QED
    BY <1>1, <1>2, <2>3, <2>4, <2>5 DEF PrefixOfAnswer, NothingForeignNothingLost
<1>6. CASE ScanLost
  BY <1>1, <1>2, <1>6 DEF Content, PrefixOfAnswer, NothingForeignNothingLost
<1> QED
  BY <1>4, <1>5, <1>6

\* PrefixOfAnswer for all queries, bucket sizes, windows and faults: what `ensure`
\* materialises is always the beginning of the answer, unless a window failed.
THEOREM CursorHoldsPrefix == Spec => []PrefixOfAnswer
<1>1. IInv => PrefixOfAnswer
  BY ContentIsPrefix DEF IInv
<1> QED
  BY <1>1, CursorInvariant, PTL

\* NothingForeignNothingLost for all of them: a cursor never holds a document that
\* does not match, and with its tail done has every one that does, also after a
\* window failed and took the scan with it.
THEOREM CursorIsSoundAndComplete == Spec => []NothingForeignNothingLost
<1>1. IInv => NothingForeignNothingLost
  BY ContentIsPrefix DEF IInv
<1> QED
  BY <1>1, CursorInvariant, PTL

\* Successive calls of `next` deliver the answer from its beginning, each document
\* once, when mapping a page cannot fail: a SecondaryCursor that fails there has
\* moved its position past a page it never returned.
THEOREM NextDelivers ==
    ASSUME "mapping" \notin Faulty
    PROVE  Spec => []NextDeliversInOrder
<1>1. ASSUME IInv, ~ScanLost PROVE IsPrefix(delivered, IF query.mapped THEN Primary(Answer) ELSE Answer)
  <2>1. Typed /\ Delivery /\ IsPrefix(results, Answer)
    BY <1>1, ContentIsPrefix DEF IInv, PrefixOfAnswer
  <2> DEFINE cut == SubSeq(results, 1, pos)
             S == Matching(query)
  <2>2. Answer \in Seq(S)
    <3>1. S \in SUBSET S
      OBVIOUS
    <3> QED
      BY <2>1, <3>1, PartsAreSeqs DEF Answer
  <2>3. results \in Seq(S) /\ outbox \in Seq(S) /\ delivered \in Seq(Nat) /\ S \in SUBSET Nat
    BY <2>1, QueryIs DEF Typed
  <2>4. cut \in Seq(S) /\ IsPrefix(cut, results)
    BY <2>1, <2>3, CutIsPrefix DEF Typed
  <2> HIDE DEF S
  <2>5. IsPrefix(cut, Answer)
    BY <2>1, <2>2, <2>3, <2>4, PrefixTransitive
  <2>6. delivered \o Ranked(outbox) = Ranked(cut)
    BY <2>1 DEF Delivery
  <2> HIDE DEF cut
  <2>7. CASE query.mapped
    <3>1. IsPrefix(Primary(cut), Primary(Answer)) /\ Primary(cut) \in Seq(Nat) /\ Primary(Answer) \in Seq(Nat)
      BY <2>1, <2>2, <2>4, <2>5, <2>7, PrimaryPrefix, PrimaryIsSeq DEF S
    <3>2. Primary(outbox) \in Seq(Nat)
      BY <2>1, <2>3, <2>7, PrimaryIsSeq DEF S
    <3>3. IsPrefix(delivered, Primary(cut))
      BY <2>3, <2>6, <2>7, <3>2, ConcatIsPrefix DEF Ranked
    <3>4. IsPrefix(delivered, Primary(Answer))
      BY <2>3, <3>1, <3>3, PrefixTransitive
    <3> QED
      BY <2>7, <3>4
  <2>8. CASE ~query.mapped
    <3>1. cut \in Seq(Nat) /\ outbox \in Seq(Nat) /\ Answer \in Seq(Nat)
      BY <2>2, <2>3, <2>4, SeqMonotonic
    <3>2. IsPrefix(delivered, cut)
      BY <2>3, <2>6, <2>8, <3>1, ConcatIsPrefix DEF Ranked
    <3>3. IsPrefix(delivered, Answer)
      BY <2>3, <2>5, <3>1, <3>2, PrefixTransitive
    <3> QED
      BY <2>8, <3>3
  <2> QED
    BY <2>7, <2>8
<1>2. IInv => NextDeliversInOrder
  BY <1>1 DEF NextDeliversInOrder
<1> QED
  BY <1>2, CursorInvariant, PTL
==============================================================================
