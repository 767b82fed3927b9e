---------------------------- MODULE CatalogProofs ----------------------------
(****************************************************************************)
(* Proofs about the pages of the catalog and of the search server.  What a  *)
(* query's head, windows and whole tail find is proved of the cursor, and   *)
(* taken from there; here a cursor is a value that one step makes, fills    *)
(* and drops, and the loops that fill it are folds.                         *)
(****************************************************************************)
EXTENDS Catalog, NatSetLemmas

------------------------------------------------------------------------------
(* What the proofs about the cursor say of queries; they are of no cursor.    *)

Cursor == INSTANCE SearchCursorProofs WITH
    Queries <- {}, PageSizes <- {}, Everything <- 0, Perm <- << >>, MaxFaults <- 0, Faulty <- {},
    query <- None, results <- << >>, pos <- 0, tailDone <- TRUE, scan <- None, tried <- TRUE,
    phase <- "idle", call <- None, outbox <- << >>, delivered <- << >>, faults <- 0

\* What those proofs assume of their constants holds here.
LEMMA CursorAssumptions ==
    /\ PerBucket \in Nat \ {0} /\ KeyBatch \in Nat \ {0}
    /\ WindowsPerCall \in Nat \ {0} /\ {} \subseteq Nat /\ 0 \in Nat
    /\ {} \subseteq {"opening", "scanning", "loading", "mapping"}
    /\ \A q \in {} : /\ Cursor!IsQuery(q)
                     /\ q.mapped => \A t \in q.keys : \A d \in q.post[t] : << >>[d] \in Nat
BY BucketAssumption, CatalogAssumption

\* The two modules evaluate a query alike.
LEMMA SameQueries ==
    ASSUME NEW q
    PROVE  /\ Cursor!IsQuery(q) <=> IsQuery(q)
           /\ Cursor!Matching(q) = Matching(q) /\ Cursor!Recs(q) = Recs(q)
           /\ Cursor!MinMatch(q) = MinMatch(q) /\ (Cursor!Strict(q) <=> Strict(q))
           /\ Cursor!HeadDocs(q) = HeadDocs(q) /\ Cursor!CandidateKeys(q) = CandidateKeys(q)
           /\ \A seed, keys : Cursor!WindowDocs(q, seed, keys) = WindowDocs(q, seed, keys)
           /\ \A seed : Cursor!WholeTail(q, seed) = WholeTail(q, seed)
<1> USE DEF Cursor!Bucket, Bucket, Cursor!Buckets, Buckets, Cursor!Within, Within
<1>1. \A S : /\ Cursor!Cardinality(S) = Cardinality(S)
             /\ Cursor!IsFiniteSet(S) <=> IsFiniteSet(S)
             /\ Cursor!Max(S) = Max(S) /\ Cursor!Min(S) = Min(S)
  BY DEF Cursor!Cardinality, Cardinality, Cursor!IsFiniteSet, IsFiniteSet,
         Cursor!Max, Max, Cursor!Min, Min
<1>2. Cursor!IsQuery(q) <=> IsQuery(q)
  BY <1>1 DEF Cursor!IsQuery, IsQuery
<1>3. Cursor!Recs(q) = Recs(q)
  BY DEF Cursor!Recs, Recs
<1>4. Cursor!MinMatch(q) = MinMatch(q)
  BY <1>1 DEF Cursor!MinMatch, MinMatch
<1>5. Cursor!Strict(q) <=> Strict(q)
  BY <1>1, <1>3, <1>4 DEF Cursor!Strict, Strict
<1>6. \A post, terms, m : Cursor!Threshold(post, terms, m) = Threshold(post, terms, m)
  BY <1>1 DEF Threshold, Cursor!Threshold, FoldSet, Cursor!FoldSet,
              MapThenFoldSet, Cursor!MapThenFoldSet
<1>7. \A docs, keys : Cursor!Filtered(q, docs, keys) = Filtered(q, docs, keys)
  BY DEF Cursor!Filtered, Filtered
<1>8. \A seed, keys : Cursor!SeededAnd(q, seed, keys) = SeededAnd(q, seed, keys)
  BY <1>3 DEF Cursor!SeededAnd, SeededAnd
<1>9. Cursor!Matching(q) = Matching(q)
  BY <1>1, <1>4 DEF Cursor!Matching, Matching, Cursor!Passes, Passes
<1>10. Cursor!HeadDocs(q) = HeadDocs(q)
  BY <1>3, <1>4, <1>6, <1>7 DEF Cursor!HeadDocs, HeadDocs
<1>11. Cursor!CandidateKeys(q) = CandidateKeys(q)
  BY <1>3 DEF Cursor!CandidateKeys, CandidateKeys
<1>12. \A seed, keys : Cursor!WindowDocs(q, seed, keys) = WindowDocs(q, seed, keys)
  BY <1>7, <1>8 DEF Cursor!WindowDocs, WindowDocs
<1>13. \A seed : Cursor!WholeTail(q, seed) = WholeTail(q, seed)
  BY <1>3, <1>4, <1>5, <1>6, <1>7, <1>8 DEF Cursor!WholeTail, WholeTail
<1> QED
  BY <1>2, <1>3, <1>4, <1>5, <1>9, <1>10, <1>11, <1>12, <1>13

LEMMA SameLists ==
    /\ \A S : /\ Cursor!Sorted(S) = Sorted(S)
              /\ Cursor!NextKeys(S) = NextKeys(S)
              /\ Cursor!IsFiniteSet(S) <=> IsFiniteSet(S)
              /\ Cursor!Cardinality(S) = Cardinality(S)
    /\ \A s, t : Cursor!IsPrefix(s, t) <=> IsPrefix(s, t)
    /\ \A d : Cursor!Bucket(d) = Bucket(d)
    /\ \A docs, keys : Cursor!Within(docs, keys) = Within(docs, keys)
<1>1. \A S : Cursor!Cardinality(S) = Cardinality(S) /\ (Cursor!IsFiniteSet(S) <=> IsFiniteSet(S))
  BY DEF Cursor!Cardinality, Cardinality, Cursor!IsFiniteSet, IsFiniteSet
<1>2. \A S : Cursor!Sorted(S) = Sorted(S) /\ Cursor!NextKeys(S) = NextKeys(S)
  BY DEF Cursor!Sorted, Sorted, Cursor!NextKeys, NextKeys, Cursor!Cardinality, Cardinality
<1>3. \A s, t : Cursor!IsPrefix(s, t) <=> IsPrefix(s, t)
  BY DEF Cursor!IsPrefix, IsPrefix
<1>4. /\ \A d : Cursor!Bucket(d) = Bucket(d)
      /\ \A docs, keys : Cursor!Within(docs, keys) = Within(docs, keys)
  BY DEF Cursor!Bucket, Bucket, Cursor!Within, Within
<1> QED
  BY <1>1, <1>2, <1>3, <1>4

\* The pieces that a query is evaluated in are pieces of its answer.
LEMMA Pieces ==
    ASSUME NEW q, IsQuery(q), NEW M, M = Matching(q)
    PROVE  /\ M \in SUBSET Nat /\ IsFiniteSet(M)
           /\ HeadDocs(q) = Within(M, {0})
           /\ Strict(q) => \A seed \in Recs(q) : \A keys : WindowDocs(q, seed, keys) = Within(M, keys)
           /\ \A seed \in Recs(q) : WholeTail(q, seed) = {d \in M : Bucket(d) >= 1}
           /\ Strict(q) => \A d \in M : Bucket(d) >= 1 => Bucket(d) \in CandidateKeys(q)
           /\ CandidateKeys(q) \in SUBSET (Nat \ {0}) /\ IsFiniteSet(CandidateKeys(q))
           /\ Unmatchable(q) => M = {}
           /\ ~Unmatchable(q) => Recs(q) # {}
<1>1. /\ Cursor!IsQuery(q) /\ Cursor!Matching(q) = M /\ Cursor!Recs(q) = Recs(q)
      /\ Cursor!MinMatch(q) = MinMatch(q)
      /\ Cursor!Strict(q) <=> Strict(q)
      /\ Cursor!HeadDocs(q) = HeadDocs(q) /\ Cursor!CandidateKeys(q) = CandidateKeys(q)
      /\ \A seed, keys : Cursor!WindowDocs(q, seed, keys) = WindowDocs(q, seed, keys)
      /\ \A seed : Cursor!WholeTail(q, seed) = WholeTail(q, seed)
  BY SameQueries
<1>2. M \in SUBSET Nat /\ IsFiniteSet(M)
  BY <1>1, SameLists, CursorAssumptions, Cursor!MatchingShape
<1>3. HeadDocs(q) = Within(M, {0})
  BY <1>1, SameLists, CursorAssumptions, Cursor!HeadIsMatching
<1>4. ASSUME Strict(q), NEW seed \in Recs(q), NEW keys
      PROVE  WindowDocs(q, seed, keys) = Within(M, keys)
  <2>1. Cursor!WindowDocs(q, seed, keys) = Cursor!Within(Cursor!Matching(q), keys)
    BY <1>1, <1>4, CursorAssumptions, Cursor!WindowIsMatching
  <2> QED
    BY <1>1, <2>1, SameLists
<1>5. ASSUME NEW seed \in Recs(q) PROVE WholeTail(q, seed) = {d \in M : Bucket(d) >= 1}
  <2>1. Cursor!WholeTail(q, seed) = {d \in Cursor!Matching(q) : Cursor!Bucket(d) >= 1}
    BY <1>1, <1>5, CursorAssumptions, Cursor!WholeTailIsMatching
  <2> QED
    BY <1>1, <2>1, SameLists
<1>6. ASSUME Strict(q), NEW d \in M, Bucket(d) >= 1 PROVE Bucket(d) \in CandidateKeys(q)
  <2>1. Cursor!Bucket(d) >= 1
    BY <1>6, SameLists
  <2>2. Cursor!Bucket(d) \in Cursor!CandidateKeys(q)
    BY <1>1, <1>6, <2>1, CursorAssumptions, Cursor!TailInCandidates
  <2> QED
    BY <1>1, <2>2, SameLists
<1>7. CandidateKeys(q) \in SUBSET (Nat \ {0}) /\ IsFiniteSet(CandidateKeys(q))
  BY <1>1, SameLists, CursorAssumptions, Cursor!CandidatesShape
<1>8. ASSUME Unmatchable(q) PROVE M = {}
  <2>1. Cursor!HasEmptyArm(q) \/ Cursor!Cardinality(Cursor!Recs(q)) < Cursor!MinMatch(q)
    BY <1>1, <1>8, SameLists DEF Unmatchable, HasEmptyArm, Cursor!HasEmptyArm
  <2> QED
    BY <1>1, <2>1, CursorAssumptions, Cursor!UnmatchableIsEmpty
<1>9. ASSUME ~Unmatchable(q) PROVE Recs(q) # {}
  <2>1. MinMatch(q) \in Nat /\ MinMatch(q) >= 1
    BY <1>1, CursorAssumptions, Cursor!QueryShape
  <2>2. Cardinality({}) = 0
    BY FS_EmptySet
  <2> QED
    BY <1>9, <2>1, <2>2 DEF Unmatchable
<1> QED
  BY <1>2, <1>3, <1>4, <1>5, <1>6, <1>7, <1>8, <1>9

\* The ascending list of a finite set of documents, and of two where one is
\* below the other.
LEMMA SortedIs ==
    ASSUME NEW S \in SUBSET Nat, IsFiniteSet(S)
    PROVE  Sorted(S) \in Seq(Nat) /\ Len(Sorted(S)) = Cardinality(S) /\ Cardinality(S) \in Nat
<1>1. Lists(Sorted(S), S, Smaller)
  <2>1. Cursor!Lists(Cursor!Sorted(S), S, Cursor!Smaller)
    BY SameLists, CursorAssumptions, Cursor!SortedLists
  <2> QED
    BY <2>1, AscendingLists DEF Sorted
<1>2. Orders(Smaller, S)
  BY SmallerOrders
<1>3. Sorted(S) \in Seq(S) /\ Len(Sorted(S)) = Cardinality(S) /\ Cardinality(S) \in Nat
  BY <1>1, <1>2, ListsInOrder
<1>4. PICK s : s = Sorted(S)
  OBVIOUS
<1>5. s \in Seq(S)
  BY <1>3, <1>4
<1>6. s \in Seq(Nat)
  <2>1. S \subseteq Nat
    OBVIOUS
  <2> QED
    BY <1>5, <2>1, SeqMonotonic
<1> QED
  BY <1>3, <1>4, <1>6

LEMMA SortedJoins ==
    ASSUME NEW A \in SUBSET Nat, NEW B \in SUBSET Nat, IsFiniteSet(A), IsFiniteSet(B),
           \A a \in A, b \in B : a < b
    PROVE  Sorted(A) \o Sorted(B) = Sorted(A \union B)
<1>1. Cursor!Sorted(A) \o Cursor!Sorted(B) = Cursor!Sorted(A \union B)
  BY SameLists, CursorAssumptions, Cursor!SortedConcat
<1> QED
  BY <1>1, SameLists

LEMMA SortedCuts ==
    ASSUME NEW S \in SUBSET Nat, IsFiniteSet(S), NEW A \in SUBSET S,
           \A a \in A, b \in S \ A : a < b
    PROVE  IsPrefix(Sorted(A), Sorted(S))
<1>1. Cursor!IsPrefix(Cursor!Sorted(A), Cursor!Sorted(S))
  BY SameLists, CursorAssumptions, Cursor!SortedPrefix
<1> QED
  BY <1>1, SameLists

LEMMA BucketsAscend ==
    /\ \A a \in Nat : Bucket(a) \in Nat
    /\ \A a, b \in Nat : Bucket(a) < Bucket(b) => a < b
<1>1. ASSUME NEW a \in Nat PROVE Bucket(a) \in Nat
  <2>1. Cursor!Bucket(a) \in Nat
    BY CursorAssumptions, Cursor!BucketIsNat
  <2> QED
    BY <2>1, SameLists
<1>2. ASSUME NEW a \in Nat, NEW b \in Nat, Bucket(a) < Bucket(b) PROVE a < b
  <2>1. Cursor!Bucket(a) < Cursor!Bucket(b)
    BY <1>2, SameLists
  <2> QED
    BY <2>1, CursorAssumptions, Cursor!BucketOrder
<1> QED
  BY <1>1, <1>2

\* The next window takes the lowest of the keys left, and takes some.
LEMMA NextAreLowest ==
    ASSUME NEW keys \in SUBSET Nat, IsFiniteSet(keys)
    PROVE  /\ NextKeys(keys) \subseteq keys
           /\ \A k \in NextKeys(keys), j \in keys \ NextKeys(keys) : k < j
           /\ keys # {} => NextKeys(keys) # {}
<1>1. \A k \in NextKeys(keys), j \in keys \ NextKeys(keys) : k < j
  <2>1. \A k \in Cursor!NextKeys(keys), j \in keys \ Cursor!NextKeys(keys) : k < j
    BY SameLists, CursorAssumptions, Cursor!NextKeysAreLowest
  <2> QED
    BY <2>1, SameLists
<1>2. ASSUME keys # {} PROVE NextKeys(keys) # {}
  <2>1. PICK k \in keys : \A j \in keys : k <= j
    BY <1>2, NatSetHasLeast
  <2>2. {j \in keys : j < k} = {}
    <3>1. k \in Nat /\ \A j \in keys : j \in Nat /\ ~(j < k)
      BY <2>1
    <3> QED
      BY ONLY <3>1
  <2>3. Cardinality({}) < KeyBatch
    BY FS_EmptySet, BucketAssumption
  <2> QED
    BY <2>1, <2>2, <2>3 DEF NextKeys
<1> QED
  BY <1>1, <1>2 DEF NextKeys

------------------------------------------------------------------------------
(* A cursor of the facade: a value, made, filled and dropped in one step each *)

Incremental(q) == Strict(q) /\ q.seekable

\* What a cursor holds of its answer, by the keys that are left to scan.
Held(q, keys, done) ==
    IF done THEN Matching(q)
    ELSE IF Incremental(q) THEN {d \in Matching(q) : Bucket(d) \notin keys}
    ELSE Within(Matching(q), {0})

\* The keys left are buckets past the head, and what is held lies before them.
Left(q, keys) ==
    /\ keys \in SUBSET (Nat \ {0}) /\ IsFiniteSet(keys)
    /\ \A a \in Held(q, keys, FALSE), b \in Matching(q) \ Held(q, keys, FALSE) :
          Bucket(a) < Bucket(b)

\* A cursor for the query q, in every state that calls can leave it in.
IsCursor(cur, q) ==
    /\ cur = [query |-> q, head |-> Within(Matching(q), {0}), results |-> Sorted(Held(q, cur.keys, cur.done)),
              keys |-> cur.keys, done |-> cur.done]
    /\ IsQuery(q) /\ Left(q, cur.keys) /\ cur.done \in BOOLEAN
    /\ cur.done \/ Recs(q) # {}

\* What is held, and that it is an initial part of the answer.
LEMMA HeldIs ==
    ASSUME NEW q, IsQuery(q), NEW keys, Left(q, keys), NEW done \in BOOLEAN,
           NEW H, H = Held(q, keys, done)
    PROVE  /\ H \in SUBSET Matching(q) /\ H \in SUBSET Nat /\ IsFiniteSet(H)
           /\ Matching(q) \in SUBSET Nat /\ IsFiniteSet(Matching(q))
           /\ IsPrefix(Sorted(H), Sorted(Matching(q)))
<1>1. Matching(q) \in SUBSET Nat /\ IsFiniteSet(Matching(q))
  BY Pieces
<1>2. H \in SUBSET Matching(q)
  BY DEF Held, Within
<1>3. H \in SUBSET Nat /\ IsFiniteSet(H)
  BY <1>1, <1>2, FS_Subset
<1>4. \A a \in H, b \in Matching(q) \ H : Bucket(a) < Bucket(b)
  BY DEF Left, Held
<1>5. \A a \in H, b \in Matching(q) \ H : a < b
  BY <1>1, <1>2, <1>4, BucketsAscend
<1>6. IsPrefix(Sorted(H), Sorted(Matching(q)))
  BY <1>1, <1>2, <1>5, SortedCuts
<1> QED
  BY <1>1, <1>2, <1>3, <1>6

\* A new cursor holds the head, or is done when nothing can match.
LEMMA FreshIs ==
    ASSUME NEW q, IsQuery(q)
    PROVE  IsCursor(Fresh(q), q)
<1> DEFINE M == Matching(q)
<1>1. \A d \in M : Bucket(d) \in Nat
  BY Pieces, BucketsAscend
<1>2. CASE Unmatchable(q)
  <2>1. M = {} /\ Sorted({}) = << >>
    <3>1. Cardinality({}) = 0
      BY FS_EmptySet
    <3> QED
      BY <1>2, <3>1, Pieces DEF Sorted
  <2>2. Fresh(q) = [query |-> q, head |-> {}, results |-> << >>, keys |-> {}, done |-> TRUE]
    BY <1>2 DEF Fresh
  <2>3. Left(q, {})
    BY <2>1, FS_EmptySet DEF Left, Held, Within
  <2>4. Within(M, {0}) = {} /\ Held(q, {}, TRUE) = {}
    BY <2>1 DEF Within, Held
  <2>5. PICK c : c = Fresh(q)
    OBVIOUS
  <2>6. c.keys = {} /\ c.done = TRUE
    BY <2>2, <2>5
  <2>7. c = [query |-> q, head |-> Within(M, {0}), results |-> Sorted(Held(q, c.keys, c.done)),
             keys |-> c.keys, done |-> c.done]
    BY <2>1, <2>2, <2>4, <2>5, <2>6
  <2> QED
    BY <2>3, <2>5, <2>6, <2>7 DEF IsCursor
<1>3. CASE ~Unmatchable(q)
  <2> DEFINE keys == CandidateKeys(q)
  <2>1. /\ HeadDocs(q) = Within(M, {0}) /\ Recs(q) # {}
        /\ keys \in SUBSET (Nat \ {0}) /\ IsFiniteSet(keys)
        /\ Strict(q) => \A d \in M : Bucket(d) >= 1 => Bucket(d) \in keys
    BY <1>3, Pieces
  <2>2. Held(q, keys, FALSE) = Within(M, {0})
    <3> HIDE DEF keys
    <3>1. Strict(q) => {d \in M : Bucket(d) \notin keys} = {d \in M : Bucket(d) \in {0}}
      BY <1>1, <2>1
    <3> QED
      BY <3>1 DEF Held, Incremental, Within
  <2>3. \A a \in Within(M, {0}), b \in M \ Within(M, {0}) : Bucket(a) < Bucket(b)
    BY <1>1 DEF Within
  <2>4. Fresh(q) = [query |-> q, head |-> HeadDocs(q), results |-> Sorted(HeadDocs(q)),
                    keys |-> keys, done |-> FALSE]
    <3>1. PICK none : none = Unmatchable(q)
      OBVIOUS
    <3>2. none = FALSE
      BY <1>3, <3>1
    <3> QED
      BY <1>3, <3>1, <3>2 DEF Fresh
  <2> HIDE DEF keys, M
  <2>5. Left(q, keys)
    BY <2>1, <2>2, <2>3 DEF Left, M
  <2>6. PICK c : c = Fresh(q)
    OBVIOUS
  <2>7. c.keys = keys /\ c.done = FALSE
    BY <2>4, <2>6
  <2>8. c = [query |-> q, head |-> Within(M, {0}), results |-> Sorted(Held(q, c.keys, c.done)),
             keys |-> c.keys, done |-> c.done]
    BY <2>1, <2>2, <2>4, <2>6, <2>7
  <2> QED
    BY <2>1, <2>5, <2>6, <2>7, <2>8 DEF IsCursor, M
<1> QED
  BY <1>2, <1>3

\* The scan's state: what a window may find it in.
Scans(q, a, keys) ==
    /\ a = [results |-> a.results, used |-> a.used, keys |-> a.keys]
    /\ a.keys \in SUBSET keys /\ Left(q, a.keys)
    /\ a.results = Sorted(Held(q, a.keys, FALSE))

\* A window appends the documents of the keys it takes, which are next in rank.
LEMMA WindowKeeps ==
    ASSUME NEW q, IsQuery(q), Incremental(q), NEW seed \in Recs(q), NEW all, NEW a, Scans(q, a, all),
           NEW n, NEW docs, docs = WindowDocs(q, seed, NextKeys(a.keys)),
           NEW b, b = [results |-> a.results \o Sorted(docs), used |-> n, keys |-> a.keys \ NextKeys(a.keys)]
    PROVE  Scans(q, b, all)
<1> DEFINE M == Matching(q)
           H == Held(q, a.keys, FALSE)
           G == Held(q, b.keys, FALSE)
           next == NextKeys(a.keys)
<1>1. M \in SUBSET Nat /\ IsFiniteSet(M) /\ docs = Within(M, next)
  BY Pieces DEF Incremental
<1>2. a.keys \in SUBSET Nat /\ a.keys \in SUBSET (Nat \ {0}) /\ IsFiniteSet(a.keys)
  BY DEF Scans, Left
<1>3. next \subseteq a.keys /\ \A k \in next, j \in a.keys \ next : k < j
  BY <1>2, NextAreLowest
<1>4. b.keys = a.keys \ next /\ b.keys \in SUBSET a.keys
  OBVIOUS
<1>5. H = {d \in M : Bucket(d) \notin a.keys} /\ G = {d \in M : Bucket(d) \notin b.keys}
  BY DEF Held, Incremental
<1>6. G = H \union docs
  BY <1>1, <1>3, <1>4, <1>5 DEF Within
<1>7. \A x \in H, y \in M \ H : Bucket(x) < Bucket(y)
  BY DEF Scans, Left
<1>8. \A x \in H, y \in docs : x < y
  BY <1>1, <1>3, <1>5, <1>7, BucketsAscend DEF Within
<1>9. IsFiniteSet(H) /\ IsFiniteSet(docs) /\ H \in SUBSET Nat /\ docs \in SUBSET Nat
  BY <1>1, <1>5, FS_Subset DEF Within
<1> HIDE DEF M, H, G, next
<1>10. Sorted(H) \o Sorted(docs) = Sorted(G)
  BY <1>6, <1>8, <1>9, SortedJoins
<1>11. \A x \in G, y \in M \ G : Bucket(x) < Bucket(y)
  BY <1>1, <1>3, <1>4, <1>5, <1>6, <1>7 DEF Within
<1>12. b.results = Sorted(G)
  BY <1>10 DEF Scans, H
<1>13. b.keys \in SUBSET (Nat \ {0}) /\ IsFiniteSet(b.keys) /\ b.keys \in SUBSET all
  BY <1>2, <1>4, FS_Subset DEF Scans
<1> QED
  BY <1>11, <1>12, <1>13 DEF Scans, Left, M, G

\* The scan's condition and its window, named.
Stops(cur, want, a) ==
    \/ Len(a.results) >= want \/ a.keys = {}
    \/ Len(a.results) > Len(cur.results) /\ a.used >= 2
OneWindow(cur, want, a, n) ==
    IF Stops(cur, want, a) THEN a
    ELSE LET seed == CHOOSE t \in Recs(cur.query) : TRUE
             docs == WindowDocs(cur.query, seed, NextKeys(a.keys))
         IN [results |-> a.results \o Sorted(docs), used |-> n, keys |-> a.keys \ NextKeys(a.keys)]
Start(cur) == [results |-> cur.results, keys |-> cur.keys, used |-> 0]

\* What is held before the scan is done.
LEMMA HeldSoFar ==
    ASSUME NEW q, IsQuery(q), NEW keys, Left(q, keys)
    PROVE  /\ Held(q, keys, FALSE) \in SUBSET Nat /\ IsFiniteSet(Held(q, keys, FALSE))
           /\ Sorted(Held(q, keys, FALSE)) \in Seq(Nat)
<1>1. PICK no \in BOOLEAN : no = FALSE
  OBVIOUS
<1>2. Held(q, keys, no) \in SUBSET Nat /\ IsFiniteSet(Held(q, keys, no))
  BY HeldIs
<1>3. Held(q, keys, FALSE) \in SUBSET Nat /\ IsFiniteSet(Held(q, keys, FALSE))
  BY <1>1, <1>2
<1> QED
  BY <1>3, SortedIs

\* The states of a scan over some keys, and those after a window.
ScanStates(q, keys) ==
    {a \in [results : Seq(Nat), used : Nat, keys : SUBSET keys] : Scans(q, a, keys)}
Shrunk(a, keys) == a.keys = {} \/ a.keys # keys
Advances(cur, want, a, b) ==
    /\ b.keys \in SUBSET a.keys
    /\ Stops(cur, want, a) => b = a
    /\ ~Stops(cur, want, a) => b.keys # a.keys

LEMMA ScanStatesAre ==
    ASSUME NEW q, IsQuery(q), NEW keys
    PROVE  \A a : a \in ScanStates(q, keys) <=> Scans(q, a, keys) /\ a.used \in Nat
<1>1. ASSUME NEW a, Scans(q, a, keys), a.used \in Nat PROVE a \in ScanStates(q, keys)
  <2>1. PICK r, u, k : r = a.results /\ u = a.used /\ k = a.keys
    OBVIOUS
  <2>2. a = [results |-> r, used |-> u, keys |-> k]
    BY <1>1, <2>1 DEF Scans
  <2>3. k \in SUBSET keys /\ Left(q, k) /\ u \in Nat /\ r = Sorted(Held(q, k, FALSE))
    BY <1>1, <2>1 DEF Scans
  <2>4. r \in Seq(Nat)
    BY <2>3, HeldSoFar
  <2>5. a \in [results : Seq(Nat), used : Nat, keys : SUBSET keys]
    BY <2>2, <2>3, <2>4
  <2> QED
    BY <1>1, <2>5 DEF ScanStates
<1> QED
  BY <1>1 DEF ScanStates

\* A window of the scan leaves fewer keys, unless the scan has stopped.
LEMMA OneWindowIs ==
    ASSUME NEW q, IsQuery(q), Incremental(q), NEW cur, cur.query = q, Recs(q) # {},
           NEW want \in Nat, NEW keys, NEW a \in ScanStates(q, keys), NEW n \in Nat,
           NEW b, b = OneWindow(cur, want, a, n)
    PROVE  b \in ScanStates(q, keys) /\ Advances(cur, want, a, b)
<1>1. Scans(q, a, keys) /\ a.used \in Nat
  BY ScanStatesAre
<1>2. CASE Stops(cur, want, a)
  <2>1. b = a
    BY <1>2 DEF OneWindow
  <2> QED
    BY <1>2, <2>1 DEF Advances
<1>3. CASE ~Stops(cur, want, a)
  <2>1. PICK seed \in Recs(q) : seed = CHOOSE t \in Recs(q) : TRUE
    OBVIOUS
  <2>2. PICK docs : docs = WindowDocs(q, seed, NextKeys(a.keys))
    OBVIOUS
  <2>3. b = [results |-> a.results \o Sorted(docs), used |-> n, keys |-> a.keys \ NextKeys(a.keys)]
    BY <1>3, <2>1, <2>2 DEF OneWindow
  <2>4. Scans(q, b, keys)
    BY <1>1, <2>2, <2>3, WindowKeeps
  <2>5. b.used = n /\ b.keys = a.keys \ NextKeys(a.keys)
    BY <2>3
  <2>6. a.keys \in SUBSET Nat /\ IsFiniteSet(a.keys) /\ a.keys # {}
    BY <1>1, <1>3 DEF Scans, Left, Stops
  <2>7. NextKeys(a.keys) \subseteq a.keys /\ NextKeys(a.keys) # {}
    BY <2>6, NextAreLowest
  <2>8. b \in ScanStates(q, keys)
    BY <2>4, <2>5, ScanStatesAre
  <2> QED
    BY <1>3, <2>5, <2>7, <2>8 DEF Advances
<1> QED
  BY <1>2, <1>3

\* The scan of one call: a new state of the cursor, with fewer keys to scan
\* or none.
LEMMA ScannedIs ==
    ASSUME NEW q, NEW cur, IsCursor(cur, q), Incremental(q), ~cur.done,
           NEW want \in Nat, Len(cur.results) < want, NEW new, new = Scanned(cur, want)
    PROVE  /\ IsCursor(new, q)
           /\ new.keys \in SUBSET cur.keys
           /\ new.done \/ new.keys # cur.keys
<1> DEFINE W == WindowsPerCall
           K == cur.keys
           V == ScanStates(q, K)
           seq == [n \in 1 .. W |-> n]
           Folds(g) == g = [s \in SUBSET DOMAIN seq |->
                              IF s = {} THEN Start(cur)
                              ELSE OneWindow(cur, want, g[s \ {Max(s)}], seq[Max(s)])]
<1>1. W \in Nat /\ W >= 1 /\ DOMAIN seq = 1 .. W
  BY CatalogAssumption
<1>2. /\ IsQuery(q) /\ cur.query = q /\ Recs(q) # {} /\ Left(q, K)
      /\ cur.results = Sorted(Held(q, K, FALSE)) /\ cur.head = Within(Matching(q), {0})
  <2>1. PICK k : k = K
    OBVIOUS
  <2>2. cur.done = FALSE
    BY DEF IsCursor
  <2>3. cur = [query |-> q, head |-> Within(Matching(q), {0}), results |-> Sorted(Held(q, k, FALSE)),
               keys |-> k, done |-> FALSE]
    BY <2>1, <2>2 DEF IsCursor
  <2>4. IsQuery(q) /\ Recs(q) # {} /\ Left(q, k)
    BY <2>1 DEF IsCursor
  <2> HIDE DEF K
  <2> QED
    BY <2>1, <2>3, <2>4
<1>3. Start(cur) \in V
  <2>1. PICK a : a = Start(cur)
    OBVIOUS
  <2>2. /\ a = [results |-> a.results, used |-> a.used, keys |-> a.keys]
        /\ a.results = cur.results /\ a.keys = K /\ a.used = 0
    BY <2>1 DEF Start
  <2> HIDE DEF K
  <2>3. Scans(q, a, K)
    BY <1>2, <2>2 DEF Scans
  <2> QED
    BY <1>2, <2>1, <2>2, <2>3, ScanStatesAre
<1>4. ASSUME NEW a \in V, NEW n \in 1 .. W, NEW b, b = OneWindow(cur, want, a, n)
      PROVE  b \in V /\ Advances(cur, want, a, b)
  <2>1. n \in Nat
    OBVIOUS
  <2> HIDE DEF K
  <2> QED
    BY <1>2, <1>4, <2>1, OneWindowIs
<1> HIDE DEF W, V
<1>5. \E g : Folds(g)
  <2> DEFINE H == [p \in (1 .. W) \X V |-> OneWindow(cur, want, p[2], p[1])]
             c == [s \in SUBSET (1 .. W) |-> Max(s)]
  <2>1. H \in [(1 .. W) \X V -> V]
    BY <1>4
  <2>2. IsFiniteSet(1 .. W) /\ Picks(c, 1 .. W)
    BY <1>1, GreatestPicks
  <2> HIDE DEF H, c
  <2>3. PICK g \in [SUBSET (1 .. W) -> V] : IsFold(g, 1 .. W, Start(cur), H, c)
    BY <1>3, <2>1, <2>2, FoldExists
  <2>4. ASSUME NEW s \in SUBSET (1 .. W), s # {}
        PROVE  g[s] = OneWindow(cur, want, g[s \ {Max(s)}], seq[Max(s)])
    <3>1. PICK x : x = Max(s)
      OBVIOUS
    <3>2. c[s] = x /\ x \in 1 .. W
      BY <2>2, <2>4, <3>1 DEF c, Picks
    <3>3. g[s] = H[<<x, g[s \ {x}]>>] /\ g[s \ {x}] \in V
      BY <2>3, <2>4, <3>2 DEF IsFold
    <3>4. g[s] = OneWindow(cur, want, g[s \ {x}], x) /\ seq[x] = x
      BY <3>2, <3>3 DEF H
    <3> QED
      BY <3>1, <3>4
  <2>5. g[{}] = Start(cur)
    BY <2>3 DEF IsFold
  <2>6. g = [s \in SUBSET (1 .. W) |-> g[s]]
    BY <2>3
  <2> HIDE DEF seq
  <2>7. Folds(g)
    BY <1>1, <2>4, <2>5, <2>6
  <2> QED
    BY <2>7
<1>6. PICK a : a = (CHOOSE g : Folds(g))[DOMAIN seq]
  OBVIOUS
<1>7. new = [cur EXCEPT !.results = a.results, !.keys = a.keys, !.done = a.keys = {}]
  BY <1>6 DEF Scanned, FoldLeft, MapThenFoldSet, OneWindow, Stops, Start, W
<1>8. Folds(CHOOSE g : Folds(g))
  <2> HIDE DEF Folds
  <2> QED
    BY <1>5
<1>9. PICK g : Folds(g) /\ a = g[1 .. W]
  <2> HIDE DEF Folds, seq
  <2> QED
    BY <1>1, <1>6, <1>8
<1>10. g[{}] = Start(cur) /\ \A k \in 1 .. W : g[1 .. k] = OneWindow(cur, want, g[1 .. k - 1], k)
  <2>1. \A s \in SUBSET (1 .. W) : g[s] = IF s = {} THEN Start(cur)
                              ELSE OneWindow(cur, want, g[s \ {Max(s)}], seq[Max(s)])
    BY <1>1, <1>9
  <2>2. ASSUME NEW k \in 1 .. W PROVE g[1 .. k] = OneWindow(cur, want, g[1 .. k - 1], k)
    <3>1. /\ 1 .. k \in SUBSET (1 .. W) /\ 1 .. k # {}
          /\ Max(1 .. k) = k /\ (1 .. k) \ {k} = 1 .. k - 1
      BY <1>1, InOrder
    <3>2. g[1 .. k] = OneWindow(cur, want, g[(1 .. k) \ {Max(1 .. k)}], seq[Max(1 .. k)])
      BY <2>1, <3>1
    <3> QED
      BY <3>1, <3>2
  <2>3. {} \in SUBSET (1 .. W)
    OBVIOUS
  <2> QED
    BY <2>1, <2>2, <2>3
<1> DEFINE P == {k \in 0 .. W : g[1 .. k] \in V /\ (k # 0 => Shrunk(g[1 .. k], K))}
<1>11. 0 \in P
  BY <1>1, <1>3, <1>10, InOrder
<1>12. ASSUME NEW k \in 1 .. W, k - 1 \in P PROVE k \in P
  <2>1. PICK x : x = g[1 .. k - 1]
    OBVIOUS
  <2>2. PICK y : y = OneWindow(cur, want, x, k) /\ y = g[1 .. k]
    BY <1>10, <2>1
  <2>3. x \in V /\ (k - 1 # 0 => Shrunk(x, K))
    BY <1>12, <2>1
  <2> HIDE DEF P, K
  <2>5. /\ y \in V /\ y.keys \in SUBSET x.keys
        /\ Stops(cur, want, x) => y = x
        /\ ~Stops(cur, want, x) => y.keys # x.keys
    BY <1>4, <2>2, <2>3 DEF Advances
  <2>6. x.keys \in SUBSET K
    BY <2>3 DEF V, ScanStates
  <2>7. Shrunk(y, K)
    <3>1. CASE k = 1
      <4>1. x = Start(cur)
        BY <1>10, <2>1, <3>1, InOrder
      <4>2. x.results = cur.results /\ x.keys = K /\ x.used = 0
        BY <4>1 DEF Start, K
      <4>3. Stops(cur, want, x) => K = {}
        <5>1. Len(cur.results) \in Nat
          <6>1. PICK h : h = Held(q, K, FALSE)
            OBVIOUS
          <6>2. h \in SUBSET Nat /\ IsFiniteSet(h)
            <7>1. PICK no \in BOOLEAN : no = FALSE
              OBVIOUS
            <7>2. h = Held(q, K, no)
              BY <6>1, <7>1
            <7> HIDE DEF K
            <7> QED
              BY ONLY <1>2, <7>1, <7>2, HeldIs
          <6>3. Len(Sorted(h)) \in Nat
            BY <6>2, SortedIs
          <6> QED
            BY <1>2, <6>1, <6>3
        <5> QED
          BY <4>2, <5>1 DEF Stops
      <4> QED
        BY <2>5, <4>2, <4>3 DEF Shrunk
    <3>2. CASE k # 1
      <4>1. Shrunk(x, K)
        BY <2>3, <3>2
      <4> QED
        BY <2>5, <2>6, <4>1 DEF Shrunk
    <3> QED
      BY <3>1, <3>2
  <2>8. k \in 0 .. W
    OBVIOUS
  <2> QED
    BY <2>2, <2>5, <2>7, <2>8 DEF P
<1>13. W \in P
  <2> HIDE DEF P
  <2>1. 0 .. W \subseteq P
    BY <1>1, <1>11, <1>12, UptoInduction
  <2> QED
    BY <1>1, <2>1
<1>14. a \in V /\ Shrunk(a, K)
  <2>1. g[1 .. W] \in V /\ (W # 0 => Shrunk(g[1 .. W], K))
    BY <1>13
  <2>2. W # 0
    BY <1>1
  <2>3. a = g[1 .. W]
    BY <1>9
  <2> HIDE DEF P, K
  <2> QED
    BY <2>1, <2>2, <2>3
<1>15. Scans(q, a, K)
  BY <1>2, <1>14, ScanStatesAre DEF V
<1>16. /\ new.keys = a.keys /\ new.done = (a.keys = {}) /\ new.done \in BOOLEAN
       /\ new = [query |-> q, head |-> Within(Matching(q), {0}), results |-> a.results,
                 keys |-> new.keys, done |-> new.done]
  BY <1>2, <1>7 DEF IsCursor
<1>17. a.results = Sorted(Held(q, new.keys, new.done))
  <2>1. Held(q, {}, FALSE) = Held(q, {}, TRUE)
    BY DEF Held
  <2> QED
    BY <1>15, <1>16, <2>1 DEF Scans
<1>18. IsCursor(new, q)
  BY <1>2, <1>15, <1>16, <1>17 DEF IsCursor, Scans
<1> QED
  BY <1>14, <1>15, <1>16, <1>18 DEF Shrunk, Scans

\* What a call to `ensure` does: the cursor of the same query, and closer to the
\* end of its tail unless it had enough.
Closer(cur, want, new) ==
    /\ new.keys \in SUBSET cur.keys
    /\ new.done \/ new.keys # cur.keys \/ Len(cur.results) >= want

LEMMA EnsuredIs ==
    ASSUME NEW q, NEW cur, IsCursor(cur, q), NEW want \in Nat, NEW new, new = Ensured(cur, want)
    PROVE  IsCursor(new, q) /\ Closer(cur, want, new)
<1>1. IsQuery(q) /\ Left(q, cur.keys) /\ cur.query = q /\ cur.done \in BOOLEAN
  BY DEF IsCursor
<1>2. Len(cur.results) \in Nat
  <2>1. PICK H : H = Held(q, cur.keys, cur.done)
    OBVIOUS
  <2>2. H \in SUBSET Nat /\ IsFiniteSet(H)
    BY <1>1, <2>1, HeldIs
  <2>3. cur.results = Sorted(H)
    BY <2>1 DEF IsCursor
  <2> QED
    BY <2>2, <2>3, SortedIs
<1>3. CASE cur.done \/ want <= Len(cur.results)
  <2>1. new = cur
    BY <1>3 DEF Ensured
  <2> QED
    BY <1>2, <1>3, <2>1 DEF Closer
<1>4. CASE ~cur.done /\ ~(want <= Len(cur.results)) /\ Incremental(q)
  <2>1. new = Scanned(cur, want)
    BY <1>1, <1>4 DEF Ensured, Incremental
  <2>2. Len(cur.results) < want /\ ~cur.done /\ Incremental(q)
    BY <1>2, <1>4
  <2> QED
    BY <2>1, <2>2, ScannedIs DEF Closer
<1>5. CASE ~cur.done /\ ~(want <= Len(cur.results)) /\ ~Incremental(q)
  <2> DEFINE M == Matching(q)
             head == Within(M, {0})
             tail == {d \in M : Bucket(d) >= 1}
  <2>1. cur.done = FALSE /\ Recs(q) # {}
    BY <1>1, <1>5 DEF IsCursor
  <2>2. PICK seed \in Recs(q) : seed = CHOOSE t \in Recs(q) : TRUE
    BY <2>1
  <2>3. PICK docs : docs = WholeTail(q, seed)
    OBVIOUS
  <2>4. new = [cur EXCEPT !.results = @ \o Sorted(docs), !.done = TRUE]
    BY <1>1, <1>5, <2>2, <2>3 DEF Ensured, Incremental
  <2>5. docs = tail /\ M \in SUBSET Nat /\ IsFiniteSet(M)
    BY <1>1, <2>3, Pieces
  <2>6. \A d \in M : Bucket(d) \in Nat
    BY <2>5, BucketsAscend
  <2>7. head \union tail = M /\ \A a \in head, b \in tail : Bucket(a) < Bucket(b)
    BY <2>6 DEF Within
  <2>8. head \in SUBSET Nat /\ tail \in SUBSET Nat /\ IsFiniteSet(head) /\ IsFiniteSet(tail)
    BY <2>5, FS_Subset DEF Within
  <2> HIDE DEF M, head, tail
  <2>9. \A a \in head, b \in tail : a < b
    BY <2>7, <2>8, BucketsAscend
  <2>10. Sorted(head) \o Sorted(tail) = Sorted(M)
    BY <2>7, <2>8, <2>9, SortedJoins
  <2>11. cur.results = Sorted(head)
    BY <1>5, <2>1 DEF IsCursor, Held, head, M
  <2>12. PICK k : k = cur.keys
    OBVIOUS
  <2>13. new = [query |-> q, head |-> head, results |-> Sorted(M), keys |-> k, done |-> TRUE]
    <3>1. cur = [query |-> q, head |-> head, results |-> Sorted(head), keys |-> k, done |-> FALSE]
      BY <2>1, <2>11, <2>12 DEF IsCursor, head, M
    <3> QED
      BY <2>4, <2>5, <2>10, <3>1
  <2>14. Held(q, k, TRUE) = M
    BY DEF Held, M
  <2>15. new.keys = k /\ new.done = TRUE
    BY <2>13
  <2>16. new = [query |-> q, head |-> Within(Matching(q), {0}), results |-> Sorted(Held(q, new.keys, new.done)),
                keys |-> new.keys, done |-> new.done]
    BY <2>13, <2>14, <2>15 DEF head, M
  <2>17. IsCursor(new, q)
    BY <1>1, <2>1, <2>12, <2>15, <2>16 DEF IsCursor
  <2> QED
    BY <2>12, <2>15, <2>17 DEF Closer
<1> QED
  BY <1>3, <1>4, <1>5

------------------------------------------------------------------------------
(* Pages.                                                                     *)

\* s, of the documents r, is what the page w of `all` begins with, and the whole
\* page when it is full; otherwise r ends in it.
BeginsPage(r, end, limit, s, w) ==
    /\ Len(s) \in Nat /\ IsPrefix(s, w)
    /\ Len(s) >= limit => s = w
    /\ Len(s) < limit => Len(r) < end
    /\ Len(s) >= limit /\ limit # 0 => Len(r) >= end

\* u is the page of the list t from offset on, and m where it ends.
PageOf(t, offset, limit, m, u) ==
    /\ m \in Nat /\ m <= offset + limit /\ m <= Len(t) /\ (m = offset + limit \/ m = Len(t))
    /\ u \in Seq(Nat) /\ Len(u) = IF offset < m THEN m - offset ELSE 0
    /\ \A i \in 1 .. Len(u) : u[i] = t[offset + i]

\* What SubSeq cuts is the page.
LEMMA CutIsPage ==
    ASSUME NEW t \in Seq(Nat), NEW offset \in Nat, NEW limit \in Nat,
           NEW m, m = Min({offset + limit, Len(t)}),
           NEW u, u = SubSeq(t, offset + 1, m)
    PROVE  PageOf(t, offset, limit, m, u)
<1>1. Len(t) \in Nat
  BY LenProperties
<1>2. /\ m \in {offset + limit, Len(t)} /\ \A x \in {offset + limit, Len(t)} : m <= x
  <2>1. {offset + limit, Len(t)} \in SUBSET Nat /\ {offset + limit, Len(t)} # {}
    BY <1>1
  <2> QED
    BY <2>1, MinIsLeast
<1>3. m \in Nat /\ m <= offset + limit /\ m <= Len(t) /\ (m = offset + limit \/ m = Len(t))
  BY <1>1, <1>2
<1>4. \A i \in offset + 1 .. m : t[i] \in Nat
  <2>1. \A i \in offset + 1 .. m : i \in 1 .. Len(t)
    BY <1>1, <1>3
  <2> QED
    BY <2>1, ElementOfSeq
<1>5. /\ u \in Seq(Nat)
      /\ Len(u) = IF offset + 1 <= m THEN m - (offset + 1) + 1 ELSE 0
      /\ \A i \in 1 .. m - (offset + 1) + 1 : u[i] = t[offset + 1 + i - 1]
  <2>1. PICK f \in Int : f = offset + 1
    OBVIOUS
  <2>2. m \in Int /\ \A i \in f .. m : t[i] \in Nat
    BY ONLY <1>3, <1>4, <2>1
  <2>3. u = SubSeq(t, f, m)
    BY <2>1
  <2>4. /\ u \in Seq(Nat) /\ Len(u) = IF f <= m THEN m - f + 1 ELSE 0
        /\ \A i \in 1 .. m - f + 1 : u[i] = t[f + i - 1]
    BY ONLY <2>1, <2>2, <2>3, SubSeqProperties
  <2> QED
    BY <2>1, <2>4
<1>6. Len(u) = IF offset < m THEN m - offset ELSE 0
  BY ONLY <1>3, <1>5, offset \in Nat
<1>7. ASSUME NEW i \in 1 .. Len(u) PROVE u[i] = t[offset + i]
  <2>1. i \in 1 .. m - (offset + 1) + 1 /\ offset + 1 + i - 1 = offset + i
    BY <1>3, <1>6
  <2> QED
    BY <1>5, <2>1
<1> QED
  BY <1>3, <1>5, <1>6, <1>7 DEF PageOf

\* A page cut from an initial part is an initial part of the page.
LEMMA CutsAre ==
    ASSUME NEW r \in Seq(Nat), NEW all \in Seq(Nat), IsPrefix(r, all),
           NEW offset \in Nat, NEW limit \in Nat,
           NEW s, s = SubSeq(r, offset + 1, Min({offset + limit, Len(r)})),
           NEW w, w = SubSeq(all, offset + 1, Min({offset + limit, Len(all)}))
    PROVE  BeginsPage(r, offset + limit, limit, s, w)
<1>1. Len(r) \in Nat /\ Len(all) \in Nat
  BY LenProperties
<1>2. Len(r) <= Len(all) /\ \A i \in 1 .. Len(r) : r[i] = all[i]
  <2>1. Cursor!IsPrefix(r, all)
    BY SameLists
  <2> QED
    BY <2>1, CursorAssumptions, Cursor!PrefixIs
<1>3. PICK a, b : a = Min({offset + limit, Len(r)}) /\ b = Min({offset + limit, Len(all)})
  OBVIOUS
<1>4. s = SubSeq(r, offset + 1, a) /\ w = SubSeq(all, offset + 1, b)
  BY <1>3
<1>5. PageOf(r, offset, limit, a, s) /\ PageOf(all, offset, limit, b, w)
  BY <1>3, <1>4, CutIsPage
<1>6. a \in Nat /\ a <= offset + limit /\ a <= Len(r) /\ (a = offset + limit \/ a = Len(r))
  BY <1>5 DEF PageOf
<1>7. b \in Nat /\ b <= offset + limit /\ b <= Len(all) /\ (b = offset + limit \/ b = Len(all))
  BY <1>5 DEF PageOf
<1>8. s \in Seq(Nat) /\ \A i \in 1 .. Len(s) : s[i] = r[offset + i]
  BY <1>5 DEF PageOf
<1>9. w \in Seq(Nat) /\ \A i \in 1 .. Len(w) : w[i] = all[offset + i]
  BY <1>5 DEF PageOf
<1>10. Len(s) = IF offset < a THEN a - offset ELSE 0
  BY <1>5 DEF PageOf
<1>11. Len(w) = IF offset < b THEN b - offset ELSE 0
  BY <1>5 DEF PageOf
<1>12. Len(r) <= Len(all)
  BY <1>2
<1>13. /\ Len(s) \in Nat /\ Len(w) \in Nat /\ Len(s) <= Len(w)
       /\ \A i \in 1 .. Len(s) : i \in 1 .. Len(w) /\ offset + i \in 1 .. Len(r)
       /\ Len(s) >= limit => Len(s) = Len(w)
       /\ Len(s) < limit => Len(r) < offset + limit
       /\ Len(s) >= limit /\ limit # 0 => Len(r) >= offset + limit
  <2>1. PICK ls, lw, lr, la : ls = Len(s) /\ lw = Len(w) /\ lr = Len(r) /\ la = Len(all)
    OBVIOUS
  <2>2. /\ lr \in Nat /\ la \in Nat /\ lr <= la
        /\ a \in Nat /\ a <= offset + limit /\ a <= lr /\ (a = offset + limit \/ a = lr)
        /\ b \in Nat /\ b <= offset + limit /\ b <= la /\ (b = offset + limit \/ b = la)
        /\ ls = IF offset < a THEN a - offset ELSE 0
        /\ lw = IF offset < b THEN b - offset ELSE 0
    BY <1>1, <1>6, <1>7, <1>10, <1>11, <1>12, <2>1
  <2>3. /\ ls \in Nat /\ lw \in Nat /\ ls <= lw
        /\ \A i \in 1 .. ls : i \in 1 .. lw /\ offset + i \in 1 .. lr
        /\ ls >= limit => ls = lw
        /\ ls < limit => lr < offset + limit
        /\ ls >= limit /\ limit # 0 => lr >= offset + limit
    BY <2>2
  <2> QED
    BY <2>1, <2>3
<1>14. ASSUME NEW i \in 1 .. Len(s) PROVE s[i] = w[i]
  <2>1. \A j \in 1 .. Len(s) : j \in 1 .. Len(w) /\ offset + j \in 1 .. Len(r)
    BY <1>13
  <2>2. i \in 1 .. Len(w) /\ offset + i \in 1 .. Len(r)
    BY <2>1
  <2> QED
    BY <1>2, <1>8, <1>9, <2>2
<1>15. IsPrefix(s, w)
  <2>1. Cursor!IsPrefix(s, w)
    BY <1>8, <1>9, <1>13, <1>14, CursorAssumptions, Cursor!PrefixIs
  <2> QED
    BY <2>1, SameLists
<1>16. Len(s) >= limit => s = w
  BY <1>8, <1>9, <1>13, <1>14, SeqEqual
<1> QED
  BY <1>13, <1>15, <1>16 DEF BeginsPage

\* The page s of a cursor, next to the page w of the whole answer.
TakesPage(cur, q, end, limit, s, w) ==
    /\ BeginsPage(cur.results, end, limit, s, w)
    /\ cur.done => s = w
    /\ Len(cur.results) <= Cardinality(Matching(q))
    /\ cur.done => Len(cur.results) = Cardinality(Matching(q))

LEMMA SliceIs ==
    ASSUME NEW q, NEW cur, IsCursor(cur, q), NEW offset \in Nat, NEW limit \in Nat,
           NEW all, all = Sorted(Matching(q)),
           NEW s, s = Slice(cur, offset, limit),
           NEW w, w = SubSeq(all, offset + 1, Min({offset + limit, Len(all)}))
    PROVE  TakesPage(cur, q, offset + limit, limit, s, w)
<1>1. IsQuery(q) /\ Left(q, cur.keys) /\ cur.done \in BOOLEAN
  BY DEF IsCursor
<1>2. PICK H : H = Held(q, cur.keys, cur.done)
  OBVIOUS
<1>3. /\ H \in SUBSET Matching(q) /\ H \in SUBSET Nat /\ IsFiniteSet(H)
      /\ Matching(q) \in SUBSET Nat /\ IsFiniteSet(Matching(q))
      /\ IsPrefix(Sorted(H), all)
  BY <1>1, <1>2, HeldIs
<1>4. PICK r : r = cur.results
  OBVIOUS
<1>5. r = Sorted(H)
  BY <1>2, <1>4 DEF IsCursor
<1>6. /\ r \in Seq(Nat) /\ Len(r) = Cardinality(H) /\ Cardinality(H) \in Nat
      /\ all \in Seq(Nat) /\ Len(all) = Cardinality(Matching(q))
  BY <1>3, <1>5, SortedIs
<1>7. IsPrefix(r, all)
  BY <1>3, <1>5
<1>8. s = SubSeq(r, offset + 1, Min({offset + limit, Len(r)}))
  BY <1>4 DEF Slice
<1>9. BeginsPage(r, offset + limit, limit, s, w)
  BY <1>6, <1>7, <1>8, CutsAre
<1>11. cur.done => r = all /\ H = Matching(q)
  BY <1>2, <1>5 DEF Held
<1>12. cur.done => s = w
  BY <1>8, <1>11
<1>13. Cardinality(H) <= Cardinality(Matching(q))
  BY <1>3, FS_Subset
<1>14. Len(cur.results) <= Cardinality(Matching(q)) /\ (cur.done => Len(cur.results) = Cardinality(Matching(q)))
  BY <1>4, <1>6, <1>11, <1>13
<1> QED
  BY <1>4, <1>9, <1>12, <1>14 DEF TakesPage

------------------------------------------------------------------------------
(* The server's rounds: its page is full, its tail done, or a key gone.       *)

Full(cur, offset, limit) == Len(Slice(cur, offset, limit)) >= limit
OneRound(c, n, offset, limit) ==
    IF n = 0 \/ (Len(Slice(c, offset, limit)) < limit /\ ~c.done)
    THEN Ensured(c, offset + limit) ELSE c

\* The cursors a request may be at, and how far it is after k rounds.
CursorStates(q, keys) ==
    {c \in [query : {q}, head : SUBSET Nat, results : Seq(Nat), keys : SUBSET keys, done : BOOLEAN] :
        IsCursor(c, q)}
After(c, k, keys, offset, limit) ==
    c.done \/ Full(c, offset, limit) \/ Cardinality(c.keys) + k <= Cardinality(keys)

LEMMA CursorStatesAre ==
    ASSUME NEW q, NEW keys
    PROVE  \A c : c \in CursorStates(q, keys) <=> IsCursor(c, q) /\ c.keys \in SUBSET keys
<1>1. ASSUME NEW c, IsCursor(c, q), c.keys \in SUBSET keys PROVE c \in CursorStates(q, keys)
  <2>1. PICK h, r, k, d : h = Within(Matching(q), {0}) /\ r = c.results /\ k = c.keys /\ d = c.done
    OBVIOUS
  <2>2. c = [query |-> q, head |-> h, results |-> r, keys |-> k, done |-> d]
    BY <1>1, <2>1 DEF IsCursor
  <2>3. IsQuery(q) /\ Left(q, k) /\ d \in BOOLEAN /\ r = Sorted(Held(q, k, d)) /\ k \in SUBSET keys
    BY <1>1, <2>1 DEF IsCursor
  <2>4. r \in Seq(Nat)
    <3>1. PICK H : H = Held(q, k, d)
      OBVIOUS
    <3>2. H \in SUBSET Nat /\ IsFiniteSet(H)
      BY <2>3, <3>1, HeldIs
    <3> QED
      BY <2>3, <3>1, <3>2, SortedIs
  <2>5. h \in SUBSET Nat
    BY <2>1, <2>3, Pieces DEF Within
  <2>6. c \in [query : {q}, head : SUBSET Nat, results : Seq(Nat), keys : SUBSET keys, done : BOOLEAN]
    BY <2>2, <2>3, <2>4, <2>5
  <2> QED
    BY <1>1, <2>6 DEF CursorStates
<1> QED
  BY <1>1 DEF CursorStates

\* A round brings a request one key closer to its end.
LEMMA OneRoundIs ==
    ASSUME NEW q, NEW keys, IsFiniteSet(keys), NEW offset \in Nat, NEW limit \in Nat,
           NEW c \in CursorStates(q, keys), NEW n, NEW k \in Nat, After(c, k, keys, offset, limit),
           NEW b, b = OneRound(c, n, offset, limit)
    PROVE  b \in CursorStates(q, keys) /\ After(b, k + 1, keys, offset, limit)
<1>1. IsCursor(c, q) /\ c.keys \in SUBSET keys /\ c.done \in BOOLEAN
  <2>1. IsCursor(c, q) /\ c.keys \in SUBSET keys
    BY CursorStatesAre
  <2> QED
    BY <2>1 DEF IsCursor
<1>2. PICK want \in Nat : want = offset + limit
  OBVIOUS
<1>3. ASSUME NEW e, IsCursor(e, q)
      PROVE  /\ Len(Slice(e, offset, limit)) \in Nat
             /\ ~Full(e, offset, limit) => Len(e.results) < want
             /\ Full(e, offset, limit) /\ limit # 0 => want <= Len(e.results)
  <2>1. PICK all : all = Sorted(Matching(q))
    OBVIOUS
  <2>2. PICK s, w : s = Slice(e, offset, limit) /\ w = SubSeq(all, offset + 1, Min({offset + limit, Len(all)}))
    OBVIOUS
  <2>3. BeginsPage(e.results, offset + limit, limit, s, w)
    BY <1>3, <2>1, <2>2, SliceIs DEF TakesPage
  <2>4. /\ Len(s) \in Nat /\ (Len(s) < limit => Len(e.results) < want)
        /\ Len(s) >= limit /\ limit # 0 => Len(e.results) >= want
    BY <1>2, <2>3 DEF BeginsPage
  <2>5. Len(e.results) \in Nat
    BY <1>3, CursorStatesAre DEF CursorStates
  <2> QED
    BY <2>2, <2>4, <2>5 DEF Full
<1>4. CASE b = Ensured(c, want)
  <2>1. IsCursor(b, q) /\ Closer(c, want, b)
    BY <1>1, <1>4, EnsuredIs
  <2>2. b.keys \in SUBSET c.keys /\ b.keys \in SUBSET keys
    BY <1>1, <2>1 DEF Closer
  <2>3. b \in CursorStates(q, keys)
    BY <2>1, <2>2, CursorStatesAre
  <2>4. ASSUME ~b.done, ~Full(b, offset, limit) PROVE Cardinality(b.keys) + (k + 1) <= Cardinality(keys)
    <3>1. IsFiniteSet(c.keys) /\ Cardinality(c.keys) \in Nat /\ Cardinality(keys) \in Nat
      BY <1>1, FS_Subset, FS_CardinalityType
    <3>2. /\ IsFiniteSet(b.keys) /\ Cardinality(b.keys) \in Nat
          /\ Cardinality(b.keys) <= Cardinality(c.keys)
          /\ Cardinality(b.keys) = Cardinality(c.keys) => b.keys = c.keys
      BY <2>2, <3>1, FS_Subset, FS_CardinalityType
    <3>3. ~c.done /\ ~Full(c, offset, limit)
      <4>1. c.done \/ want <= Len(c.results) => b = c
        BY <1>4 DEF Ensured
      <4>2. ~c.done
        BY <2>4, <4>1
      <4>3. ASSUME Full(c, offset, limit) PROVE FALSE
        <5>1. ~(want <= Len(c.results))
          BY <2>4, <4>1, <4>3
        <5>2. CASE limit = 0
          <6>1. Len(Slice(b, offset, limit)) \in Nat
            BY <1>3, <2>1
          <6> QED
            BY <2>4, <5>2, <6>1 DEF Full
        <5>3. CASE limit # 0
          BY <1>1, <1>3, <4>3, <5>1, <5>3
        <5> QED
          BY <5>2, <5>3
      <4> QED
        BY <4>2, <4>3
    <3>4. Cardinality(c.keys) + k <= Cardinality(keys)
      BY <3>3 DEF After
    <3>5. Len(c.results) < want /\ b.keys # c.keys
      <4>1. Len(c.results) < want
        BY <1>1, <1>3, <3>3
      <4> QED
        BY <2>1, <2>4, <4>1 DEF Closer
    <3> QED
      BY <3>1, <3>2, <3>4, <3>5
  <2> QED
    BY <2>3, <2>4 DEF After
<1>5. CASE b = c /\ (c.done \/ Full(c, offset, limit))
  BY <1>5 DEF After
<1>6. b = Ensured(c, want) \/ (b = c /\ (c.done \/ Full(c, offset, limit)))
  BY <1>1, <1>2, <1>3 DEF OneRound, Full
<1> QED
  BY <1>4, <1>5, <1>6

\* The server's cursor when it stops asking: its page is full, or its tail done.
LEMMA AskedIs ==
    ASSUME NEW q, NEW cur, IsCursor(cur, q), NEW offset \in Nat, NEW limit \in Nat,
           NEW new, new = AskedUntilFull(cur, offset, limit)
    PROVE  IsCursor(new, q) /\ (new.done \/ Full(new, offset, limit))
<1> DEFINE K == cur.keys
           N == Cardinality(cur.keys) + 2
           V == CursorStates(q, K)
           seq == [n \in 1 .. N |-> n - 1]
           Folds(g) == g = [s \in SUBSET DOMAIN seq |->
                              IF s = {} THEN cur
                              ELSE OneRound(g[s \ {Max(s)}], seq[Max(s)], offset, limit)]
           Near(c, k) == After(c, k, K, offset, limit)
<1>1. IsFiniteSet(K) /\ Cardinality(K) \in Nat
  BY FS_CardinalityType DEF IsCursor, Left
<1>2. N \in Nat /\ DOMAIN seq = 1 .. N
  BY <1>1
<1>3. cur \in V
  <2>1. K \in SUBSET K
    OBVIOUS
  <2> QED
    BY <2>1, CursorStatesAre
<1>4. ASSUME NEW c \in V, NEW n \in Nat, NEW k \in Nat, Near(c, k), NEW b, b = OneRound(c, n, offset, limit)
      PROVE  b \in V /\ Near(b, k + 1)
  <2> HIDE DEF K
  <2> QED
    BY <1>1, <1>4, OneRoundIs
<1>5. ASSUME NEW c \in V, NEW n \in Nat PROVE OneRound(c, n, offset, limit) \in V
  <2>1. CASE OneRound(c, n, offset, limit) = c
    BY <2>1
  <2>2. CASE OneRound(c, n, offset, limit) = Ensured(c, offset + limit)
    <3>1. PICK want \in Nat : want = offset + limit
      OBVIOUS
    <3>2. PICK b : b = Ensured(c, want)
      OBVIOUS
    <3>3. IsCursor(c, q) /\ c.keys \in SUBSET K
      BY CursorStatesAre
    <3>4. IsCursor(b, q) /\ Closer(c, want, b)
      BY <3>2, <3>3, EnsuredIs
    <3>5. b.keys \in SUBSET K
      BY <3>3, <3>4 DEF Closer
    <3>6. b \in V
      BY <3>4, <3>5, CursorStatesAre
    <3> QED
      BY <2>2, <3>1, <3>2, <3>6
  <2> QED
    BY <2>1, <2>2 DEF OneRound
<1> HIDE DEF N, V
<1>6. \E g : Folds(g)
  <2> DEFINE H == [p \in (1 .. N) \X V |-> OneRound(p[2], p[1] - 1, offset, limit)]
             c == [s \in SUBSET (1 .. N) |-> Max(s)]
  <2>1. H \in [(1 .. N) \X V -> V]
    <3>1. \A n \in 1 .. N : n - 1 \in Nat
      OBVIOUS
    <3> QED
      BY <1>5, <3>1
  <2>2. IsFiniteSet(1 .. N) /\ Picks(c, 1 .. N)
    BY <1>2, GreatestPicks
  <2> HIDE DEF H, c
  <2>3. PICK g \in [SUBSET (1 .. N) -> V] : IsFold(g, 1 .. N, cur, H, c)
    BY <1>3, <2>1, <2>2, FoldExists
  <2>4. ASSUME NEW s \in SUBSET (1 .. N), s # {}
        PROVE  g[s] = OneRound(g[s \ {Max(s)}], seq[Max(s)], offset, limit)
    <3>1. PICK x : x = Max(s)
      OBVIOUS
    <3>2. c[s] = x /\ x \in 1 .. N
      BY <2>2, <2>4, <3>1 DEF c, Picks
    <3>3. g[s] = H[<<x, g[s \ {x}]>>] /\ g[s \ {x}] \in V
      BY <2>3, <2>4, <3>2 DEF IsFold
    <3>4. g[s] = OneRound(g[s \ {x}], x - 1, offset, limit) /\ seq[x] = x - 1
      BY <3>2, <3>3 DEF H
    <3> QED
      BY <3>1, <3>4
  <2>5. g[{}] = cur
    BY <2>3 DEF IsFold
  <2>6. g = [s \in SUBSET (1 .. N) |-> g[s]]
    BY <2>3
  <2> HIDE DEF seq
  <2>7. Folds(g)
    BY <1>2, <2>4, <2>5, <2>6
  <2> QED
    BY <2>7
<1>7. new = (CHOOSE g : Folds(g))[DOMAIN seq]
  BY DEF AskedUntilFull, FoldLeft, MapThenFoldSet, OneRound, N
<1>8. Folds(CHOOSE g : Folds(g))
  <2> HIDE DEF Folds
  <2> QED
    BY <1>6
<1>9. PICK g : Folds(g) /\ new = g[1 .. N]
  <2> HIDE DEF Folds, seq
  <2> QED
    BY <1>2, <1>7, <1>8
<1>10. g[{}] = cur /\ \A k \in 1 .. N : g[1 .. k] = OneRound(g[1 .. k - 1], k - 1, offset, limit)
  <2>1. \A s \in SUBSET (1 .. N) : g[s] = IF s = {} THEN cur
                              ELSE OneRound(g[s \ {Max(s)}], seq[Max(s)], offset, limit)
    BY <1>2, <1>9
  <2>2. ASSUME NEW k \in 1 .. N PROVE g[1 .. k] = OneRound(g[1 .. k - 1], k - 1, offset, limit)
    <3>1. /\ 1 .. k \in SUBSET (1 .. N) /\ 1 .. k # {}
          /\ Max(1 .. k) = k /\ (1 .. k) \ {k} = 1 .. k - 1
      BY <1>2, InOrder
    <3>2. g[1 .. k] = OneRound(g[(1 .. k) \ {Max(1 .. k)}], seq[Max(1 .. k)], offset, limit)
      BY <2>1, <3>1
    <3> QED
      BY <3>1, <3>2
  <2>3. {} \in SUBSET (1 .. N)
    OBVIOUS
  <2> QED
    BY <2>1, <2>2, <2>3
<1> DEFINE P == {k \in 0 .. N : g[1 .. k] \in V /\ Near(g[1 .. k], k)}
<1>11. 0 \in P
  <2>1. g[1 .. 0] = cur
    BY <1>10, InOrder
  <2>2. Near(cur, 0)
    BY <1>1 DEF After
  <2> QED
    BY <1>2, <1>3, <2>1, <2>2
<1>12. ASSUME NEW k \in 1 .. N, k - 1 \in P PROVE k \in P
  <2>1. PICK x : x = g[1 .. k - 1]
    OBVIOUS
  <2>2. PICK j \in Nat : j = k - 1 /\ j + 1 = k
    OBVIOUS
  <2>3. PICK y : y = OneRound(x, j, offset, limit) /\ y = g[1 .. k]
    BY <1>10, <2>1, <2>2
  <2>4. x \in V /\ Near(x, j)
    BY <1>12, <2>1, <2>2
  <2>5. k \in 0 .. N
    OBVIOUS
  <2> HIDE DEF P, K, Near
  <2>6. y \in V /\ Near(y, j + 1)
    BY <1>4, <2>3, <2>4
  <2>7. y \in V /\ Near(y, k)
    BY <2>2, <2>6
  <2> QED
    BY <2>3, <2>5, <2>7 DEF P
<1>13. N \in P
  <2> HIDE DEF P
  <2>1. 0 .. N \subseteq P
    BY <1>2, <1>11, <1>12, UptoInduction
  <2> QED
    BY <1>2, <2>1
<1>14. new \in V /\ Near(new, N)
  BY <1>9, <1>13
<1>15. IsCursor(new, q) /\ new.keys \in SUBSET K
  BY <1>14, CursorStatesAre DEF V
<1>16. ~(Cardinality(new.keys) + N <= Cardinality(K))
  <2>1. Cardinality(new.keys) \in Nat
    BY <1>1, <1>15, FS_Subset, FS_CardinalityType
  <2> QED
    BY <1>1, <2>1 DEF N
<1> QED
  BY <1>14, <1>15, <1>16 DEF After

------------------------------------------------------------------------------
(* The catalog.                                                               *)

\* A search in progress has a cursor of its query.
Searching ==
    search # None =>
        /\ search.offset \in Nat /\ search.limit \in Nat
        /\ IsCursor(search.cursor, search.cursor.query)

IInv == Searching /\ PageIsSound /\ ServedPageIsWindow

\* A query keeps its keys and postings when its filter is dropped.
LEMMA ResolvedIs ==
    ASSUME NEW q \in Queries
    PROVE  IsQuery(q) /\ IsQuery(Resolved(q))
<1>1. IsQuery(q) /\ {"keys", "post", "maxMissing"} \subseteq DOMAIN q
  BY QueriesAssumption
<1>2. PICK r : r = [q EXCEPT !.fields = {}, !.excludes = {}]
  OBVIOUS
<1>3. r.keys = q.keys /\ r.post = q.post /\ r.maxMissing = q.maxMissing
  BY <1>1, <1>2
<1>4. IsQuery(r)
  BY <1>1, <1>3 DEF IsQuery
<1> QED
  BY <1>1, <1>2, <1>4 DEF Resolved

PageIs(p, cur, q) ==
    /\ IsPrefix(p.ids, Window(p))
    /\ cur.done \/ Full(cur, p.offset, p.limit) => p.ids = Window(p)
    /\ Len(cur.results) <= Cardinality(Matching(q))
    /\ cur.done => Len(cur.results) = Cardinality(Matching(q))

\* A page cut from a cursor is sound, and is whole when the cursor has enough.
LEMMA PagesAre ==
    ASSUME NEW q, NEW cur, IsCursor(cur, q), NEW offset \in Nat, NEW limit \in Nat,
           NEW p, p.query = q, p.offset = offset, p.limit = limit, p.ids = Slice(cur, offset, limit)
    PROVE  PageIs(p, cur, q)
<1>1. PICK all : all = Sorted(Matching(q))
  OBVIOUS
<1>2. PICK s, w : s = Slice(cur, offset, limit) /\ w = SubSeq(all, offset + 1, Min({offset + limit, Len(all)}))
  OBVIOUS
<1>3. w = Window(p) /\ s = p.ids
  BY <1>1, <1>2 DEF Window
<1>4. TakesPage(cur, q, offset + limit, limit, s, w)
  BY <1>1, <1>2, SliceIs
<1>5. IsPrefix(s, w) /\ (Full(cur, offset, limit) => s = w)
  BY <1>2, <1>4 DEF TakesPage, BeginsPage, Full
<1> QED
  BY <1>3, <1>4, <1>5 DEF TakesPage, PageIs

LEMMA CatalogInit == Init => IInv
BY DEF Init, IInv, Searching, PageIsSound, ServedPageIsWindow

LEMMA CatalogStep ==
    ASSUME IInv, [Next]_vars
    PROVE  IInv'
<1> USE DEF IInv
<1>1. ASSUME UNCHANGED page PROVE PageIsSound' /\ ServedPageIsWindow'
  BY <1>1 DEF PageIsSound, ServedPageIsWindow, Window, HeadCounts, RecordOf
<1>2. ASSUME UNCHANGED search PROVE Searching'
  BY <1>2 DEF Searching
<1>3. ASSUME page' = None PROVE PageIsSound' /\ ServedPageIsWindow'
  BY <1>3 DEF PageIsSound, ServedPageIsWindow
<1>4. ASSUME search' = None PROVE Searching'
  BY <1>4 DEF Searching
<1>5. CASE Attach \/ Attached \/ AttachFails
  BY <1>1, <1>2, <1>5 DEF Attach, Attached, AttachFails
<1>6. CASE Search
  <2>1. PICK q \in Queries, offset \in Offsets, limit \in Limits :
            search' = [offset |-> offset, limit |-> limit, cursor |-> Fresh(Resolved(q))]
    BY <1>6 DEF Search
  <2>2. PICK r : r = Resolved(q)
    OBVIOUS
  <2>3. IsCursor(Fresh(r), r)
    BY <2>2, ResolvedIs, FreshIs
  <2>4. PICK c : c = Fresh(r)
    OBVIOUS
  <2>5. c.query = r /\ IsCursor(c, c.query)
    BY <2>3, <2>4 DEF IsCursor
  <2>6. search' = [offset |-> offset, limit |-> limit, cursor |-> c]
    BY <2>1, <2>2, <2>4
  <2>7. offset \in Nat /\ limit \in Nat
    BY CatalogAssumption
  <2>8. Searching'
    BY <2>5, <2>6, <2>7 DEF Searching
  <2> QED
    BY <1>1, <1>6, <2>8 DEF Search
<1>7. CASE Answer
  <2>1. PICK offset, limit, old : offset = search.offset /\ limit = search.limit /\ old = search.cursor
    OBVIOUS
  <2>2. offset \in Nat /\ limit \in Nat /\ IsCursor(old, old.query)
    BY <1>7, <2>1 DEF Answer, Searching
  <2>3. PICK want \in Nat : want = offset + limit
    BY <2>2
  <2>4. PICK cur : cur = Ensured(old, want)
    OBVIOUS
  <2>5. PICK q : q = old.query
    OBVIOUS
  <2>6. IsCursor(cur, q)
    BY <2>2, <2>4, <2>5, EnsuredIs
  <2>7. cur.query = q /\ cur.head = Within(Matching(q), {0})
    BY <2>6 DEF IsCursor
  <2>8. page' = Paged(cur)
    BY <1>7, <2>1, <2>3, <2>4 DEF Answer
  <2>9. PICK p : p = page'
    OBVIOUS
  <2>10. /\ p.query = q /\ p.offset = offset /\ p.limit = limit /\ p.ids = Slice(cur, offset, limit)
         /\ p.served = FALSE
         /\ p.records = IF "records" \in inner THEN << >> \o [i \in DOMAIN p.ids |-> RecordOf(p.ids[i])] ELSE None
         /\ p.counts = IF "facets" \in inner THEN HeadCounts(cur.head) ELSE None
    BY <2>1, <2>7, <2>8, <2>9 DEF Paged, FacetCounts
  <2>11. PageIs(p, cur, q)
    BY <2>2, <2>6, <2>10, PagesAre
  <2>12. PageIsSound'
    BY <2>7, <2>9, <2>10, <2>11 DEF PageIs, PageIsSound, Window, HeadCounts, RecordOf
  <2>13. ServedPageIsWindow'
    BY <2>9, <2>10 DEF ServedPageIsWindow
  <2> QED
    BY <1>4, <1>7, <2>12, <2>13 DEF Answer
<1>8. CASE SearchFails
  BY <1>1, <1>4, <1>8 DEF SearchFails
<1>9. CASE Serve
  <2>1. PICK q \in Queries, offset \in Offsets, limit \in Limits : \E cur :
            /\ cur = AskedUntilFull(Fresh(q), offset, limit)
            /\ page' = [query |-> q, offset |-> offset, limit |-> limit, served |-> TRUE,
                        ids |-> Slice(cur, offset, limit), records |-> None,
                        more |-> ~cur.done, total |-> Len(cur.results),
                        counts |-> IF offset = 0 THEN HeadCounts(cur.head) ELSE None]
    BY <1>9 DEF Serve
  <2>2. PICK cur :
            /\ cur = AskedUntilFull(Fresh(q), offset, limit)
            /\ page' = [query |-> q, offset |-> offset, limit |-> limit, served |-> TRUE,
                        ids |-> Slice(cur, offset, limit), records |-> None,
                        more |-> ~cur.done, total |-> Len(cur.results),
                        counts |-> IF offset = 0 THEN HeadCounts(cur.head) ELSE None]
    BY <2>1
  <2>3. offset \in Nat /\ limit \in Nat
    BY CatalogAssumption
  <2>4. IsCursor(Fresh(q), q)
    BY ResolvedIs, FreshIs
  <2>5. IsCursor(cur, q) /\ (cur.done \/ Full(cur, offset, limit))
    BY <2>2, <2>3, <2>4, AskedIs
  <2>6. cur.head = Within(Matching(q), {0})
    BY <2>5 DEF IsCursor
  <2>7. PICK p : p = page'
    OBVIOUS
  <2>8. /\ p.query = q /\ p.offset = offset /\ p.limit = limit /\ p.ids = Slice(cur, offset, limit)
        /\ p.served = TRUE /\ p.records = None /\ p.more = ~cur.done /\ p.total = Len(cur.results)
        /\ p.counts = IF offset = 0 THEN HeadCounts(cur.head) ELSE None
    BY <2>2, <2>7
  <2>9. PageIs(p, cur, q)
    BY <2>3, <2>5, <2>8, PagesAre
  <2>10. /\ IsPrefix(p.ids, Window(p)) /\ p.ids = Window(p)
        /\ IF ~cur.done THEN Len(cur.results) <= Cardinality(Matching(q))
                        ELSE Len(cur.results) = Cardinality(Matching(q))
    BY <2>5, <2>8, <2>9 DEF PageIs
  <2>11. PageIsSound'
    BY <2>6, <2>7, <2>8, <2>10 DEF PageIsSound, Window, HeadCounts, RecordOf
  <2>12. ServedPageIsWindow'
    BY <2>7, <2>8, <2>10 DEF ServedPageIsWindow, Window
  <2> QED
    BY <1>2, <1>9, <2>11, <2>12 DEF Serve
<1>10. CASE Close
  BY <1>2, <1>3, <1>10 DEF Close
<1>11. CASE UNCHANGED vars
  BY <1>1, <1>2, <1>11 DEF vars
<1> QED
  BY <1>5, <1>6, <1>7, <1>8, <1>9, <1>10, <1>11 DEF Next

LEMMA CatalogInvariant == Spec => []IInv
BY CatalogInit, CatalogStep, PTL DEF Spec

\* PageIsSound for all queries, pages, buckets and sidecars: no page of the
\* facade (Catalog::search) or of the server holds a document out of its place.
THEOREM PagesAreSound == Spec => []PageIsSound
<1>1. IInv => PageIsSound
  BY DEF IInv
<1> QED
  BY <1>1, CatalogInvariant, PTL

\* ServedPageIsWindow for all of them: the server's rounds end with the whole
\* page, and its total is exact when it says there are no more.
THEOREM ServedPagesAreWindows == Spec => []ServedPageIsWindow
<1>1. IInv => ServedPageIsWindow
  BY DEF IInv
<1> QED
  BY <1>1, CatalogInvariant, PTL
==============================================================================
