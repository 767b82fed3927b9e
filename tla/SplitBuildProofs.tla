--------------------------- MODULE SplitBuildProofs ---------------------------
(****************************************************************************)
(* Proofs about the batch builder, for every corpus, byte cap and word      *)
(* width: the ranges, the caps, what the files hold; and, with the lemmas   *)
(* of SplitSearchProofs, what a reader of the finished set answers.         *)
(****************************************************************************)
EXTENDS BuildSearch, NatSetLemmas

------------------------------------------------------------------------------
(* The shape of the builder: its fields, whose values matter to the ranges   *)
(* only where they count documents.                                          *)

IsBuilder(s) ==
    /\ s = [open |-> s.open, openFacets |-> s.openFacets, openCount |-> s.openCount,
            globalBase |-> s.globalBase, nextGlobalId |-> s.nextGlobalId,
            postingsUpper |-> s.postingsUpper, hasFacets |-> s.hasFacets,
            specs |-> s.specs, blobs |-> s.blobs, facetBlobs |-> s.facetBlobs]
    /\ s.openCount \in Nat /\ s.globalBase \in Nat /\ s.nextGlobalId \in Nat
    /\ s.specs \in Seq({s.specs[i] : i \in DOMAIN s.specs})
    /\ \A i \in DOMAIN s.specs : s.specs[i].lo \in Nat /\ s.specs[i].hi \in Nat

\* RangesTile without the corpus, of any builder.
Tiles(s) ==
    /\ \A i \in DOMAIN s.specs :
         /\ s.specs[i].lo = IF i = 1 THEN 0 ELSE s.specs[i - 1].hi + 1
         /\ s.specs[i].hi = s.specs[i].lo + s.specs[i].docCount - 1
         /\ s.specs[i].docCount > 0
    /\ s.globalBase = IF s.specs = << >> THEN 0 ELSE s.specs[Len(s.specs)].hi + 1
    /\ s.nextGlobalId = s.globalBase + s.openCount

\* The fields of the builder once its open split is sealed
\* (SplitSetBuilder::seal).
LEMMA SealedFields ==
    ASSUME IsBuilder(b), b.openCount # 0
    PROVE  /\ Sealed.open = [k \in Keys |-> {}] /\ Sealed.openFacets = [c \in Cats |-> {}]
           /\ Sealed.openCount = 0 /\ Sealed.postingsUpper = 0
           /\ Sealed.globalBase = b.nextGlobalId /\ Sealed.nextGlobalId = b.nextGlobalId
           /\ Sealed.specs = Append(b.specs, SealedSpec)
           /\ Sealed.blobs = Pushed(b.blobs, Len(b.specs), b.open)
           /\ Sealed.facetBlobs = IF Present(b.openFacets) = {} THEN b.facetBlobs
                                  ELSE Pushed(b.facetBlobs, Len(b.specs), b.openFacets)
<1> DEFINE e == SealedSpec
           bb == Pushed(b.blobs, Len(b.specs), b.open)
           fb == IF Present(b.openFacets) = {} THEN b.facetBlobs
                 ELSE Pushed(b.facetBlobs, Len(b.specs), b.openFacets)
<1>1. Sealed = [open |-> [k \in Keys |-> {}], openFacets |-> [c \in Cats |-> {}],
                  openCount |-> 0, globalBase |-> b.nextGlobalId,
                  nextGlobalId |-> b.nextGlobalId, postingsUpper |-> 0,
                  hasFacets |-> b.hasFacets, specs |-> Append(b.specs, e),
                  blobs |-> bb, facetBlobs |-> fb]
  BY DEF Sealed, IsBuilder
<1> HIDE DEF e, bb, fb
<1>2. /\ Sealed.open = [k \in Keys |-> {}] /\ Sealed.openFacets = [c \in Cats |-> {}]
      /\ Sealed.openCount = 0 /\ Sealed.postingsUpper = 0
      /\ Sealed.globalBase = b.nextGlobalId /\ Sealed.nextGlobalId = b.nextGlobalId
      /\ Sealed.specs = Append(b.specs, e) /\ Sealed.blobs = bb /\ Sealed.facetBlobs = fb
  BY <1>1
<1> QED
  BY <1>2 DEF e, bb, fb

\* The fields of a builder with one more document in its open split (the tail
\* of SplitSetBuilder::add_inner).
LEMMA InsertedFields ==
    ASSUME NEW s, IsBuilder(s), NEW doc
    PROVE  /\ Inserted(s, doc).open = Posted(s.open, doc.keys, s.openCount)
           /\ Inserted(s, doc).openFacets = Posted(s.openFacets, doc.cats, s.openCount)
           /\ Inserted(s, doc).postingsUpper = s.postingsUpper + 2 * Cardinality(doc.keys)
           /\ Inserted(s, doc).openCount = s.openCount + 1
           /\ Inserted(s, doc).globalBase = s.globalBase
           /\ Inserted(s, doc).specs = s.specs
           /\ Inserted(s, doc).blobs = s.blobs /\ Inserted(s, doc).facetBlobs = s.facetBlobs
<1> DEFINE t == Inserted(s, doc)
           upper == s.postingsUpper + 2 * Cardinality(doc.keys)
           seen == IF doc.cats = {} THEN s.hasFacets ELSE TRUE
           post == Posted(s.open, doc.keys, s.openCount)
           cats == Posted(s.openFacets, doc.cats, s.openCount)
<1>1. t = [s EXCEPT !.open = post,
                    !.openFacets = cats,
                    !.postingsUpper = upper, !.hasFacets = seen,
                    !.openCount = s.openCount + 1,
                    !.nextGlobalId = s.nextGlobalId + 1]
  BY Zenon DEF Inserted
<1> HIDE DEF t, upper, seen, post, cats
<1>2. /\ t.open = post /\ t.openFacets = cats
      /\ t.postingsUpper = upper /\ t.openCount = s.openCount + 1
      /\ t.globalBase = s.globalBase /\ t.specs = s.specs
      /\ t.blobs = s.blobs /\ t.facetBlobs = s.facetBlobs
  BY <1>1 DEF IsBuilder
<1> QED
  BY <1>2 DEF t, upper, post, cats

\* Sealing appends an entry for exactly the documents of the open split
\* (SplitSetBuilder::seal).
LEMMA SealingTiles ==
    ASSUME IsBuilder(b), Tiles(b)
    PROVE  IsBuilder(Sealed) /\ Tiles(Sealed) /\ Sealed.nextGlobalId = b.nextGlobalId
<1>1. CASE b.openCount = 0
  BY <1>1 DEF Sealed
<1>2. CASE b.openCount # 0
  <2> DEFINE n == Len(b.specs)
             e == SealedSpec
             old == {b.specs[i] : i \in DOMAIN b.specs}
             fb == IF Present(b.openFacets) = {} THEN b.facetBlobs
                   ELSE Pushed(b.facetBlobs, n, b.openFacets)
  <2>1. /\ e.lo = b.globalBase /\ e.hi = b.globalBase + b.openCount - 1
        /\ e.docCount = b.openCount
    BY DEF SealedSpec, SealedHi
  <2>2. b.openCount \in Nat /\ b.openCount > 0 /\ b.globalBase \in Nat
    BY <1>2 DEF IsBuilder
  <2>3. e.lo \in Nat /\ e.hi \in Nat /\ e.docCount > 0 /\ e.hi + 1 = b.nextGlobalId
    BY <2>1, <2>2 DEF Tiles
  <2>4. Sealed = [open |-> [k \in Keys |-> {}], openFacets |-> [c \in Cats |-> {}],
                  openCount |-> 0, globalBase |-> b.nextGlobalId,
                  nextGlobalId |-> b.nextGlobalId, postingsUpper |-> 0,
                  hasFacets |-> b.hasFacets, specs |-> Append(b.specs, e),
                  blobs |-> Pushed(b.blobs, n, b.open), facetBlobs |-> fb]
    BY <1>2 DEF Sealed, IsBuilder
  <2> HIDE DEF e, fb
  <2> DEFINE s == Sealed
  <2>5. /\ s.openCount = 0 /\ s.globalBase = b.nextGlobalId
        /\ s.nextGlobalId = b.nextGlobalId /\ s.specs = Append(b.specs, e)
        /\ s = [open |-> s.open, openFacets |-> s.openFacets, openCount |-> s.openCount,
                globalBase |-> s.globalBase, nextGlobalId |-> s.nextGlobalId,
                postingsUpper |-> s.postingsUpper, hasFacets |-> s.hasFacets,
                specs |-> s.specs, blobs |-> s.blobs, facetBlobs |-> s.facetBlobs]
    <3>1. PICK no, nof, g, p, bl, hf :
             /\ no = [k \in Keys |-> {}] /\ nof = [c \in Cats |-> {}] /\ g = b.nextGlobalId
             /\ p = Append(b.specs, e) /\ bl = Pushed(b.blobs, n, b.open) /\ hf = b.hasFacets
      OBVIOUS
    <3>2. Sealed = [open |-> no, openFacets |-> nof, openCount |-> 0, globalBase |-> g,
                    nextGlobalId |-> g, postingsUpper |-> 0, hasFacets |-> hf, specs |-> p,
                    blobs |-> bl, facetBlobs |-> fb]
      BY <2>4, <3>1
    <3> HIDE DEF s, n
    <3>3. s = [open |-> no, openFacets |-> nof, openCount |-> 0, globalBase |-> g,
               nextGlobalId |-> g, postingsUpper |-> 0, hasFacets |-> hf, specs |-> p,
               blobs |-> bl, facetBlobs |-> fb]
      BY ONLY <3>2 DEF s
    <3>4. /\ s.openCount = 0 /\ s.globalBase = g /\ s.nextGlobalId = g /\ s.specs = p
          /\ s = [open |-> s.open, openFacets |-> s.openFacets, openCount |-> s.openCount,
                  globalBase |-> s.globalBase, nextGlobalId |-> s.nextGlobalId,
                  postingsUpper |-> s.postingsUpper, hasFacets |-> s.hasFacets,
                  specs |-> s.specs, blobs |-> s.blobs, facetBlobs |-> s.facetBlobs]
      BY ONLY <3>3
    <3> QED
      BY ONLY <3>1, <3>4
  <2>6. b.specs \in Seq(old) /\ n \in Nat /\ DOMAIN b.specs = 1 .. n
    BY DEF IsBuilder
  <2>7. /\ s.specs \in Seq(old \union {e}) /\ Len(s.specs) = n + 1
        /\ DOMAIN s.specs = 1 .. n + 1 /\ s.specs[n + 1] = e
        /\ \A i \in 1 .. n : s.specs[i] = b.specs[i]
    BY <2>5, <2>6
  <2> HIDE DEF s, n, old
  <2>8. s.specs \in Seq({s.specs[i] : i \in DOMAIN s.specs})
    BY <2>6, <2>7
  <2>9. \A i \in DOMAIN s.specs : s.specs[i].lo \in Nat /\ s.specs[i].hi \in Nat
    <3>1. \A i \in 1 .. n : b.specs[i].lo \in Nat /\ b.specs[i].hi \in Nat
      BY <2>6 DEF IsBuilder
    <3>2. \A i \in DOMAIN s.specs : i \in 1 .. n \/ i = n + 1
      BY <2>6, <2>7
    <3> QED
      BY <3>1, <3>2, <2>3, <2>7
  <2>10. IsBuilder(s)
    <3>1. b.nextGlobalId \in Nat
      BY DEF IsBuilder
    <3>2. s.openCount \in Nat /\ s.globalBase \in Nat /\ s.nextGlobalId \in Nat
      BY <2>5, <3>1
    <3>3. s = [open |-> s.open, openFacets |-> s.openFacets, openCount |-> s.openCount,
               globalBase |-> s.globalBase, nextGlobalId |-> s.nextGlobalId,
               postingsUpper |-> s.postingsUpper, hasFacets |-> s.hasFacets,
               specs |-> s.specs, blobs |-> s.blobs, facetBlobs |-> s.facetBlobs]
      BY ONLY <2>5, Zenon
    <3> QED
      BY ONLY <2>8, <2>9, <3>2, <3>3, Zenon DEF IsBuilder
  <2>11. ASSUME NEW i \in DOMAIN s.specs
         PROVE  /\ s.specs[i].lo = IF i = 1 THEN 0 ELSE s.specs[i - 1].hi + 1
                /\ s.specs[i].hi = s.specs[i].lo + s.specs[i].docCount - 1
                /\ s.specs[i].docCount > 0
    <3>1. CASE i \in 1 .. n
      <4>1. i = 1 \/ i - 1 \in 1 .. n
        BY <3>1, <2>6
      <4> QED
        BY <3>1, <4>1, <2>6, <2>7 DEF Tiles
    <3>2. CASE i = n + 1
      <4>1. s.specs[i] = e
        BY <3>2, <2>7
      <4>2. b.globalBase = IF i = 1 THEN 0 ELSE b.specs[i - 1].hi + 1
        BY <3>2, <2>6 DEF Tiles, n
      <4>3. i # 1 => s.specs[i - 1] = b.specs[i - 1]
        BY <3>2, <2>6, <2>7
      <4> QED
        BY <4>1, <4>2, <4>3, <2>1, <2>3
    <3> QED
      BY <3>1, <3>2, <2>6, <2>7
  <2>12. s.specs # << >> /\ s.globalBase = s.specs[Len(s.specs)].hi + 1
    BY <2>3, <2>5, <2>6, <2>7
  <2>13. s.nextGlobalId = s.globalBase + s.openCount
    BY <2>5 DEF IsBuilder
  <2>14. Tiles(s)
    BY <2>11, <2>12, <2>13 DEF Tiles
  <2> QED
    BY <2>5, <2>10, <2>14 DEF s
<1> QED
  BY <1>1, <1>2

\* A document goes to the end of the open split, under the id that is handed
\* out (the tail of SplitSetBuilder::add_inner).
LEMMA InsertingTiles ==
    ASSUME NEW s, IsBuilder(s), Tiles(s), NEW doc
    PROVE  /\ IsBuilder(Inserted(s, doc)) /\ Tiles(Inserted(s, doc))
           /\ Inserted(s, doc).nextGlobalId = s.nextGlobalId + 1
<1> DEFINE t == Inserted(s, doc)
<1>1. /\ t.openCount = s.openCount + 1 /\ t.nextGlobalId = s.nextGlobalId + 1
      /\ t.globalBase = s.globalBase /\ t.specs = s.specs
      /\ t = [open |-> t.open, openFacets |-> t.openFacets, openCount |-> t.openCount,
              globalBase |-> t.globalBase, nextGlobalId |-> t.nextGlobalId,
              postingsUpper |-> t.postingsUpper, hasFacets |-> t.hasFacets,
              specs |-> t.specs, blobs |-> t.blobs, facetBlobs |-> t.facetBlobs]
  <2> DEFINE upper == s.postingsUpper + 2 * Cardinality(doc.keys)
             seen == IF doc.cats = {} THEN s.hasFacets ELSE TRUE
  <2>1. t = [s EXCEPT !.open = Posted(s.open, doc.keys, s.openCount),
                      !.openFacets = Posted(s.openFacets, doc.cats, s.openCount),
                      !.postingsUpper = upper, !.hasFacets = seen,
                      !.openCount = s.openCount + 1,
                      !.nextGlobalId = s.nextGlobalId + 1]
    BY Zenon DEF Inserted
  <2> HIDE DEF t, upper, seen
  <2>2. t = [open |-> Posted(s.open, doc.keys, s.openCount),
             openFacets |-> Posted(s.openFacets, doc.cats, s.openCount),
             openCount |-> s.openCount + 1, globalBase |-> s.globalBase,
             nextGlobalId |-> s.nextGlobalId + 1,
             postingsUpper |-> upper, hasFacets |-> seen,
             specs |-> s.specs, blobs |-> s.blobs, facetBlobs |-> s.facetBlobs]
    BY <2>1 DEF IsBuilder
  <2> QED
    BY <2>2
<1> HIDE DEF t
<1>2. IsBuilder(t)
  BY <1>1 DEF IsBuilder
<1>3. Tiles(t)
  <2>1. s.openCount \in Nat /\ s.globalBase \in Nat /\ s.nextGlobalId = s.globalBase + s.openCount
    BY DEF IsBuilder, Tiles
  <2>2. t.nextGlobalId = t.globalBase + t.openCount
    BY <1>1, <2>1
  <2> QED
    BY <1>1, <2>2, Zenon DEF Tiles
<1> QED
  BY <1>1, <1>2, <1>3 DEF t

------------------------------------------------------------------------------
TileInv == IsBuilder(b) /\ Tiles(b) /\ corpus \in Seq(Docs) /\ b.nextGlobalId = Len(corpus)

\* Before the first document there is nothing to tile.
LEMMA InitTiles == BuildInit => TileInv
<1> SUFFICES ASSUME BuildInit PROVE TileInv
  OBVIOUS
<1>1. /\ b.specs = << >> /\ b.openCount = 0 /\ b.globalBase = 0 /\ b.nextGlobalId = 0
      /\ corpus = << >>
      /\ b = [open |-> b.open, openFacets |-> b.openFacets, openCount |-> b.openCount,
              globalBase |-> b.globalBase, nextGlobalId |-> b.nextGlobalId,
              postingsUpper |-> b.postingsUpper, hasFacets |-> b.hasFacets,
              specs |-> b.specs, blobs |-> b.blobs, facetBlobs |-> b.facetBlobs]
  BY DEF BuildInit
<1> QED
  BY <1>1 DEF TileInv, IsBuilder, Tiles

\* Every call of the builder keeps the ranges tiled.
LEMMA StepTiles == TileInv /\ [BuildNext]_buildVars => TileInv'
<1> SUFFICES ASSUME TileInv, [BuildNext]_buildVars PROVE TileInv'
  OBVIOUS
<1>0. IsBuilder(b) /\ Tiles(b) /\ corpus \in Seq(Docs) /\ b.nextGlobalId = Len(corpus)
  BY DEF TileInv
<1>1. ASSUME NEW doc \in Docs, Add(doc) PROVE TileInv'
  <2> DEFINE s == IF MustSeal(doc) THEN Sealed ELSE b
  <2>1. IsBuilder(s) /\ Tiles(s) /\ s.nextGlobalId = b.nextGlobalId
    BY <1>0, SealingTiles
  <2>2. b' = Inserted(s, doc) /\ corpus' = Append(corpus, doc)
    BY <1>1 DEF Add
  <2> HIDE DEF s
  <2>3. IsBuilder(b') /\ Tiles(b') /\ b'.nextGlobalId = b.nextGlobalId + 1
    BY <2>1, <2>2, InsertingTiles
  <2>4. corpus' \in Seq(Docs) /\ Len(corpus') = Len(corpus) + 1
    BY <2>2, <1>0
  <2> QED
    BY <2>3, <2>4, <1>0 DEF TileInv, IsBuilder, Tiles
<1>2. ASSUME Drain PROVE TileInv'
  <2>1. b' = [b EXCEPT !.blobs = NoFiles, !.facetBlobs = NoFiles] /\ corpus' = corpus
    BY <1>2 DEF Drain
  <2>2. /\ b'.openCount = b.openCount /\ b'.nextGlobalId = b.nextGlobalId
        /\ b'.globalBase = b.globalBase /\ b'.specs = b.specs
        /\ b' = [open |-> b'.open, openFacets |-> b'.openFacets, openCount |-> b'.openCount,
                 globalBase |-> b'.globalBase, nextGlobalId |-> b'.nextGlobalId,
                 postingsUpper |-> b'.postingsUpper, hasFacets |-> b'.hasFacets,
                 specs |-> b'.specs, blobs |-> b'.blobs, facetBlobs |-> b'.facetBlobs]
    BY <2>1, <1>0 DEF IsBuilder
  <2> QED
    BY <2>1, <2>2, <1>0 DEF TileInv, IsBuilder, Tiles
<1>3. ASSUME Finish PROVE TileInv'
  <2>1. b' = Sealed /\ corpus' = corpus
    BY <1>3 DEF Finish
  <2>2. IsBuilder(b') /\ Tiles(b') /\ b'.nextGlobalId = b.nextGlobalId
    BY <2>1, <1>0, SealingTiles
  <2> QED
    BY <2>1, <2>2, <1>0 DEF TileInv, IsBuilder, Tiles
<1>4. CASE UNCHANGED buildVars
  BY <1>4, <1>0 DEF buildVars, TileInv, IsBuilder, Tiles
<1> QED
  BY <1>1, <1>2, <1>3, <1>4 DEF BuildNext

\* Whatever the caps, the word width and the documents, the sealed splits and
\* the open one tile the ids of the corpus: no document is in two splits or in
\* none, and global ids are ranks.
THEOREM RangesTileAlways == BuildSpec => []RangesTile
<1>1. TileInv => RangesTile
  BY DEF TileInv, Tiles, RangesTile
<1> QED
  BY <1>1, InitTiles, StepTiles, PTL DEF BuildSpec

------------------------------------------------------------------------------
(* The bytes of a split.                                                      *)

Counts(postings) == [k \in Keys |-> Cardinality(postings[k])]

\* A sparse index has at most one entry a key.
LEMMA SparseSmall ==
    ASSUME NEW n \in Nat
    PROVE  SparseBytes(n) \in Nat /\ SparseBytes(n) <= 8 * n
<1>1. Stride \in Nat /\ Stride > 0
  BY BuildAssumption
<1>2. PICK q : q = (n + Stride - 1) \div Stride
  OBVIOUS
<1>3. q \in Nat /\ q <= n
  BY <1>1, <1>2
<1>4. SparseBytes(n) = 8 * q
  BY <1>2 DEF SparseBytes
<1> QED
  BY <1>3, <1>4

\* The file of some postings is no larger than 44 bytes a key and 2 an element.
LEMMA BodyBounded ==
    ASSUME NEW p \in [Keys -> SUBSET Nat], \A k \in Keys : IsFiniteSet(p[k])
    PROVE  /\ BodyBytes(p) \in Nat
           /\ Cardinality(Present(p)) \in Nat
           /\ BodyBytes(p) <= 16 + 44 * Cardinality(Present(p)) + 2 * SumOver(Counts(p), Keys)
<1> DEFINE S == Present(p)
           e == [k \in Keys |-> 36 + 2 * Cardinality(p[k])]
           cost(k) == 20 + 16 + 2 * Cardinality(p[k])
           c == Counts(p)
<1>1. IsFiniteSet(Keys) /\ S \in SUBSET Keys
  BY BuildAssumption DEF Present
<1>2. IsFiniteSet(S)
  BY <1>1, FS_Subset
<1>3. \A k \in Keys : Cardinality(p[k]) \in Nat
  BY FS_CardinalityType
<1>4. \A k \in Keys : e[k] \in Nat /\ c[k] \in Nat /\ e[k] = 36 + 2 * c[k] /\ cost(k) = e[k]
  BY <1>3 DEF Counts
<1>5. MapThenSumSet(cost, S) = SumOver(e, S)
  <2> DEFINE Rec(F) == F = [s \in SUBSET S |-> IF s = {} THEN 0
                     ELSE cost(CHOOSE x \in s : TRUE) + F[s \ {CHOOSE x \in s : TRUE}]]
  <2>1. \A s \in SUBSET S : s # {} => cost(CHOOSE x \in s : TRUE) = e[CHOOSE x \in s : TRUE]
    BY <1>1, <1>4
  <2> HIDE DEF cost, e, S
  <2>2. ASSUME NEW F PROVE Rec(F) <=> Recurs(F, S, e)
    <3> DEFINE d(s) == CHOOSE x \in s : TRUE
               one == [s \in SUBSET S |-> IF s = {} THEN 0 ELSE cost(d(s)) + F[s \ {d(s)}]]
               two == [s \in SUBSET S |-> IF s = {} THEN 0 ELSE e[d(s)] + F[s \ {d(s)}]]
    <3>1. \A s \in SUBSET S : s # {} => cost(d(s)) = e[d(s)]
      BY <2>1
    <3>2. one = two
      <4> HIDE DEF d
      <4> QED
        BY <3>1
    <3>3. Rec(F) <=> F = one
      OBVIOUS
    <3>4. Recurs(F, S, e) <=> F = two
      BY DEF Recurs
    <3> HIDE DEF one, two, Rec
    <3> QED
      BY <3>2, <3>3, <3>4
  <2>3. \A x \in S : e[x] \in Nat
    BY <1>1, <1>4
  <2>4. PICK F : Recurs(F, S, e)
    BY <1>2, <2>3, RecursionExists
  <2>5. \E G : Rec(G)
    <3>1. Rec(F)
      BY <2>2, <2>4
    <3> HIDE DEF Rec
    <3> QED
      BY <3>1
  <2> DEFINE G == CHOOSE H : Rec(H)
  <2>6. Rec(G)
    BY <2>5
  <2>7. MapThenSumSet(cost, S) = G[S]
    BY DEF MapThenSumSet, MapThenFoldSet
  <2> HIDE DEF G, Rec
  <2>8. Sums(G, S, e)
    BY <1>2, <2>2, <2>3, <2>6, RecursionSums
  <2>9. SumOver(e, S) = G[S]
    BY <1>2, <2>3, <2>8, SumOverSums
  <2> QED
    BY <2>7, <2>9
<1>6. BodyBytes(p) = 16 + SparseBytes(Cardinality(S)) + SumOver(e, S)
  BY <1>5 DEF BodyBytes
<1> HIDE DEF e, S, c
<1>7. SumOver(e, S) = 36 * Cardinality(S) + 2 * SumOver(c, S)
  <2> DEFINE Good == {s \in SUBSET S : SumOver(e, s) = 36 * Cardinality(s) + 2 * SumOver(c, s)}
  <2>1. {} \in Good
    <3>1. SumOver(e, {}) = 0 /\ SumOver(c, {}) = 0 /\ Cardinality({}) = 0
      BY FS_EmptySet, SumOverStep
    <3> QED
      BY <3>1
  <2>2. ASSUME NEW s \in SUBSET S, s # {} PROVE \E x \in s : s \ {x} \in Good => s \in Good
    <3>1. PICK x \in s : TRUE
      BY <2>2
    <3>2. IsFiniteSet(s) /\ IsFiniteSet(s \ {x}) /\ \A k \in s : e[k] \in Nat /\ c[k] \in Nat
      BY <1>1, <1>2, <1>4, FS_Subset
    <3>3. SumOver(e, s) = e[x] + SumOver(e, s \ {x})
      BY <3>2, SumOverStep
    <3>4. SumOver(c, s) = c[x] + SumOver(c, s \ {x})
      BY <3>2, SumOverStep
    <3>5. SumOver(c, s \ {x}) \in Nat
      BY <3>2, SumOverStep
    <3>6. Cardinality(s) = Cardinality(s \ {x}) + 1 /\ Cardinality(s \ {x}) \in Nat
      BY <3>1, <3>2, FS_RemoveElement, FS_CardinalityType
    <3>7. c[x] \in Nat /\ e[x] = 36 + 2 * c[x]
      BY <1>1, <1>4, <3>1
    <3>8. ASSUME SumOver(e, s \ {x}) = 36 * Cardinality(s \ {x}) + 2 * SumOver(c, s \ {x})
          PROVE  SumOver(e, s) = 36 * Cardinality(s) + 2 * SumOver(c, s)
      BY <3>3, <3>4, <3>5, <3>6, <3>7, <3>8
    <3> QED
      BY <3>8
  <2> HIDE DEF Good
  <2>3. SUBSET S \subseteq Good
    BY <1>2, <2>1, <2>2, SubsetInduction
  <2> QED
    BY <2>3 DEF Good
<1>8. SumOver(c, S) \in Nat /\ SumOver(c, Keys) \in Nat /\ SumOver(c, S) <= SumOver(c, Keys)
  <2>1. PICK T : T = Keys \ S
    OBVIOUS
  <2>2. IsFiniteSet(T) /\ S \union T = Keys /\ S \intersect T = {} /\ T \in SUBSET Keys
    BY <1>1, <2>1, FS_Subset
  <2>3. \A k \in S \union T : c[k] \in Nat
    BY <1>4, <2>2
  <2>4. SumOver(c, S \union T) = SumOver(c, S) + SumOver(c, T)
    BY <1>2, <2>2, <2>3, SumOverUnion
  <2>5. SumOver(c, S) \in Nat
    BY <1>2, <2>3, SumOverStep
  <2>6. SumOver(c, T) \in Nat
    BY <2>2, <2>3, SumOverStep
  <2>7. SumOver(c, Keys) = SumOver(c, S) + SumOver(c, T)
    BY <2>2, <2>4
  <2> QED
    BY <2>5, <2>6, <2>7
<1>9. Cardinality(S) \in Nat
  BY <1>2, FS_CardinalityType
<1>10. SparseBytes(Cardinality(S)) \in Nat /\ SparseBytes(Cardinality(S)) <= 8 * Cardinality(S)
  BY <1>9, SparseSmall
<1>11. BodyBytes(p) \in Nat /\ BodyBytes(p) <= 16 + 44 * Cardinality(S) + 2 * SumOver(c, Keys)
  BY <1>6, <1>7, <1>8, <1>9, <1>10
<1> QED
  BY <1>9, <1>11 DEF S, c

\* A document adds one element to the posting of each of its keys.
LEMMA PostedCounts ==
    ASSUME NEW n \in Nat, NEW p \in [Keys -> SUBSET (0 .. n - 1)], NEW xs \in SUBSET Keys
    PROVE  /\ Posted(p, xs, n) \in [Keys -> SUBSET (0 .. n)]
           /\ SumOver(Counts(Posted(p, xs, n)), Keys) = SumOver(Counts(p), Keys) + Cardinality(xs)
           /\ SumOver(Counts(p), Keys) \in Nat /\ Cardinality(xs) \in Nat
           /\ Present(Posted(p, xs, n)) = Present(p) \union xs
<1> DEFINE q == Posted(p, xs, n)
           c == Counts(p)
           d == Counts(q)
           Good == {s \in SUBSET Keys : SumOver(d, s) = SumOver(c, s) + Cardinality(s \intersect xs)}
<1>1. /\ q \in [Keys -> SUBSET (0 .. n)]
      /\ \A k \in Keys : q[k] = IF k \in xs THEN p[k] \union {n} ELSE p[k]
  <2>1. 0 .. n - 1 \subseteq 0 .. n /\ n \in 0 .. n
    OBVIOUS
  <2> QED
    BY <2>1 DEF Posted
<1>2. Present(q) = Present(p) \union xs
  BY <1>1 DEF Present
<1> HIDE DEF q
<1>3. IsFiniteSet(Keys)
  BY BuildAssumption
<1>4. \A k \in Keys : /\ c[k] \in Nat /\ d[k] \in Nat
                      /\ d[k] = c[k] + IF k \in xs THEN 1 ELSE 0
  <2> TAKE k \in Keys
  <2>1. IsFiniteSet(0 .. n - 1) /\ p[k] \in SUBSET (0 .. n - 1) /\ n \notin p[k]
    BY FS_Interval
  <2>2. IsFiniteSet(p[k]) /\ Cardinality(p[k]) \in Nat
    BY <2>1, FS_Subset, FS_CardinalityType
  <2>3. Cardinality(p[k] \union {n}) = Cardinality(p[k]) + 1
    BY <2>1, <2>2, FS_AddElement
  <2>4. c[k] = Cardinality(p[k]) /\ d[k] = Cardinality(q[k])
    BY DEF Counts
  <2>5. q[k] = IF k \in xs THEN p[k] \union {n} ELSE p[k]
    BY <1>1
  <2> HIDE DEF c, d
  <2>6. CASE k \in xs
    BY <2>2, <2>3, <2>4, <2>5, <2>6
  <2>7. CASE k \notin xs
    BY <2>2, <2>4, <2>5, <2>7
  <2> QED
    BY <2>6, <2>7
<1> HIDE DEF c, d
<1>5. {} \in Good
  <2>1. SumOver(c, {}) = 0 /\ SumOver(d, {}) = 0 /\ Cardinality({}) = 0 /\ {} \intersect xs = {}
    BY FS_EmptySet, SumOverStep
  <2> QED
    BY <2>1
<1>6. ASSUME NEW s \in SUBSET Keys, s # {} PROVE \E x \in s : s \ {x} \in Good => s \in Good
  <2>1. PICK x \in s : TRUE
    BY <1>6
  <2>2. IsFiniteSet(s) /\ IsFiniteSet(s \ {x}) /\ \A k \in s : c[k] \in Nat /\ d[k] \in Nat
    BY <1>3, <1>4, FS_Subset
  <2>3. SumOver(d, s) = d[x] + SumOver(d, s \ {x})
    BY <2>2, SumOverStep
  <2>4. SumOver(c, s) = c[x] + SumOver(c, s \ {x})
    BY <2>2, SumOverStep
  <2>5. SumOver(c, s \ {x}) \in Nat
    BY <2>2, SumOverStep
  <2>6. PICK U, V : U = s \intersect xs /\ V = (s \ {x}) \intersect xs
    OBVIOUS
  <2>7. IsFiniteSet(U) /\ IsFiniteSet(V) /\ Cardinality(U) \in Nat /\ Cardinality(V) \in Nat
    BY <2>2, <2>6, FS_Subset, FS_CardinalityType
  <2>8. Cardinality(U) = Cardinality(V) + IF x \in xs THEN 1 ELSE 0
    <3>1. CASE x \in xs
      <4>1. U = V \union {x} /\ x \notin V
        BY <2>1, <2>6, <3>1
      <4> QED
        BY <2>7, <3>1, <4>1, FS_AddElement
    <3>2. CASE x \notin xs
      <4>1. U = V
        BY <2>6, <3>2
      <4> QED
        BY <2>7, <3>2, <4>1
    <3> QED
      BY <3>1, <3>2
  <2>9. c[x] \in Nat /\ d[x] = c[x] + IF x \in xs THEN 1 ELSE 0
    BY <1>4, <2>1
  <2>10. ASSUME SumOver(d, s \ {x}) = SumOver(c, s \ {x}) + Cardinality(V)
         PROVE  SumOver(d, s) = SumOver(c, s) + Cardinality(U)
    BY <2>3, <2>4, <2>5, <2>7, <2>8, <2>9, <2>10
  <2> QED
    BY <2>6, <2>10
<1> HIDE DEF Good
<1>7. SUBSET Keys \subseteq Good
  BY <1>3, <1>5, <1>6, SubsetInduction
<1>8. SumOver(d, Keys) = SumOver(c, Keys) + Cardinality(Keys \intersect xs)
  BY <1>7 DEF Good
<1>9. Keys \intersect xs = xs /\ IsFiniteSet(xs)
  BY <1>3, FS_Subset
<1>10. Cardinality(xs) \in Nat
  BY <1>9, FS_CardinalityType
<1>11. SumOver(c, Keys) \in Nat
  BY <1>3, <1>4, SumOverStep
<1> QED
  BY <1>1, <1>2, <1>8, <1>9, <1>10, <1>11 DEF q, c, d

------------------------------------------------------------------------------
(* Sizes and caps.                                                            *)

Room(s) == 20 + 64 * Cardinality(Present(s.open)) + s.postingsUpper

\* The upper bound of the open split's postings is one, and the bound of its
\* file keeps to the cap of its tier once it has a second document; sealed
\* splits kept to theirs.  Each took at least one id.
Within(s) ==
    /\ s.open \in [Keys -> SUBSET (0 .. s.openCount - 1)]
    /\ s.postingsUpper \in Nat
    /\ 2 * SumOver(Counts(s.open), Keys) <= s.postingsUpper
    /\ s.openCount > 1 => Room(s) <= CapFor(Len(s.specs))
    /\ \A i \in DOMAIN s.specs :
         s.specs[i].docCount > 1 => s.specs[i].byteSize <= CapFor(i - 1)
    /\ Len(s.specs) <= s.globalBase

Solo(doc) == [k \in Keys |-> IF k \in doc.keys THEN {0} ELSE {}]

\* A split of one document holds the postings of a document of D and no more.
Single(s, D) ==
    /\ s.openCount = 1 => \E doc \in D : s.open = Solo(doc)
    /\ \A i \in DOMAIN s.specs :
         s.specs[i].docCount = 1 => \E doc \in D : s.specs[i].byteSize = Alone(doc)

\* A cap is a number of bytes (cap_for); it is less than the first tier's only
\* where a shift lost bits, and then it is what the shift left.
LEMMA CapIsNat ==
    ASSUME config \in Configs, NEW t \in Nat
    PROVE  /\ CapFor(t) \in Nat
           /\ CapFor(t) < config.byteCap <=> config.byteCapMax # 0 /\ Shifted(t) < config.byteCap
           /\ CapFor(t) < config.byteCap => CapFor(t) = Shifted(t)
<1> DEFINE W == 2 ^ WordBits
           m == Min({t, WordBits - 1})
           A == Shifted(t)
           B == Max({config.byteCapMax, config.byteCap})
<1>1. W \in Nat /\ W > 0
  BY WordAssumption
<1>2. config.byteCap \in Nat /\ config.byteCapMax \in Nat
      /\ config.byteCap < W /\ config.byteCapMax < W
  BY <1>1, ConfigsAssumption
<1>3. m \in Nat
  <2>1. {t, WordBits - 1} \in SUBSET Nat
    BY BuildAssumption
  <2> QED
    BY <2>1, MinIsLeast
<1>4. A \in Nat
  <2>0. A = (config.byteCap * 2 ^ m) % W
    BY DEF Shifted
  <2>1. 2 ^ m \in Int
    BY <1>3
  <2> HIDE DEF m, W
  <2>2. config.byteCap * 2 ^ m \in Int
    BY <1>2, <2>1
  <2> HIDE DEF A
  <2> QED
    BY <1>1, <2>0, <2>2
<1>5. B \in Nat /\ B >= config.byteCap
  <2>1. PICK S : S = {config.byteCapMax, config.byteCap}
    OBVIOUS
  <2>2. S \in SUBSET Nat /\ S # {} /\ (\A x \in S : x < W) /\ config.byteCap \in S
    BY <1>2, <2>1
  <2> HIDE DEF W
  <2>3. Max(S) \in S /\ \A x \in S : Max(S) >= x
    BY <1>1, <2>2, MaxIsGreatest
  <2> QED
    BY <2>1, <2>2, <2>3
<1> HIDE DEF A, B
<1>6. Min({A, B}) \in {A, B} /\ Min({A, B}) <= A /\ Min({A, B}) <= B
  <2>1. {A, B} \in SUBSET Nat
    BY <1>4, <1>5
  <2> QED
    BY <2>1, MinIsLeast
<1>7. CapFor(t) = IF config.byteCapMax = 0 THEN config.byteCap ELSE Min({A, B})
  BY DEF CapFor, A, B
<1>8. A = Shifted(t)
  BY DEF A
<1> QED
  BY <1>2, <1>4, <1>5, <1>6, <1>7, <1>8

\* The file of a split is within its room.
LEMMA RoomBounds ==
    ASSUME NEW s, s.openCount \in Nat, Within(s)
    PROVE  /\ \A k \in Keys : IsFiniteSet(s.open[k])
           /\ SumOver(Counts(s.open), Keys) \in Nat
           /\ Cardinality(Present(s.open)) \in Nat
           /\ BodyBytes(s.open) \in Nat /\ BodyBytes(s.open) <= Room(s)
<1>1. PICK p, u : p = s.open /\ u = s.postingsUpper
  OBVIOUS
<1>2. /\ p \in [Keys -> SUBSET (0 .. s.openCount - 1)] /\ u \in Nat
      /\ 2 * SumOver(Counts(p), Keys) <= u
  BY <1>1 DEF Within
<1>3. p \in [Keys -> SUBSET Nat] /\ \A k \in Keys : IsFiniteSet(p[k])
  <2>1. IsFiniteSet(0 .. s.openCount - 1) /\ 0 .. s.openCount - 1 \subseteq Nat
    BY FS_Interval
  <2> QED
    BY <1>2, <2>1, FS_Subset
<1>4. /\ BodyBytes(p) \in Nat /\ Cardinality(Present(p)) \in Nat
      /\ BodyBytes(p) <= 16 + 44 * Cardinality(Present(p)) + 2 * SumOver(Counts(p), Keys)
  BY <1>3, BodyBounded
<1>5. SumOver(Counts(p), Keys) \in Nat
  <2>1. IsFiniteSet(Keys)
    BY BuildAssumption
  <2>2. \A k \in Keys : Counts(p)[k] \in Nat
    BY <1>3, FS_CardinalityType DEF Counts
  <2> QED
    BY <2>1, <2>2, SumOverStep
<1>6. Room(s) = 20 + 64 * Cardinality(Present(p)) + u
  BY <1>1 DEF Room
<1>7. BodyBytes(p) <= Room(s)
  BY <1>2, <1>4, <1>5, <1>6
<1> QED
  BY <1>1, <1>3, <1>4, <1>5, <1>7

\* An empty split has room for any cap's worth of elements.
LEMMA EmptyCounts ==
    ASSUME NEW p, p = [k \in Keys |-> {}]
    PROVE  SumOver(Counts(p), Keys) = 0
<1> DEFINE c == Counts(p)
<1>1. IsFiniteSet(Keys) /\ \A k \in Keys : IsFiniteSet(p[k]) /\ p[k] = {}
  BY BuildAssumption, FS_EmptySet
<1>2. \A k \in Keys : c[k] = Cardinality(p[k])
  BY DEF Counts
<1> HIDE DEF c
<1>3. (\A i, j \in Keys : i # j => p[i] \intersect p[j] = {}) =>
         Cardinality(UNION {p[k] : k \in Keys}) = SumOver(c, Keys)
  BY <1>1, <1>2, SumOverCover
<1>4. UNION {p[k] : k \in Keys} = {}
  BY <1>1
<1>5. SumOver(c, Keys) = Cardinality({})
  BY <1>1, <1>3, <1>4
<1> QED
  BY <1>5, FS_EmptySet DEF c

\* A sealed split of several documents is within the cap of its tier
\* (SplitSetBuilder::seal).
LEMMA SealingFits ==
    ASSUME IsBuilder(b), Tiles(b), Within(b), config \in Configs, NEW D, Single(b, D)
    PROVE  Within(Sealed) /\ Single(Sealed, D)
<1>1. CASE b.openCount = 0
  BY <1>1 DEF Sealed
<1>2. CASE b.openCount # 0
  <2> DEFINE s == Sealed
             n == Len(b.specs)
             e == SealedSpec
  <2>1. /\ s.open = [k \in Keys |-> {}] /\ s.openCount = 0 /\ s.postingsUpper = 0
        /\ s.globalBase = b.nextGlobalId /\ s.specs = Append(b.specs, e)
    BY <1>2, SealedFields
  <2>2. /\ b.openCount \in Nat /\ b.globalBase \in Nat /\ n \in Nat /\ n <= b.globalBase
        /\ b.specs \in Seq({b.specs[i] : i \in DOMAIN b.specs})
        /\ b.nextGlobalId = b.globalBase + b.openCount
    BY DEF IsBuilder, Tiles, Within
  <2>3. e.docCount = b.openCount /\ e.byteSize = BodyBytes(b.open)
    BY DEF SealedSpec
  <2> HIDE DEF s, e
  <2>4. /\ Len(s.specs) = n + 1 /\ DOMAIN s.specs = 1 .. n + 1
        /\ DOMAIN b.specs = 1 .. n
        /\ s.specs[n + 1] = e /\ \A i \in 1 .. n : s.specs[i] = b.specs[i]
    BY <2>1, <2>2
  <2>5. ASSUME NEW i \in DOMAIN s.specs, s.specs[i].docCount > 1
        PROVE  s.specs[i].byteSize <= CapFor(i - 1)
    <3>1. CASE i = n + 1
      <4>1. BodyBytes(b.open) \in Nat /\ BodyBytes(b.open) <= Room(b)
        BY <2>2, RoomBounds
      <4>2. Cardinality(Present(b.open)) \in Nat /\ b.postingsUpper \in Nat
        BY <2>2, RoomBounds DEF Within
      <4>3. Room(b) \in Nat
        BY <4>2 DEF Room
      <4>4. Room(b) <= CapFor(n)
        BY <2>3, <2>4, <2>5, <3>1 DEF Within
      <4>5. CapFor(n) \in Nat
        BY <2>2, CapIsNat
      <4>6. i - 1 = n
        BY <2>2, <3>1
      <4> QED
        BY <2>3, <2>4, <3>1, <4>1, <4>3, <4>4, <4>5, <4>6
    <3>2. CASE i \in 1 .. n
      BY <2>4, <2>5, <3>2 DEF Within
    <3> QED
      BY <2>2, <2>4, <3>1, <3>2
  <2>6. s.open \in [Keys -> SUBSET (0 .. s.openCount - 1)]
    BY <2>1
  <2>7. 2 * SumOver(Counts(s.open), Keys) <= s.postingsUpper
    <3>1. SumOver(Counts(s.open), Keys) = 0
      BY <2>1, EmptyCounts
    <3> QED
      BY <2>1, <3>1
  <2>8. Len(s.specs) <= s.globalBase
    BY <1>2, <2>1, <2>2, <2>4
  <2>9. Within(s)
    BY <2>1, <2>5, <2>6, <2>7, <2>8 DEF Within
  <2>10. ASSUME NEW i \in DOMAIN s.specs, s.specs[i].docCount = 1
         PROVE  \E doc \in D : s.specs[i].byteSize = Alone(doc)
    <3>1. CASE i = n + 1
      <4>1. PICK doc \in D : b.open = Solo(doc)
        BY <2>3, <2>4, <2>10, <3>1 DEF Single
      <4>2. s.specs[i].byteSize = Alone(doc)
        BY <2>3, <2>4, <3>1, <4>1 DEF Alone, Solo
      <4> QED
        BY <4>2
    <3>2. CASE i \in 1 .. n
      BY <2>4, <2>10, <3>2 DEF Single
    <3> QED
      BY <2>2, <2>4, <3>1, <3>2
  <2>11. Single(s, D)
    BY <2>1, <2>10 DEF Single
  <2> QED
    BY <2>9, <2>11 DEF s
<1> QED
  BY <1>1, <1>2

\* A document that is let into the open split leaves it within its cap (the
\* tail of SplitSetBuilder::add_inner).
LEMMA InsertingFits ==
    ASSUME NEW s, IsBuilder(s), Within(s), config \in Configs, NEW D, Single(s, D),
           NEW doc \in D, doc.keys \in SUBSET Keys,
           s.openCount # 0 =>
             Room(s) + 64 * Cardinality(doc.keys \ Present(s.open))
                     + 2 * Cardinality(doc.keys) <= CapFor(Len(s.specs))
    PROVE  Within(Inserted(s, doc)) /\ Single(Inserted(s, doc), D)
<1> DEFINE t == Inserted(s, doc)
           P == Present(s.open)
           Q == doc.keys \ P
<1>1. /\ t.open = Posted(s.open, doc.keys, s.openCount)
      /\ t.postingsUpper = s.postingsUpper + 2 * Cardinality(doc.keys)
      /\ t.openCount = s.openCount + 1
      /\ t.globalBase = s.globalBase /\ t.specs = s.specs
  BY InsertedFields
<1> HIDE DEF t
<1>2. /\ s.openCount \in Nat /\ s.open \in [Keys -> SUBSET (0 .. s.openCount - 1)]
      /\ s.postingsUpper \in Nat /\ 2 * SumOver(Counts(s.open), Keys) <= s.postingsUpper
  BY DEF IsBuilder, Within
<1>3. /\ t.open \in [Keys -> SUBSET (0 .. s.openCount)]
      /\ SumOver(Counts(t.open), Keys) = SumOver(Counts(s.open), Keys) + Cardinality(doc.keys)
      /\ SumOver(Counts(s.open), Keys) \in Nat /\ Cardinality(doc.keys) \in Nat
      /\ Present(t.open) = P \union doc.keys
  BY <1>1, <1>2, PostedCounts
<1>4. IsFiniteSet(P) /\ IsFiniteSet(Q) /\ P \intersect Q = {} /\ P \union Q = Present(t.open)
  <2>1. P \in SUBSET Keys
    BY <1>2 DEF Present
  <2> QED
    BY <1>3, <2>1, BuildAssumption, FS_Subset
<1> HIDE DEF P, Q
<1>5. Cardinality(Present(t.open)) = Cardinality(P) + Cardinality(Q)
  <2>1. Cardinality(P \union Q) = Cardinality(P) + Cardinality(Q) - Cardinality(P \intersect Q)
    BY <1>4, FS_Union
  <2>2. Cardinality(P) \in Nat /\ Cardinality(Q) \in Nat
    BY <1>4, FS_CardinalityType
  <2>3. Cardinality(P \intersect Q) = 0
    BY <1>4, FS_EmptySet
  <2>4. Cardinality(P \union Q) = Cardinality(P) + Cardinality(Q)
    BY <2>1, <2>2, <2>3
  <2> QED
    BY <1>4, <2>4
<1>6. Cardinality(P) \in Nat /\ Cardinality(Q) \in Nat
  BY <1>4, FS_CardinalityType
<1>7. t.open \in [Keys -> SUBSET (0 .. t.openCount - 1)]
  <2>1. t.openCount - 1 = s.openCount
    BY <1>1, <1>2
  <2> QED
    BY <1>3, <2>1
<1>8. t.postingsUpper \in Nat /\ 2 * SumOver(Counts(t.open), Keys) <= t.postingsUpper
  BY <1>1, <1>2, <1>3
<1>9. ASSUME t.openCount > 1 PROVE Room(t) <= CapFor(Len(t.specs))
  <2>1. s.openCount # 0
    BY <1>1, <1>2, <1>9
  <2>2. Room(s) + 64 * Cardinality(Q) + 2 * Cardinality(doc.keys) <= CapFor(Len(s.specs))
    BY <2>1 DEF P, Q
  <2>3. Room(t) = Room(s) + 64 * Cardinality(Q) + 2 * Cardinality(doc.keys)
    <3>1. Room(s) = 20 + 64 * Cardinality(P) + s.postingsUpper
      BY DEF Room, P
    <3>2. Room(t) = 20 + 64 * (Cardinality(P) + Cardinality(Q))
                       + (s.postingsUpper + 2 * Cardinality(doc.keys))
      BY <1>1, <1>5 DEF Room
    <3>3. PICK cp \in Nat, cq \in Nat, cd \in Nat, u \in Nat :
             cp = Cardinality(P) /\ cq = Cardinality(Q) /\ cd = Cardinality(doc.keys) /\ u = s.postingsUpper
      BY <1>2, <1>3, <1>6
    <3>4. Room(s) = 20 + 64 * cp + u /\ Room(t) = 20 + 64 * (cp + cq) + (u + 2 * cd)
      BY ONLY <3>1, <3>2, <3>3
    <3>5. Room(t) = Room(s) + 64 * cq + 2 * cd
      BY ONLY cp \in Nat, cq \in Nat, cd \in Nat, u \in Nat, <3>4
    <3> QED
      BY ONLY <3>3, <3>5
  <2> QED
    BY <1>1, <2>2, <2>3
<1>10. Within(t)
  BY <1>1, <1>7, <1>8, <1>9 DEF Within
<1>11. ASSUME t.openCount = 1 PROVE t.open = Solo(doc)
  <2>1. s.openCount = 0
    BY <1>1, <1>2, <1>11
  <2>2. s.open \in [Keys -> SUBSET {}]
    BY <1>2, <2>1
  <2>3. \A k \in Keys : s.open[k] = {}
    BY <2>2
  <2>4. t.open = [k \in Keys |-> IF k \in doc.keys THEN s.open[k] \union {0} ELSE s.open[k]]
    BY <1>1, <2>1, <2>2 DEF Posted
  <2>5. \A k \in Keys : t.open[k] = Solo(doc)[k]
    BY <2>3, <2>4 DEF Solo
  <2>6. t.open = [k \in Keys |-> t.open[k]] /\ Solo(doc) = [k \in Keys |-> Solo(doc)[k]]
    BY <2>4 DEF Solo
  <2> QED
    BY <2>5, <2>6
<1>12. Single(t, D)
  BY <1>1, <1>11 DEF Single
<1> QED
  BY <1>10, <1>12 DEF t

------------------------------------------------------------------------------
(* The sizes of every split the builder seals.                                *)

SizeInv ==
    /\ TileInv /\ config \in Configs
    /\ Within(b) /\ Single(b, Range(corpus))
    /\ Len(corpus) <= MaxDocs
    /\ phase = "failed" => Degenerate(b.specs)

\* More documents are no less to choose from.
LEMMA SingleGrows ==
    ASSUME NEW s, NEW D, NEW E, D \subseteq E, Single(s, D)
    PROVE  Single(s, E)
BY DEF Single

\* An empty builder is within every cap.
LEMMA InitSizes == BuildInit => SizeInv
<1> SUFFICES ASSUME BuildInit PROVE SizeInv
  OBVIOUS
<1>1. TileInv
  BY InitTiles
<1>2. /\ config \in Configs /\ phase = "building" /\ corpus = << >>
      /\ b.open = [k \in Keys |-> {}] /\ b.openCount = 0 /\ b.postingsUpper = 0
      /\ b.specs = << >> /\ b.globalBase = 0
  BY DEF BuildInit
<1>3. SumOver(Counts(b.open), Keys) = 0
  BY <1>2, EmptyCounts
<1>4. 2 * SumOver(Counts(b.open), Keys) <= b.postingsUpper /\ Len(b.specs) <= b.globalBase
  BY <1>2, <1>3
<1>5. Within(b)
  BY <1>2, <1>4 DEF Within
<1>6. Single(b, Range(corpus))
  BY <1>2 DEF Single
<1>7. Len(corpus) <= MaxDocs
  BY <1>2, BuildAssumption
<1> QED
  BY <1>1, <1>2, <1>5, <1>6, <1>7 DEF SizeInv

\* Every call keeps each split within the cap of its tier.
LEMMA StepSizes == SizeInv /\ [BuildNext]_buildVars => SizeInv'
<1> SUFFICES ASSUME SizeInv, [BuildNext]_buildVars PROVE SizeInv'
  OBVIOUS
<1>1. TileInv'
  BY StepTiles DEF SizeInv
<1>2. /\ IsBuilder(b) /\ Tiles(b) /\ Within(b) /\ config \in Configs
      /\ corpus \in Seq(Docs) /\ Single(b, Range(corpus)) /\ Len(corpus) <= MaxDocs
  BY DEF SizeInv, TileInv
\* Within and Degenerate read the configuration, which no call changes.
<1>3. ASSUME config' = config, b' = Sealed \/ (/\ b'.open = b.open
                                              /\ b'.openCount = b.openCount
                                              /\ b'.postingsUpper = b.postingsUpper
                                              /\ b'.specs = b.specs
                                              /\ b'.globalBase = b.globalBase)
      PROVE  Within(b)' /\ Single(b', Range(corpus))
  <2>1. CASE b' = Sealed
    <3>1. PICK t : t = Sealed
      OBVIOUS
    <3>2. Within(t) /\ Single(t, Range(corpus))
      BY <1>2, <3>1, SealingFits
    <3> QED
      BY <1>3, <2>1, <3>1, <3>2 DEF Within, CapFor, Shifted, Room, Single
  <2>2. CASE b' # Sealed
    BY <1>2, <1>3, <2>2 DEF Within, CapFor, Shifted, Room, Single
  <2> QED
    BY <2>1, <2>2
<1>4. ASSUME NEW doc \in Docs, Add(doc) PROVE SizeInv'
  <2> DEFINE s == IF MustSeal(doc) THEN Sealed ELSE b
             D == Range(corpus')
  <2>1. /\ b' = Inserted(s, doc) /\ corpus' = Append(corpus, doc) /\ Len(corpus) < MaxDocs
        /\ phase = "building" /\ phase' = phase /\ config' = config
    BY <1>4 DEF Add
  <2>2. /\ Len(corpus') = Len(corpus) + 1 /\ Range(corpus) \subseteq D /\ doc \in D
    <3>1. /\ Len(corpus') = Len(corpus) + 1 /\ DOMAIN corpus = 1 .. Len(corpus)
          /\ DOMAIN corpus' = 1 .. Len(corpus) + 1 /\ Len(corpus) \in Nat
          /\ \A i \in 1 .. Len(corpus) : corpus'[i] = corpus[i]
          /\ corpus'[Len(corpus) + 1] = doc
      BY <1>2, <2>1
    <3>2. Len(corpus) + 1 \in 1 .. Len(corpus) + 1 /\ 1 .. Len(corpus) \subseteq 1 .. Len(corpus) + 1
      BY <3>1
    <3> QED
      BY <3>1, <3>2 DEF Range
  <2> HIDE DEF D
  <2>3. Single(b, D)
    BY <1>2, <2>2, SingleGrows
  <2>4. IsBuilder(s) /\ Tiles(s) /\ Within(s) /\ Single(s, D)
    BY <1>2, <2>3, SealingTiles, SealingFits
  <2>5. doc.keys \in SUBSET Keys
    BY BuildAssumption
  <2>6. ASSUME s.openCount # 0
        PROVE  Room(s) + 64 * Cardinality(doc.keys \ Present(s.open))
                       + 2 * Cardinality(doc.keys) <= CapFor(Len(s.specs))
    <3>1. CASE MustSeal(doc)
      <4>1. s = Sealed /\ b.openCount # 0
        BY <1>2, <3>1 DEF MustSeal, IsBuilder
      <4>2. s.openCount = 0
        BY <1>2, <4>1, SealedFields
      <4> QED
        BY <2>6, <4>2
    <3>2. CASE ~MustSeal(doc)
      <4> DEFINE n == Cardinality(Present(b.open))
                 x == Cardinality(doc.keys \ Present(b.open))
                 y == Cardinality(doc.keys)
                 cap == CapFor(Len(b.specs))
      <4>1. s = b /\ b.openCount \in Nat /\ b.openCount > 0
        BY <1>2, <2>6, <3>2 DEF IsBuilder
      <4>2. n \in Nat /\ b.postingsUpper \in Nat
        BY <1>2, <4>1, RoomBounds DEF Within
      <4>3. x \in Nat /\ y \in Nat
        BY <2>5, BuildAssumption, FS_Subset, FS_CardinalityType
      <4>4. SparseBytes(n) \in Nat
        BY <4>2, SparseSmall
      <4>5. cap \in Nat
        BY <1>2, CapIsNat DEF IsBuilder
      <4>6. ~(20 + 64 * n + SparseBytes(n) + b.postingsUpper + (64 * x + 2 * y) > cap)
        BY <3>2, <4>1 DEF MustSeal, Estimate, Marginal
      <4>7. Room(b) = 20 + 64 * n + b.postingsUpper
        BY DEF Room
      <4> HIDE DEF n, x, y, cap
      <4>8. Room(b) + 64 * x + 2 * y <= cap
        BY <4>2, <4>3, <4>4, <4>5, <4>6, <4>7
      <4> QED
        BY <4>1, <4>8 DEF x, y, cap
    <3> QED
      BY <3>1, <3>2
  <2> HIDE DEF s
  <2>7. PICK t : t = Inserted(s, doc)
    OBVIOUS
  <2>8. Within(t) /\ Single(t, D)
    BY <1>2, <2>2, <2>4, <2>5, <2>6, <2>7, InsertingFits
  <2>9. b' = t
    BY <2>1, <2>7
  <2>10. Within(b)' /\ Single(b', D)
    BY <2>1, <2>8, <2>9 DEF Within, CapFor, Shifted, Room, Single
  <2>11. Single(b, Range(corpus))'
    BY <2>10 DEF Single, D
  <2>12. (Len(corpus) <= MaxDocs)'
    BY <1>2, <2>1, <2>2, BuildAssumption
  <2> QED
    BY <1>1, <1>2, <2>1, <2>10, <2>11, <2>12 DEF SizeInv
<1>5. ASSUME Drain PROVE SizeInv'
  <2>1. /\ b' = [b EXCEPT !.blobs = NoFiles, !.facetBlobs = NoFiles]
        /\ phase = "building" /\ UNCHANGED <<config, phase, corpus>>
    BY <1>5 DEF Drain
  <2>2. /\ b'.open = b.open /\ b'.openCount = b.openCount
        /\ b'.postingsUpper = b.postingsUpper /\ b'.specs = b.specs
        /\ b'.globalBase = b.globalBase
    BY <1>2, <2>1 DEF IsBuilder
  <2>3. Within(b)' /\ Single(b', Range(corpus))
    BY <1>3, <2>1, <2>2
  <2> QED
    BY <1>1, <1>2, <2>1, <2>3 DEF SizeInv, Single
<1>6. ASSUME Finish PROVE SizeInv'
  <2>1. /\ b' = Sealed /\ UNCHANGED <<config, corpus>>
        /\ phase' = "failed" => Degenerate(Sealed.specs)
    BY <1>6 DEF Finish
  <2>2. Within(b)' /\ Single(b', Range(corpus))
    BY <1>3, <2>1
  <2>3. phase' = "failed" => Degenerate(b.specs)'
    BY <2>1 DEF Degenerate, CapFor, Shifted
  <2> QED
    BY <1>1, <1>2, <2>1, <2>2, <2>3 DEF SizeInv, Single
<1>7. CASE UNCHANGED buildVars
  <2>1. b' = b /\ UNCHANGED <<config, phase, corpus>>
    BY <1>7 DEF buildVars
  <2>2. Within(b)' /\ Single(b', Range(corpus))
    BY <1>3, <2>1
  <2>3. phase' = "failed" => Degenerate(b.specs)'
    BY <2>1 DEF SizeInv, Degenerate, CapFor, Shifted
  <2> QED
    BY <1>1, <1>2, <2>1, <2>2, <2>3 DEF SizeInv, Single
<1> QED
  BY <1>4, <1>5, <1>6, <1>7 DEF BuildNext

\* A sealed split of several documents fits the cap of its tier, whatever the
\* documents, the cap, its growth and the width of a word.
THEOREM SealedFitsAlways == BuildSpec => []SealedFits
<1>1. SizeInv => SealedFits
  BY DEF SizeInv, Within, SealedFits
<1> QED
  BY <1>1, InitSizes, StepSizes, PTL DEF BuildSpec

\* Either a document is above the first cap, or the cap of the tier it was
\* sealed at lost bits.
LEMMA FailureIsDegenerate == SizeInv => FittingCorpusBuilds
<1> SUFFICES ASSUME SizeInv, phase = "failed", ~DegenerateCorpus
             PROVE  CapLost
  BY DEF FittingCorpusBuilds
<1>1. /\ IsBuilder(b) /\ config \in Configs /\ Single(b, Range(corpus))
  BY DEF SizeInv, TileInv
<1>2. PICK i \in DOMAIN b.specs : b.specs[i].docCount = 1 /\ b.specs[i].byteSize > CapFor(i - 1)
  BY DEF SizeInv, Degenerate
<1>3. i - 1 \in Nat
  BY <1>1, <1>2 DEF IsBuilder
<1>4. PICK doc \in Range(corpus) : b.specs[i].byteSize = Alone(doc)
  BY <1>1, <1>2 DEF Single
<1>5. /\ CapFor(i - 1) \in Nat
      /\ CapFor(i - 1) < config.byteCap => config.byteCapMax # 0 /\ Shifted(i - 1) < config.byteCap
      /\ CapFor(i - 1) < config.byteCap => CapFor(i - 1) = Shifted(i - 1)
  BY <1>1, <1>3, CapIsNat
<1>6. config.byteCap \in Nat
  BY <1>1, ConfigsAssumption, WordAssumption
<1>7. Alone(doc) \in Nat
  <2>1. Solo(doc) \in [Keys -> SUBSET Nat] /\ \A k \in Keys : IsFiniteSet(Solo(doc)[k])
    <3>0. IsFiniteSet({0})
      BY ONLY FS_Singleton, Zenon
    <3>1. {0} \in SUBSET Nat /\ IsFiniteSet({})
      BY FS_EmptySet
    <3>2. ASSUME NEW k \in Keys
          PROVE  Solo(doc)[k] \in SUBSET Nat /\ IsFiniteSet(Solo(doc)[k])
      BY <3>0, <3>1 DEF Solo
    <3>3. Solo(doc) = [k \in Keys |-> Solo(doc)[k]]
      BY DEF Solo
    <3> HIDE DEF Solo
    <3> QED
      BY <3>2, <3>3
  <2>2. BodyBytes(Solo(doc)) \in Nat
    BY <2>1, BodyBounded
  <2> QED
    BY <2>2 DEF Alone, Solo
<1>8. ~(Alone(doc) > config.byteCap)
  BY DEF DegenerateCorpus
<1>9. CapFor(i - 1) < config.byteCap
  BY <1>2, <1>4, <1>5, <1>6, <1>7, <1>8
<1> QED
  BY <1>2, <1>5, <1>9 DEF CapLost

\* finish fails only on a degenerate corpus or over a cap that lost bits,
\* whatever the documents, the caps, the tiers and the width of a word.
THEOREM FittingCorpusBuildsAlways == BuildSpec => []FittingCorpusBuilds
BY InitSizes, StepSizes, FailureIsDegenerate, PTL DEF BuildSpec

\* No tier that the corpus can reach has less than the first tier's cap: its
\* growth does not shift bits out of the word.
CapsGrow == \A t \in 0 .. MaxDocs : config.byteCap <= CapFor(t)

\* "A degenerate corpus" is then the only one that finish refuses.
OnlyDegenerateFail == phase = "failed" => DegenerateCorpus

\* Under caps that grow, no cap that lost bits is to blame.
LEMMA NoCapLost == SizeInv /\ CapsGrow => OnlyDegenerateFail
<1> SUFFICES ASSUME SizeInv, CapsGrow, CapLost PROVE FALSE
  BY FailureIsDegenerate DEF FittingCorpusBuilds, OnlyDegenerateFail
<1>1. /\ IsBuilder(b) /\ Tiles(b) /\ Within(b) /\ config \in Configs
      /\ b.nextGlobalId = Len(corpus) /\ Len(corpus) <= MaxDocs
  BY DEF SizeInv, TileInv
<1>2. PICK i \in DOMAIN b.specs : Shifted(i - 1) < config.byteCap /\ config.byteCapMax # 0
  BY DEF CapLost
<1>3. i \in 1 .. Len(b.specs) /\ Len(b.specs) \in Nat
  BY <1>1, <1>2 DEF IsBuilder
<1>4. i - 1 \in 0 .. MaxDocs
  <2>1. Len(b.specs) <= b.globalBase /\ b.nextGlobalId = b.globalBase + b.openCount
        /\ b.globalBase \in Nat /\ b.openCount \in Nat
    BY <1>1 DEF Within, Tiles, IsBuilder
  <2>2. b.globalBase + b.openCount <= MaxDocs /\ MaxDocs \in Nat
    BY <1>1, <2>1, BuildAssumption
  <2> QED
    BY ONLY <1>3, <2>1, <2>2
<1>5. config.byteCap <= CapFor(i - 1)
  BY <1>4 DEF CapsGrow
<1>6. i - 1 \in Nat
  BY <1>3
<1>7. /\ CapFor(i - 1) \in Nat
      /\ config.byteCapMax # 0 /\ Shifted(i - 1) < config.byteCap => CapFor(i - 1) < config.byteCap
  BY <1>1, <1>6, CapIsNat
<1>8. config.byteCap \in Nat
  BY <1>1, ConfigsAssumption, WordAssumption
<1> QED
  BY <1>2, <1>5, <1>7, <1>8

\* The configuration is the builder's for good.
LEMMA CapsKeep == CapsGrow /\ [BuildNext]_buildVars => CapsGrow'
<1> SUFFICES ASSUME CapsGrow, [BuildNext]_buildVars PROVE CapsGrow'
  OBVIOUS
<1>1. config' = config
  BY DEF BuildNext, Add, Drain, Finish, buildVars
<1> QED
  BY <1>1 DEF CapsGrow, CapFor, Shifted

\* finish fails on degenerate corpora alone, where no cap wraps.  (One that
\* wraps to nothing fails any corpus: the shift of cap_for is checked, its
\* bits are not.)
THEOREM GrowingCapsBuild == BuildSpec /\ CapsGrow => []OnlyDegenerateFail
BY InitSizes, StepSizes, NoCapLost, CapsKeep, PTL DEF BuildSpec

\* Flat caps never wrap.
LEMMA FlatCapsGrow == config.byteCapMax = 0 /\ config \in Configs => CapsGrow
<1> SUFFICES ASSUME config.byteCapMax = 0, config \in Configs PROVE CapsGrow
  OBVIOUS
<1>1. config.byteCap \in Nat
  BY ConfigsAssumption, WordAssumption
<1>2. \A t \in 0 .. MaxDocs : CapFor(t) = config.byteCap
  BY DEF CapFor
<1> QED
  BY <1>1, <1>2 DEF CapsGrow

\* Where every tier has one cap, finish fails on degenerate corpora alone.
THEOREM FlatCapsBuild == BuildSpec /\ config.byteCapMax = 0 => []OnlyDegenerateFail
<1>1. BuildInit => config \in Configs
  BY DEF BuildInit
<1> QED
  BY <1>1, FlatCapsGrow, GrowingCapsBuild, PTL DEF BuildSpec

------------------------------------------------------------------------------
(* What the files hold.                                                       *)

\* The postings of the documents lo .. lo + n - 1 of corpus c, as local ids.
KeyFile(c, lo, n) == [k \in Keys |-> {l \in 0 .. n - 1 : k \in c[lo + l + 1].keys}]
CatFile(c, lo, n) == [x \in Cats |-> {l \in 0 .. n - 1 : x \in c[lo + l + 1].cats}]

\* Indexing one more document (the tail of add_inner) makes the postings of one
\* more document.
LEMMA PostingGrows ==
    ASSUME NEW c \in Seq(Docs), NEW doc \in Docs, NEW lo \in Nat, NEW n \in Nat, lo + n = Len(c)
    PROVE  /\ Posted(KeyFile(c, lo, n), doc.keys, n) = KeyFile(Append(c, doc), lo, n + 1)
           /\ Posted(CatFile(c, lo, n), doc.cats, n) = CatFile(Append(c, doc), lo, n + 1)
<1> DEFINE e == Append(c, doc)
<1>1. /\ \A l \in 0 .. n - 1 : e[lo + l + 1] = c[lo + l + 1]
      /\ e[lo + n + 1] = doc
  <2>1. \A l \in 0 .. n - 1 : lo + l + 1 \in 1 .. Len(c)
    OBVIOUS
  <2>2. \A i \in 1 .. Len(c) : e[i] = c[i]
    OBVIOUS
  <2>3. e[Len(c) + 1] = doc
    OBVIOUS
  <2> QED
    BY <2>1, <2>2, <2>3
<1> HIDE DEF e
<1>2. 0 .. n = (0 .. n - 1) \union {n} /\ n + 1 - 1 = n
  OBVIOUS
<1>3. ASSUME NEW k \in Keys
      PROVE  {l \in 0 .. n : k \in e[lo + l + 1].keys} =
               IF k \in doc.keys THEN {l \in 0 .. n - 1 : k \in c[lo + l + 1].keys} \union {n}
               ELSE {l \in 0 .. n - 1 : k \in c[lo + l + 1].keys}
  BY <1>1, <1>2
<1>4. ASSUME NEW x \in Cats
      PROVE  {l \in 0 .. n : x \in e[lo + l + 1].cats} =
               IF x \in doc.cats THEN {l \in 0 .. n - 1 : x \in c[lo + l + 1].cats} \union {n}
               ELSE {l \in 0 .. n - 1 : x \in c[lo + l + 1].cats}
  BY <1>1, <1>2
<1>5. Posted(KeyFile(c, lo, n), doc.keys, n) = KeyFile(e, lo, n + 1)
  BY <1>2, <1>3 DEF Posted, KeyFile
<1>6. Posted(CatFile(c, lo, n), doc.cats, n) = CatFile(e, lo, n + 1)
  BY <1>2, <1>4 DEF Posted, CatFile
<1> QED
  BY <1>5, <1>6 DEF e

\* A later document leaves the postings of earlier ones alone.
LEMMA PostingKeeps ==
    ASSUME NEW c \in Seq(Docs), NEW doc \in Docs, NEW lo \in Nat, NEW n \in Nat, lo + n <= Len(c)
    PROVE  /\ KeyFile(Append(c, doc), lo, n) = KeyFile(c, lo, n)
           /\ CatFile(Append(c, doc), lo, n) = CatFile(c, lo, n)
<1> DEFINE e == Append(c, doc)
<1>1. \A l \in 0 .. n - 1 : e[lo + l + 1] = c[lo + l + 1]
  <2>1. \A l \in 0 .. n - 1 : lo + l + 1 \in 1 .. Len(c)
    OBVIOUS
  <2>2. \A i \in 1 .. Len(c) : e[i] = c[i]
    OBVIOUS
  <2> QED
    BY <2>1, <2>2
<1> HIDE DEF e
<1> QED
  BY <1>1 DEF KeyFile, CatFile, e

\* The files in `a` and those in `z` are those of `full`, and both may have a copy.
Together(a, z, full) ==
    /\ DOMAIN a \union DOMAIN z = DOMAIN full
    /\ \A n \in DOMAIN a : a[n] = full[n]
    /\ \A n \in DOMAIN z : z[n] = full[n]

\* What a record of files is, as a function.
IsFcn(f) == f = [n \in DOMAIN f |-> f[n]]

\* The caller's write of what it was handed leaves it with all the files.
LEMMA TogetherWrites ==
    ASSUME NEW a, NEW z, NEW full, IsFcn(full), Together(a, z, full)
    PROVE  Beside(a, z) = full
<1>1. \A n \in DOMAIN full : full[n] = IF n \in DOMAIN a THEN a[n] ELSE z[n]
  BY DEF Together
<1> QED
  BY <1>1 DEF Together, IsFcn, Beside

\* A new file among those that are held is a new file in all.
LEMMA TogetherGrows ==
    ASSUME NEW a, NEW z, NEW full, Together(a, z, full), NEW n, n \notin DOMAIN full, NEW body,
           NEW more, DOMAIN more = DOMAIN full \union {n},
           \A i \in DOMAIN full : more[i] = full[i], more[n] = body
    PROVE  Together(a, Pushed(z, n, body), more)
BY DEF Together, Pushed

------------------------------------------------------------------------------
\* The files of the sealed splits, by number: every body, and the sidecars of
\* those that have a category.
Bodies(s, c) == [n \in 0 .. Len(s.specs) - 1 |-> KeyFile(c, s.specs[n + 1].lo, s.specs[n + 1].docCount)]
Tagged(s, c, n) == CatFile(c, s.specs[n + 1].lo, s.specs[n + 1].docCount)
Sidecars(s, c) ==
    [n \in {m \in 0 .. Len(s.specs) - 1 : Present(Tagged(s, c, m)) # {}} |-> Tagged(s, c, n)]

\* The summaries of the entries, made from what their files hold.
PresenceOf(postings) == IF Present(postings) = {} THEN NoSummary ELSE Present(postings)
Summaries(s, c) ==
    \A i \in DOMAIN s.specs :
        /\ s.specs[i].bloom = Bloom(KeyFile(c, s.specs[i].lo, s.specs[i].docCount))
        /\ s.specs[i].presence = PresenceOf(CatFile(c, s.specs[i].lo, s.specs[i].docCount))

\* The ranges ascend, end below the open split and leave out no id.
Covering(s) ==
    /\ \A i \in DOMAIN s.specs : s.specs[i].docCount \in Nat /\ s.specs[i].hi < s.globalBase
    /\ \A i, j \in DOMAIN s.specs : i < j => s.specs[i].hi < s.specs[j].lo
    /\ \A d \in 0 .. s.globalBase - 1 :
         \E i \in DOMAIN s.specs : s.specs[i].lo <= d /\ d <= s.specs[i].hi

\* The sealed splits of a builder: their places, and the ids and documents of each.
LEMMA SealedPlaces ==
    ASSUME NEW s, IsBuilder(s), Tiles(s), Covering(s)
    PROVE  /\ Len(s.specs) \in Nat /\ DOMAIN s.specs = 1 .. Len(s.specs)
           /\ s.openCount \in Nat /\ s.globalBase \in Nat /\ s.nextGlobalId = s.globalBase + s.openCount
           /\ \A i \in DOMAIN s.specs :
                 /\ s.specs[i].lo \in Nat /\ s.specs[i].hi \in Nat
                 /\ s.specs[i].docCount \in Nat /\ s.specs[i].hi < s.globalBase
                 /\ s.specs[i].hi = s.specs[i].lo + s.specs[i].docCount - 1
<1>1. /\ Len(s.specs) \in Nat /\ DOMAIN s.specs = 1 .. Len(s.specs)
      /\ s.openCount \in Nat /\ s.globalBase \in Nat
      /\ \A i \in DOMAIN s.specs : s.specs[i].lo \in Nat /\ s.specs[i].hi \in Nat
  BY ONLY IsBuilder(s) DEF IsBuilder
<1>2. \A i \in DOMAIN s.specs : s.specs[i].docCount \in Nat /\ s.specs[i].hi < s.globalBase
  BY ONLY Covering(s) DEF Covering
<1>3. /\ s.nextGlobalId = s.globalBase + s.openCount
      /\ \A i \in DOMAIN s.specs : s.specs[i].hi = s.specs[i].lo + s.specs[i].docCount - 1
  BY ONLY Tiles(s) DEF Tiles
<1> QED
  BY ONLY <1>1, <1>2, <1>3

\* What builder s and the files d on disk hold of corpus c: the open split its
\* documents, the buffers and the disk the files of all the others.
Content(s, d, c) ==
    /\ Covering(s) /\ Summaries(s, c)
    /\ s.open = KeyFile(c, s.globalBase, s.openCount)
    /\ s.openFacets = CatFile(c, s.globalBase, s.openCount)
    /\ Together(d.splits, s.blobs, Bodies(s, c))
    /\ Together(d.facets, s.facetBlobs, Sidecars(s, c))

\* Sealing turns the open split into files that hold the same, and entries that
\* tell it (SplitSetBuilder::seal).
LEMMA SealingKeepsContent ==
    ASSUME IsBuilder(b), Tiles(b), NEW d, NEW c, Content(b, d, c)
    PROVE  Content(Sealed, d, c)
<1>1. CASE b.openCount = 0
  BY <1>1 DEF Sealed
<1>2. CASE b.openCount # 0
  <2> DEFINE n == Len(b.specs)
             s == Sealed
             e == SealedSpec
             kf == KeyFile(c, b.globalBase, b.openCount)
             cf == CatFile(c, b.globalBase, b.openCount)
  <2>1. /\ s.open = [k \in Keys |-> {}] /\ s.openFacets = [x \in Cats |-> {}]
        /\ s.openCount = 0 /\ s.globalBase = b.nextGlobalId
        /\ s.specs = Append(b.specs, e)
        /\ s.blobs = Pushed(b.blobs, n, kf)
        /\ s.facetBlobs = IF Present(cf) = {} THEN b.facetBlobs ELSE Pushed(b.facetBlobs, n, cf)
    BY <1>2, SealedFields DEF Content
  <2>2. /\ e.lo = b.globalBase /\ e.hi = b.globalBase + b.openCount - 1
        /\ e.docCount = b.openCount /\ e.bloom = Bloom(kf) /\ e.presence = PresenceOf(cf)
    BY DEF SealedSpec, SealedHi, Content, PresenceOf
  <2>3. /\ n \in Nat /\ DOMAIN b.specs = 1 .. n
        /\ b.openCount \in Nat /\ b.globalBase \in Nat /\ b.nextGlobalId \in Nat
        /\ \A i \in 1 .. n : b.specs[i].lo \in Nat /\ b.specs[i].hi \in Nat
    BY DEF IsBuilder
  <2>4. b.nextGlobalId = b.globalBase + b.openCount
    BY DEF Tiles
  <2>5. /\ Len(s.specs) = n + 1 /\ DOMAIN s.specs = 1 .. n + 1 /\ s.specs[n + 1] = e
        /\ \A i \in 1 .. n : s.specs[i] = b.specs[i]
    <3> HIDE DEF s, e
    <3> QED
      BY <2>1, <2>3 DEF IsBuilder
  <2> HIDE DEF s, e, n
  <2>6. Covering(s)
    <3>1. /\ \A i \in 1 .. n : b.specs[i].docCount \in Nat /\ b.specs[i].hi < b.globalBase
          /\ \A i, j \in 1 .. n : i < j => b.specs[i].hi < b.specs[j].lo
          /\ \A g \in 0 .. b.globalBase - 1 :
               \E i \in 1 .. n : b.specs[i].lo <= g /\ g <= b.specs[i].hi
      BY <2>3 DEF Content, Covering
    <3>2. ASSUME NEW i \in 1 .. n + 1
          PROVE  s.specs[i].docCount \in Nat /\ s.specs[i].hi < s.globalBase
      <4>1. PICK x \in Nat, y \in Nat : x = b.globalBase /\ y = b.openCount
        BY <2>3
      <4>2. s.globalBase = x + y /\ e.docCount = y /\ e.hi = x + y - 1
        BY <2>1, <2>2, <2>4, <4>1
      <4>3. i \in 1 .. n \/ i = n + 1
        BY <2>3
      <4>4. CASE i \in 1 .. n
        <5>1. PICK h : h = s.specs[i].hi
          OBVIOUS
        <5>2. h \in Nat /\ h < x /\ s.specs[i].docCount \in Nat
          BY <2>3, <2>5, <3>1, <4>1, <4>4, <5>1
        <5>3. h < x + y
          BY ONLY <5>2, x \in Nat, y \in Nat
        <5> QED
          BY ONLY <4>2, <5>1, <5>2, <5>3
      <4>5. CASE i = n + 1
        <5>1. s.specs[i].docCount = y /\ s.specs[i].hi = x + y - 1
          BY <2>5, <4>2, <4>5
        <5>2. x + y - 1 < x + y
          OBVIOUS
        <5> QED
          BY <4>2, <5>1, <5>2
      <4> QED
        BY <4>3, <4>4, <4>5
    <3>3. ASSUME NEW i \in 1 .. n + 1, NEW j \in 1 .. n + 1, i < j
          PROVE  s.specs[i].hi < s.specs[j].lo
      <4>1. i \in 1 .. n /\ s.specs[i] = b.specs[i]
        BY <2>3, <2>5, <3>3
      <4>2. CASE j = n + 1
        BY <2>2, <2>5, <3>1, <4>1, <4>2
      <4>3. CASE j # n + 1
        <5>1. j \in 1 .. n /\ s.specs[j] = b.specs[j]
          BY <2>3, <2>5, <4>3
        <5> QED
          BY <3>1, <3>3, <4>1, <5>1
      <4> QED
        BY <4>2, <4>3
    <3>4. ASSUME NEW g \in 0 .. s.globalBase - 1
          PROVE  \E i \in 1 .. n + 1 : s.specs[i].lo <= g /\ g <= s.specs[i].hi
      <4>1. CASE g < b.globalBase
        <5>1. PICK i \in 1 .. n : b.specs[i].lo <= g /\ g <= b.specs[i].hi
          <6>1. PICK x \in Nat : x = b.globalBase
            BY <2>3
          <6>2. PICK y \in Nat : s.globalBase = y
            BY <2>1, <2>3
          <6>3. g \in 0 .. x - 1
            BY ONLY g \in 0 .. s.globalBase - 1, <4>1, <6>1, <6>2
          <6> QED
            BY <3>1, <6>1, <6>3
        <5>2. i \in 1 .. n + 1 /\ s.specs[i] = b.specs[i]
          BY <2>3, <2>5
        <5> QED
          BY <5>1, <5>2
      <4>2. CASE ~(g < b.globalBase)
        <5>1. e.lo <= g /\ g <= e.hi
          <6>1. PICK x \in Nat, y \in Nat : x = b.globalBase /\ y = b.openCount
            BY <2>3
          <6>2. e.lo = x /\ e.hi = x + y - 1 /\ s.globalBase = x + y /\ ~(g < x)
            BY <2>1, <2>2, <2>4, <4>2, <6>1
          <6> QED
            BY ONLY <6>2, g \in 0 .. s.globalBase - 1, x \in Nat, y \in Nat
        <5>2. n + 1 \in 1 .. n + 1
          BY <2>3
        <5> QED
          BY <2>5, <5>1, <5>2
      <4> QED
        BY <4>1, <4>2
    <3> QED
      BY <2>5, <3>2, <3>3, <3>4 DEF Covering
  <2>7. Summaries(s, c)
    <3>1. ASSUME NEW i \in 1 .. n
          PROVE  /\ s.specs[i].bloom = Bloom(KeyFile(c, s.specs[i].lo, s.specs[i].docCount))
                 /\ s.specs[i].presence = PresenceOf(CatFile(c, s.specs[i].lo, s.specs[i].docCount))
      <4>1. Summaries(b, c) /\ i \in DOMAIN b.specs
        BY <2>3 DEF Content
      <4>2. /\ b.specs[i].bloom = Bloom(KeyFile(c, b.specs[i].lo, b.specs[i].docCount))
            /\ b.specs[i].presence = PresenceOf(CatFile(c, b.specs[i].lo, b.specs[i].docCount))
        BY ONLY <4>1 DEF Summaries
      <4> QED
        BY <2>5, <4>2
    <3>2. \A i \in DOMAIN s.specs : i \in 1 .. n \/ i = n + 1
      BY <2>3, <2>5
    <3>3. /\ s.specs[n + 1].bloom = Bloom(KeyFile(c, s.specs[n + 1].lo, s.specs[n + 1].docCount))
          /\ s.specs[n + 1].presence = PresenceOf(CatFile(c, s.specs[n + 1].lo, s.specs[n + 1].docCount))
      BY <2>2, <2>5
    <3> QED
      BY ONLY <3>1, <3>2, <3>3 DEF Summaries
  <2>8. /\ s.open = KeyFile(c, s.globalBase, s.openCount)
        /\ s.openFacets = CatFile(c, s.globalBase, s.openCount)
    BY <2>1 DEF KeyFile, CatFile
  <2>9. /\ \A i \in 0 .. n - 1 : i + 1 \in 1 .. n /\ i \in 0 .. n /\ s.specs[i + 1] = b.specs[i + 1]
        /\ n \in 0 .. n /\ 0 .. n = (0 .. n - 1) \union {n} /\ n \notin 0 .. n - 1
        /\ n + 1 - 1 = n
    BY <2>3, <2>5
  <2>10. Together(d.splits, s.blobs, Bodies(s, c))
    <3>1. /\ DOMAIN Bodies(b, c) = 0 .. n - 1 /\ DOMAIN Bodies(s, c) = 0 .. n
          /\ \A i \in 0 .. n - 1 : Bodies(s, c)[i] = Bodies(b, c)[i]
          /\ Bodies(s, c)[n] = kf
      <4>1. /\ Bodies(b, c) = [i \in 0 .. n - 1 |-> KeyFile(c, b.specs[i + 1].lo, b.specs[i + 1].docCount)]
            /\ Bodies(s, c) = [i \in 0 .. n |-> KeyFile(c, s.specs[i + 1].lo, s.specs[i + 1].docCount)]
        BY <2>5, <2>9 DEF Bodies, n
      <4>2. KeyFile(c, s.specs[n + 1].lo, s.specs[n + 1].docCount) = kf
        BY <2>2, <2>5
      <4> HIDE DEF kf
      <4> QED
        BY <2>9, <4>1, <4>2
    <3>2. Together(d.splits, b.blobs, Bodies(b, c))
      BY DEF Content
    <3>3. n \notin DOMAIN Bodies(b, c) /\ DOMAIN Bodies(s, c) = DOMAIN Bodies(b, c) \union {n}
          /\ \A i \in DOMAIN Bodies(b, c) : Bodies(s, c)[i] = Bodies(b, c)[i]
      BY <2>9, <3>1
    <3> HIDE DEF kf
    <3>4. Together(d.splits, Pushed(b.blobs, n, kf), Bodies(s, c))
      BY <3>1, <3>2, <3>3, TogetherGrows
    <3> QED
      BY <2>1, <3>4
  <2>11. Together(d.facets, s.facetBlobs, Sidecars(s, c))
    <3>1. Together(d.facets, b.facetBlobs, Sidecars(b, c))
      BY DEF Content
    <3>2. /\ \A i \in 0 .. n - 1 : Tagged(s, c, i) = Tagged(b, c, i)
          /\ Tagged(s, c, n) = cf
      BY <2>2, <2>5, <2>9 DEF Tagged
    <3>3. /\ DOMAIN Sidecars(b, c) = {i \in 0 .. n - 1 : Present(Tagged(b, c, i)) # {}}
          /\ DOMAIN Sidecars(s, c) = {i \in 0 .. n : Present(Tagged(s, c, i)) # {}}
          /\ \A i \in DOMAIN Sidecars(b, c) : Sidecars(b, c)[i] = Tagged(b, c, i)
          /\ \A i \in DOMAIN Sidecars(s, c) : Sidecars(s, c)[i] = Tagged(s, c, i)
      BY <2>5, <2>9 DEF Sidecars, n
    <3>4. \A i \in DOMAIN Sidecars(b, c) : Sidecars(s, c)[i] = Sidecars(b, c)[i]
      BY <2>9, <3>2, <3>3
    <3>5. CASE Present(cf) = {}
      <4>1. DOMAIN Sidecars(s, c) = DOMAIN Sidecars(b, c)
        BY <2>9, <3>2, <3>3, <3>5
      <4> QED
        BY <2>1, <3>1, <3>4, <3>5, <4>1 DEF Together
    <3>6. CASE Present(cf) # {}
      <4>1. DOMAIN Sidecars(s, c) = DOMAIN Sidecars(b, c) \union {n} /\ n \notin DOMAIN Sidecars(b, c)
        BY <2>9, <3>2, <3>3, <3>6
      <4>2. Sidecars(s, c)[n] = cf
        BY <3>2, <3>3, <4>1
      <4>3. s.facetBlobs = Pushed(b.facetBlobs, n, cf)
        BY <2>1, <3>6
      <4> HIDE DEF cf
      <4>4. Together(d.facets, Pushed(b.facetBlobs, n, cf), Sidecars(s, c))
        BY <3>1, <3>4, <4>1, <4>2, TogetherGrows
      <4> QED
        BY <4>3, <4>4
    <3> QED
      BY <3>5, <3>6
  <2> QED
    BY <2>6, <2>7, <2>8, <2>10, <2>11 DEF Content, s
<1> QED
  BY <1>1, <1>2

\* Files are functions on their numbers.
LEMMA FilesAre == ASSUME NEW s, NEW c PROVE IsFcn(Bodies(s, c)) /\ IsFcn(Sidecars(s, c))
BY DEF IsFcn, Bodies, Sidecars

\* A document goes into the open split and nowhere else (add_inner).
LEMMA InsertingKeepsContent ==
    ASSUME NEW s, IsBuilder(s), Tiles(s), NEW c \in Seq(Docs), s.nextGlobalId = Len(c),
           NEW doc \in Docs, NEW d, Content(s, d, c)
    PROVE  Content(Inserted(s, doc), d, Append(c, doc))
<1> DEFINE t == Inserted(s, doc)
           e == Append(c, doc)
           n == Len(s.specs)
<1>1. /\ t.open = Posted(s.open, doc.keys, s.openCount)
      /\ t.openFacets = Posted(s.openFacets, doc.cats, s.openCount)
      /\ t.openCount = s.openCount + 1 /\ t.globalBase = s.globalBase
      /\ t.specs = s.specs /\ t.blobs = s.blobs /\ t.facetBlobs = s.facetBlobs
  BY InsertedFields
<1>2. /\ s.openCount \in Nat /\ s.globalBase \in Nat /\ s.globalBase + s.openCount = Len(c)
      /\ n \in Nat /\ DOMAIN s.specs = 1 .. n
      /\ \A i \in 1 .. n : /\ s.specs[i].lo \in Nat /\ s.specs[i].hi \in Nat
                           /\ s.specs[i].docCount \in Nat /\ s.specs[i].hi < s.globalBase
                           /\ s.specs[i].hi = s.specs[i].lo + s.specs[i].docCount - 1
  <2>1. Covering(s)
    BY DEF Content
  <2> QED
    BY <2>1, SealedPlaces
<1> HIDE DEF t, n
<1>3. \A i \in 1 .. n : /\ s.specs[i].docCount \in Nat
                        /\ s.specs[i].lo + s.specs[i].docCount <= Len(c)
  <2>1. PICK x \in Nat, y \in Nat : x = s.globalBase /\ y = s.openCount
    BY <1>2
  <2>2. ASSUME NEW i \in 1 .. n
        PROVE  s.specs[i].docCount \in Nat /\ s.specs[i].lo + s.specs[i].docCount <= Len(c)
    <3>1. PICK lo \in Nat, hi \in Nat, k \in Nat :
             lo = s.specs[i].lo /\ hi = s.specs[i].hi /\ k = s.specs[i].docCount
      BY <1>2
    <3>2. hi < x /\ hi = lo + k - 1 /\ Len(c) = x + y
      BY <1>2, <2>1, <3>1
    <3>3. lo + k <= x + y
      BY ONLY <3>2, lo \in Nat, hi \in Nat, k \in Nat, x \in Nat, y \in Nat
    <3> QED
      BY <3>1, <3>2, <3>3
  <2> QED
    BY <2>2
<1>4. \A i \in 1 .. n :
         /\ KeyFile(e, s.specs[i].lo, s.specs[i].docCount) = KeyFile(c, s.specs[i].lo, s.specs[i].docCount)
         /\ CatFile(e, s.specs[i].lo, s.specs[i].docCount) = CatFile(c, s.specs[i].lo, s.specs[i].docCount)
  BY <1>2, <1>3, PostingKeeps
<1>5. /\ t.open = KeyFile(e, t.globalBase, t.openCount)
      /\ t.openFacets = CatFile(e, t.globalBase, t.openCount)
  BY <1>1, <1>2, PostingGrows DEF Content
<1> HIDE DEF e
<1>6. Covering(t) /\ Summaries(t, e)
  <2>1. Covering(s) /\ Summaries(s, c)
    BY DEF Content
  <2> QED
    BY <1>1, <1>2, <1>4, <2>1 DEF Covering, Summaries
<1>7. \A i \in 0 .. n - 1 : i + 1 \in 1 .. n
  BY <1>2
<1>8. Bodies(t, e) = Bodies(s, c)
  BY <1>1, <1>4, <1>7 DEF Bodies, n
<1>9. Sidecars(t, e) = Sidecars(s, c)
  <2>1. \A i \in 0 .. n - 1 : Tagged(t, e, i) = Tagged(s, c, i)
    BY <1>1, <1>4, <1>7 DEF Tagged
  <2>2. {i \in 0 .. n - 1 : Present(Tagged(t, e, i)) # {}}
          = {i \in 0 .. n - 1 : Present(Tagged(s, c, i)) # {}}
    BY <2>1
  <2> QED
    BY <1>1, <2>1, <2>2 DEF Sidecars, n
<1> QED
  BY <1>1, <1>5, <1>6, <1>8, <1>9 DEF Content, t, e

------------------------------------------------------------------------------
\* What a build holds, at every step: all documents, each in its split; and when
\* it is done, all of them on disk.
ContentInv ==
    /\ TileInv /\ config \in Configs /\ Len(corpus) <= MaxDocs
    /\ phase \in {"building", "done", "failed"}
    /\ Content(b, disk, corpus)
    /\ phase = "done" => /\ b.openCount = 0
                         /\ disk.splits = Bodies(b, corpus) /\ disk.facets = Sidecars(b, corpus)

LEMMA InitContent == BuildInit => ContentInv
<1> SUFFICES ASSUME BuildInit PROVE ContentInv
  OBVIOUS
<1>1. TileInv
  BY InitTiles
<1>2. /\ config \in Configs /\ phase = "building" /\ corpus = << >>
      /\ b.open = [k \in Keys |-> {}] /\ b.openFacets = [x \in Cats |-> {}]
      /\ b.openCount = 0 /\ b.specs = << >> /\ b.globalBase = 0
      /\ b.blobs = NoFiles /\ b.facetBlobs = NoFiles
      /\ disk.splits = NoFiles /\ disk.facets = NoFiles
  BY DEF BuildInit
<1>3. Len(corpus) <= MaxDocs
  BY <1>2, BuildAssumption
<1>4. Covering(b) /\ Summaries(b, corpus)
  BY <1>2 DEF Covering, Summaries
<1>5. /\ b.open = KeyFile(corpus, b.globalBase, b.openCount)
      /\ b.openFacets = CatFile(corpus, b.globalBase, b.openCount)
  BY <1>2 DEF KeyFile, CatFile
<1>6. DOMAIN Bodies(b, corpus) = {} /\ DOMAIN Sidecars(b, corpus) = {}
  BY <1>2 DEF Bodies, Sidecars
<1>7. Together(NoFiles, NoFiles, Bodies(b, corpus)) /\ Together(NoFiles, NoFiles, Sidecars(b, corpus))
  BY <1>6 DEF Together, NoFiles
<1> QED
  BY <1>1, <1>2, <1>3, <1>4, <1>5, <1>7 DEF ContentInv, Content

\* Every call keeps it.
LEMMA StepContent == ContentInv /\ [BuildNext]_buildVars => ContentInv'
<1> SUFFICES ASSUME ContentInv, [BuildNext]_buildVars PROVE ContentInv'
  OBVIOUS
<1>1. TileInv'
  BY StepTiles DEF ContentInv
<1>2. /\ IsBuilder(b) /\ Tiles(b) /\ corpus \in Seq(Docs) /\ b.nextGlobalId = Len(corpus)
      /\ config \in Configs /\ Len(corpus) <= MaxDocs /\ Content(b, disk, corpus)
      /\ phase \in {"building", "done", "failed"}
  BY DEF ContentInv, TileInv
\* A filter is made under the configuration, which no call changes.
<1>3. ASSUME config' = config, NEW t, NEW d, NEW c, Content(t, d, c), b' = t, disk' = d, corpus' = c
      PROVE  Content(b, disk, corpus)'
  <2>1. \A p : Bloom(p)' = Bloom(p)
    BY <1>3 DEF Bloom
  <2>2. Summaries(b, corpus)'
    BY <1>3, <2>1 DEF Content, Summaries
  <2> QED
    BY <1>3, <2>2 DEF Content
<1>4. ASSUME NEW doc \in Docs, Add(doc) PROVE ContentInv'
  <2> DEFINE s == IF MustSeal(doc) THEN Sealed ELSE b
  <2>1. /\ b' = Inserted(s, doc) /\ corpus' = Append(corpus, doc) /\ Len(corpus) < MaxDocs
        /\ phase = "building" /\ phase' = phase /\ config' = config /\ disk' = disk
    BY <1>4 DEF Add
  <2>2. /\ IsBuilder(s) /\ Tiles(s) /\ s.nextGlobalId = Len(corpus) /\ Content(s, disk, corpus)
    BY <1>2, SealingTiles, SealingKeepsContent
  <2> HIDE DEF s
  <2>3. PICK t : t = Inserted(s, doc)
    OBVIOUS
  <2>4. PICK c : c = Append(corpus, doc)
    OBVIOUS
  <2>5. PICK d : d = disk
    OBVIOUS
  <2>6. Content(t, d, c)
    BY <1>2, <2>2, <2>3, <2>4, <2>5, InsertingKeepsContent
  <2>7. Content(b, disk, corpus)'
    BY <1>3, <2>1, <2>3, <2>4, <2>5, <2>6
  <2>8. (Len(corpus) <= MaxDocs)'
    <3>1. Len(corpus') = Len(corpus) + 1 /\ Len(corpus) \in Nat
      BY <1>2, <2>1
    <3> QED
      BY <2>1, <3>1, BuildAssumption
  <2> QED
    BY <1>1, <1>2, <2>1, <2>7, <2>8 DEF ContentInv
<1>5. ASSUME Drain PROVE ContentInv'
  <2>1. /\ b' = [b EXCEPT !.blobs = NoFiles, !.facetBlobs = NoFiles]
        /\ disk' = Written(b) /\ phase = "building" /\ UNCHANGED <<config, phase, corpus>>
    BY <1>5 DEF Drain
  <2>2. PICK t : t = [b EXCEPT !.blobs = NoFiles, !.facetBlobs = NoFiles]
    OBVIOUS
  <2>3. PICK c : c = corpus
    OBVIOUS
  <2>4. PICK d : d = Written(b)
    OBVIOUS
  <2>5. /\ t.open = b.open /\ t.openFacets = b.openFacets /\ t.openCount = b.openCount
        /\ t.globalBase = b.globalBase /\ t.specs = b.specs
        /\ t.blobs = NoFiles /\ t.facetBlobs = NoFiles
    BY <1>2, <2>2 DEF IsBuilder
  <2>6. d.splits = Bodies(b, c) /\ d.facets = Sidecars(b, c)
    BY <1>2, <2>3, <2>4, FilesAre, TogetherWrites DEF Content, Written
  <2>7. Bodies(t, c) = Bodies(b, c) /\ Sidecars(t, c) = Sidecars(b, c)
    BY <2>5 DEF Bodies, Sidecars, Tagged
  <2>8. Together(d.splits, t.blobs, Bodies(t, c)) /\ Together(d.facets, t.facetBlobs, Sidecars(t, c))
    BY <2>5, <2>6, <2>7 DEF Together, NoFiles
  <2>9. Content(t, d, c)
    BY <1>2, <2>3, <2>5, <2>8 DEF Content, Covering, Summaries
  <2>10. Content(b, disk, corpus)'
    BY <1>3, <2>1, <2>2, <2>3, <2>4, <2>9
  <2> QED
    BY <1>1, <1>2, <2>1, <2>10 DEF ContentInv
<1>6. ASSUME Finish PROVE ContentInv'
  <2>1. /\ b' = Sealed /\ UNCHANGED <<config, corpus>>
        /\ \/ phase' = "failed" /\ disk' = disk
           \/ phase' = "done" /\ disk' = Written(Sealed)
    BY <1>6 DEF Finish
  <2>2. PICK t : t = Sealed
    OBVIOUS
  <2>3. PICK c : c = corpus
    OBVIOUS
  <2>4. Content(t, disk, c)
    BY <1>2, <2>2, <2>3, SealingKeepsContent
  <2>5. t.openCount = 0
    BY <1>2, <2>2, SealedFields DEF Sealed
  <2>6. CASE phase' = "failed" /\ disk' = disk
    <3>1. PICK d : d = disk
      OBVIOUS
    <3>2. Content(b, disk, corpus)'
      BY <1>3, <2>1, <2>2, <2>3, <2>4, <2>6, <3>1
    <3> QED
      BY <1>1, <1>2, <2>1, <2>6, <3>2 DEF ContentInv
  <2>7. CASE phase' = "done" /\ disk' = Written(Sealed)
    <3>1. PICK d : d = Written(Sealed)
      OBVIOUS
    <3>2. d.splits = Bodies(t, c) /\ d.facets = Sidecars(t, c)
      BY <2>2, <2>4, <3>1, FilesAre, TogetherWrites DEF Content, Written
    <3>3. Together(d.splits, t.blobs, Bodies(t, c)) /\ Together(d.facets, t.facetBlobs, Sidecars(t, c))
      BY <2>4, <3>2 DEF Content, Together
    <3>4. Content(t, d, c)
      BY <2>4, <3>3 DEF Content
    <3>5. Content(b, disk, corpus)'
      BY <1>3, <2>1, <2>2, <2>3, <2>7, <3>1, <3>4
    <3>6. b' = t /\ disk' = d /\ corpus' = c
      BY <2>1, <2>2, <2>3, <2>7, <3>1
    <3>7. (b.openCount = 0 /\ disk.splits = Bodies(b, corpus) /\ disk.facets = Sidecars(b, corpus))'
      BY <2>5, <3>2, <3>6
    <3> QED
      BY <1>1, <1>2, <2>1, <3>5, <3>7 DEF ContentInv
  <2> QED
    BY <2>1, <2>6, <2>7
<1>7. CASE UNCHANGED buildVars
  <2>1. b' = b /\ UNCHANGED <<config, phase, disk, corpus>>
    BY <1>7 DEF buildVars
  <2>2. PICK t : t = b
    OBVIOUS
  <2>3. PICK c : c = corpus
    OBVIOUS
  <2>4. PICK d : d = disk
    OBVIOUS
  <2>5. Content(b, disk, corpus)'
    BY <1>2, <1>3, <2>1, <2>2, <2>3, <2>4
  <2> QED
    BY <1>1, <1>2, <2>1, <2>5 DEF ContentInv
<1> QED
  BY <1>4, <1>5, <1>6, <1>7 DEF BuildNext

\* Postings hold local ids.
LEMMA FilePostings ==
    ASSUME NEW c, NEW lo, NEW n
    PROVE  /\ DOMAIN KeyFile(c, lo, n) = Keys /\ Postings(KeyFile(c, lo, n)) \subseteq 0 .. n - 1
           /\ DOMAIN CatFile(c, lo, n) = Cats /\ Postings(CatFile(c, lo, n)) \subseteq 0 .. n - 1
BY DEF KeyFile, CatFile, Postings

\* A split has a summary of its categories when it has any.
LEMMA PresenceTells ==
    ASSUME NEW c, NEW lo, NEW n
    PROVE  PresenceOf(CatFile(c, lo, n)) = NoSummary <=> Present(CatFile(c, lo, n)) = {}
<1>1. Present(CatFile(c, lo, n)) \in SUBSET Cats
  BY DEF Present, CatFile
<1> QED
  BY <1>1, SummaryAssumption DEF PresenceOf

\* Streamed or not, a finished build leaves the named files on disk, and before
\* that nothing sealed is missing, whatever was drained when.
THEOREM FilesCompleteAlways == BuildSpec => []FilesComplete
<1>1. ContentInv => FilesComplete
  <2> SUFFICES ASSUME ContentInv, phase # "failed" PROVE FilesComplete
    BY DEF FilesComplete
  <2> DEFINE sealed == 0 .. Len(b.specs) - 1
             named == {n \in sealed : b.specs[n + 1].presence # NoSummary}
  <2>1. DOMAIN Bodies(b, corpus) = sealed
    BY DEF Bodies
  <2>2. DOMAIN Sidecars(b, corpus) = named
    <3>1. Len(b.specs) \in Nat /\ DOMAIN b.specs = 1 .. Len(b.specs)
      BY DEF ContentInv, TileInv, IsBuilder
    <3>2. ASSUME NEW n \in sealed
          PROVE  b.specs[n + 1].presence = NoSummary <=> Present(Tagged(b, corpus, n)) = {}
      <4>1. n + 1 \in DOMAIN b.specs
        BY <3>1
      <4>2. b.specs[n + 1].presence =
              PresenceOf(CatFile(corpus, b.specs[n + 1].lo, b.specs[n + 1].docCount))
        BY <4>1 DEF ContentInv, Content, Summaries
      <4> QED
        BY <4>2, PresenceTells DEF Tagged
    <3> QED
      BY <3>2 DEF Sidecars
  <2> HIDE DEF sealed, named
  <2>3. CASE phase = "building"
    <3>1. /\ DOMAIN disk.splits \union DOMAIN b.blobs = sealed
          /\ DOMAIN disk.facets \union DOMAIN b.facetBlobs = named
      BY <2>1, <2>2 DEF ContentInv, Content, Together
    <3> QED
      BY <2>3, <3>1 DEF FilesComplete, sealed, named
  <2>4. CASE phase = "done"
    <3>1. DOMAIN disk.splits = sealed /\ DOMAIN disk.facets = named
      BY <2>1, <2>2, <2>4 DEF ContentInv
    <3> QED
      BY <2>4, <3>1 DEF FilesComplete, sealed, named
  <2> QED
    BY <2>3, <2>4 DEF ContentInv
<1> QED
  BY <1>1, InitContent, StepContent, PTL DEF BuildSpec

\* Types; and every posting, in the open split and in every file, is a local id
\* of its own split.
THEOREM BuildTypeCorrect == BuildSpec => []BuildTypeOK
<1>1. ContentInv => BuildTypeOK
  <2> SUFFICES ASSUME ContentInv PROVE BuildTypeOK
    OBVIOUS
  <2>1. config \in Configs /\ phase \in {"building", "done", "failed"}
    BY DEF ContentInv
  <2>2. /\ DOMAIN b.open = Keys /\ Postings(b.open) \subseteq 0 .. b.openCount - 1
        /\ DOMAIN b.openFacets = Cats /\ Postings(b.openFacets) \subseteq 0 .. b.openCount - 1
    BY FilePostings DEF ContentInv, Content
  <2>3. /\ Together(disk.splits, b.blobs, Bodies(b, corpus))
        /\ Together(disk.facets, b.facetBlobs, Sidecars(b, corpus))
    BY DEF ContentInv, Content
  <2>4. ASSUME NEW full, full \in {Bodies(b, corpus), Sidecars(b, corpus)}, NEW n \in DOMAIN full
        PROVE  n \in 0 .. Len(b.specs) - 1 /\ Postings(full[n]) \subseteq 0 .. b.specs[n + 1].docCount - 1
    <3>1. CASE full = Bodies(b, corpus)
      <4>1. /\ n \in 0 .. Len(b.specs) - 1
            /\ full[n] = KeyFile(corpus, b.specs[n + 1].lo, b.specs[n + 1].docCount)
        BY <3>1 DEF Bodies
      <4> QED
        BY <4>1, FilePostings
    <3>2. CASE full = Sidecars(b, corpus)
      <4>1. /\ n \in 0 .. Len(b.specs) - 1
            /\ full[n] = CatFile(corpus, b.specs[n + 1].lo, b.specs[n + 1].docCount)
        BY <3>2 DEF Sidecars, Tagged
      <4> QED
        BY <4>1, FilePostings
    <3> QED
      BY <2>4, <3>1, <3>2
  <2>5. ASSUME NEW files \in {b.blobs, b.facetBlobs, disk.splits, disk.facets}, NEW n \in DOMAIN files
        PROVE  n \in 0 .. Len(b.specs) - 1 /\ Postings(files[n]) \subseteq 0 .. b.specs[n + 1].docCount - 1
    <3>1. PICK full \in {Bodies(b, corpus), Sidecars(b, corpus)} : n \in DOMAIN full /\ files[n] = full[n]
      BY <2>3, <2>5 DEF Together
    <3> QED
      BY <2>4, <3>1
  <2> QED
    BY <2>1, <2>2, <2>5 DEF BuildTypeOK
<1> QED
  BY <1>1, InitContent, StepContent, PTL DEF BuildSpec

------------------------------------------------------------------------------
(* The set that is opened.                                                    *)

\* The proofs about the reader, of the set that is opened here.
Answering == INSTANCE SplitSearchProofs WITH Sets <- {}

\* The document with an id, put together from the files of the split that claims
\* the id, is the one that was added under it.
LEMMA DocumentsRecovered ==
    ASSUME ContentInv, phase = "done", NEW g \in 0 .. b.nextGlobalId - 1
    PROVE  OpenedSet.docs[g].keys = corpus[g + 1].keys /\ OpenedSet.docs[g].cats = corpus[g + 1].cats
<1> DEFINE here(i) == b.specs[i].lo <= g /\ g <= b.specs[i].hi
           home == CHOOSE i \in DOMAIN b.specs : here(i)
<1>1. /\ IsBuilder(b) /\ Tiles(b) /\ corpus \in Seq(Docs) /\ b.nextGlobalId = Len(corpus)
      /\ Covering(b) /\ b.openCount = 0
      /\ disk.splits = Bodies(b, corpus) /\ disk.facets = Sidecars(b, corpus)
  BY DEF ContentInv, Content, TileInv
<1>2. b.globalBase = b.nextGlobalId /\ b.globalBase \in Nat
  BY <1>1 DEF Tiles, IsBuilder
<1>3. \E i \in DOMAIN b.specs : here(i)
  BY <1>1, <1>2 DEF Covering
<1>4. PICK i : i = home
  OBVIOUS
<1>5. i \in DOMAIN b.specs /\ here(i)
  BY <1>3, <1>4
<1>6. OpenedSet.docs[g] = Recovered(i - 1, g - b.specs[i].lo)
  BY ONLY <1>4, g \in 0 .. b.nextGlobalId - 1 DEF OpenedSet
<1> HIDE DEF home
<1> DEFINE n == i - 1
           lo == b.specs[i].lo
           count == b.specs[i].docCount
           l == g - lo
<1>7. Len(b.specs) \in Nat /\ DOMAIN b.specs = 1 .. Len(b.specs) /\ n + 1 = i /\ n \in 0 .. Len(b.specs) - 1
  <2>1. Len(b.specs) \in Nat /\ DOMAIN b.specs = 1 .. Len(b.specs)
    BY <1>1, SealedPlaces
  <2> QED
    BY <1>5, <2>1
<1>8. l \in 0 .. count - 1 /\ lo + l + 1 = g + 1
  <2>1. lo \in Nat /\ b.specs[i].hi \in Nat
    BY <1>1, <1>5 DEF IsBuilder
  <2>2. count \in Nat
    BY <1>1, <1>5 DEF Covering
  <2>3. b.specs[i].hi = lo + count - 1
    BY <1>1, <1>5 DEF Tiles
  <2>4. lo <= g /\ g <= b.specs[i].hi /\ g \in Nat
    BY <1>1, <1>5 DEF IsBuilder
  <2> HIDE DEF lo, count
  <2> QED
    BY <2>1, <2>2, <2>3, <2>4
<1>9. corpus[g + 1] \in Docs
  BY <1>1
<1>10. corpus[g + 1].keys \subseteq Keys /\ corpus[g + 1].cats \subseteq Cats
  BY <1>9, BuildAssumption
<1> HIDE DEF n, lo, count, l
<1>11. /\ \A k \in Keys : l \in KeyFile(corpus, lo, count)[k] <=> k \in corpus[g + 1].keys
       /\ \A x \in Cats : l \in CatFile(corpus, lo, count)[x] <=> x \in corpus[g + 1].cats
  BY <1>8 DEF KeyFile, CatFile
<1>12. disk.splits[n] = KeyFile(corpus, lo, count)
  BY <1>1, <1>7 DEF Bodies, lo, count
<1>13. /\ n \in DOMAIN disk.facets => disk.facets[n] = CatFile(corpus, lo, count)
       /\ n \notin DOMAIN disk.facets => Present(CatFile(corpus, lo, count)) = {}
  BY <1>1, <1>7 DEF Sidecars, Tagged, lo, count
<1>14. OpenedSet.docs[g].keys = corpus[g + 1].keys
  BY <1>6, <1>10, <1>11, <1>12 DEF Recovered, n, l, lo
<1>15. OpenedSet.docs[g].cats = corpus[g + 1].cats
  <2>1. CASE n \in DOMAIN disk.facets
    BY <1>6, <1>10, <1>11, <1>13, <2>1 DEF Recovered, n, l, lo
  <2>2. CASE n \notin DOMAIN disk.facets
    <3>1. \A x \in Cats : x \notin corpus[g + 1].cats
      BY <1>11, <1>13, <2>2 DEF Present, CatFile
    <3>2. OpenedSet.docs[g].cats = {}
      BY <1>6, <2>2 DEF Recovered, n
    <3> QED
      BY <1>10, <3>1, <3>2
  <2> QED
    BY <2>1, <2>2
<1> QED
  BY <1>14, <1>15

\* The reader's modules mean the same by finite as this one.
LEMMA FiniteIs == ASSUME NEW S PROVE /\ Answering!IsFiniteSet(S) <=> IsFiniteSet(S)
                                     /\ Reader!IsFiniteSet(S) <=> IsFiniteSet(S)
BY DEF Answering!IsFiniteSet, Reader!IsFiniteSet, IsFiniteSet

LEMMA CardinalityIs == ASSUME NEW S PROVE Answering!Cardinality(S) = Cardinality(S)
BY DEF Answering!Cardinality, Cardinality

\* A built set is one that a reader may rely on.
LEMMA OpenedIsSet ==
    ASSUME ContentInv, phase = "done"
    PROVE  Answering!IsSplitSet(OpenedSet) /\ Reader!IsSplitSet(OpenedSet)
<1> DEFINE S == OpenedSet
           N == b.nextGlobalId
           m == Len(b.specs)
<1>1. /\ IsBuilder(b) /\ Tiles(b) /\ corpus \in Seq(Docs) /\ N = Len(corpus)
      /\ Covering(b) /\ Summaries(b, corpus) /\ b.openCount = 0
  BY DEF ContentInv, Content, TileInv
<1>2. /\ N \in Nat /\ b.globalBase = N /\ m \in Nat /\ DOMAIN b.specs = 1 .. m
      /\ \A i \in 1 .. m : /\ b.specs[i].lo \in Nat /\ b.specs[i].hi \in Nat
                           /\ b.specs[i].docCount \in Nat /\ b.specs[i].hi < N
                           /\ b.specs[i].hi = b.specs[i].lo + b.specs[i].docCount - 1
  BY <1>1, SealedPlaces
<1>3. /\ S.policy = config.policy /\ S.delta = << >> /\ S.global = NoSummary
      /\ DOMAIN S.docs = 0 .. N - 1
      /\ S.col = IF config.sortcol THEN [d \in 0 .. N - 1 |-> N - d] ELSE NoSummary
      /\ S.base = [i \in 1 .. m |-> S.base[i]]
      /\ \A i \in 1 .. m : /\ S.base[i].ids = b.specs[i].lo .. b.specs[i].hi
                           /\ S.base[i].bloom = b.specs[i].bloom
                           /\ S.base[i].presence = b.specs[i].presence
                           /\ S.base[i].tomb = {}
  <2>1. /\ S.policy = config.policy /\ S.delta = << >> /\ S.global = NoSummary
        /\ DOMAIN S.docs = 0 .. N - 1
        /\ S.col = IF config.sortcol THEN [d \in 0 .. N - 1 |-> N - d] ELSE NoSummary
    BY DEF OpenedSet
  <2> DEFINE entry(i) == [lo |-> b.specs[i].lo, hi |-> b.specs[i].hi,
                          ids |-> b.specs[i].lo .. b.specs[i].hi,
                          bloom |-> b.specs[i].bloom, presence |-> b.specs[i].presence,
                          sidecar |-> i - 1 \in DOMAIN disk.facets, tomb |-> {}]
  <2>2. S.base = [i \in DOMAIN b.specs |-> entry(i)]
    BY DEF OpenedSet
  <2>3. DOMAIN b.specs = 1 .. m
    BY <1>2
  <2> HIDE DEF S, N, m
  <2>4. PICK f : f = S.base
    OBVIOUS
  <2>5. ASSUME NEW i \in 1 .. m
        PROVE  f[i].ids = b.specs[i].lo .. b.specs[i].hi /\ f[i].bloom = b.specs[i].bloom
               /\ f[i].presence = b.specs[i].presence /\ f[i].tomb = {}
    <3>1. f[i] = entry(i)
      BY <2>2, <2>3, <2>4
    <3> QED
      BY ONLY <3>1
  <2>6. f = [i \in 1 .. m |-> f[i]]
    <3> HIDE DEF entry
    <3> QED
      BY ONLY <2>2, <2>3, <2>4
  <2> QED
    BY ONLY <2>1, <2>4, <2>5, <2>6
<1>4. \A g \in 0 .. N - 1 : S.docs[g].keys = corpus[g + 1].keys /\ S.docs[g].cats = corpus[g + 1].cats
  BY DocumentsRecovered
<1> HIDE DEF S, N, m
<1>5. IsFiniteSet(DOMAIN S.docs) /\ DOMAIN S.docs \subseteq Nat
  BY <1>2, <1>3, FS_Interval
<1>6. DOMAIN S.base = 1 .. m /\ S.base \in Seq({S.base[i] : i \in 1 .. m})
  <2>1. DOMAIN S.base = 1 .. m
    BY <1>3
  <2> DEFINE f == S.base
  <2>2. f = [i \in 1 .. m |-> f[i]]
    BY <1>3
  <2> HIDE DEF f
  <2>3. f \in Seq({f[i] : i \in 1 .. m})
    BY <1>2, <2>2
  <2> QED
    BY <2>1, <2>3 DEF f
<1>7. ASSUME NEW i \in 1 .. m, NEW g \in S.base[i].ids
      PROVE  /\ g \in 0 .. N - 1
             /\ S.base[i].bloom # NoSummary => S.docs[g].keys \subseteq S.base[i].bloom
             /\ S.docs[g].cats \subseteq IF S.base[i].presence = NoSummary THEN {} ELSE S.base[i].presence
  <2> DEFINE lo == b.specs[i].lo
             count == b.specs[i].docCount
             l == g - lo
  <2>1. /\ g \in b.specs[i].lo .. b.specs[i].hi /\ g \in 0 .. N - 1
        /\ l \in 0 .. count - 1 /\ lo + l + 1 = g + 1
    <3>1. g \in b.specs[i].lo .. b.specs[i].hi
      BY <1>3, <1>7
    <3>2. /\ lo \in Nat /\ b.specs[i].hi \in Nat /\ count \in Nat /\ b.specs[i].hi < N
          /\ b.specs[i].hi = lo + count - 1 /\ N \in Nat
      BY <1>2
    <3> HIDE DEF lo, count
    <3>3. g \in lo .. b.specs[i].hi
      BY <3>1 DEF lo
    <3> QED
      BY <3>1, <3>2, <3>3
  <2>2. corpus[g + 1] \in Docs
    BY <1>1, <1>2, <2>1 DEF N
  <2>3. corpus[g + 1].keys \subseteq Keys /\ corpus[g + 1].cats \subseteq Cats
    BY <2>2, BuildAssumption
  <2>4. /\ S.base[i].bloom = Bloom(KeyFile(corpus, lo, count))
        /\ S.base[i].presence = PresenceOf(CatFile(corpus, lo, count))
    BY <1>1, <1>2, <1>3 DEF Summaries
  <2> HIDE DEF lo, count, l
  <2>5. corpus[g + 1].keys \subseteq Present(KeyFile(corpus, lo, count))
    <3>1. \A k \in corpus[g + 1].keys : l \in KeyFile(corpus, lo, count)[k]
      BY <2>1, <2>3 DEF KeyFile
    <3> QED
      BY <2>3, <3>1, FilePostings DEF Present
  <2>6. corpus[g + 1].cats \subseteq Present(CatFile(corpus, lo, count))
    <3>1. \A x \in corpus[g + 1].cats : l \in CatFile(corpus, lo, count)[x]
      BY <2>1, <2>3 DEF CatFile
    <3> QED
      BY <2>3, <3>1, FilePostings DEF Present
  <2>7. S.base[i].bloom # NoSummary => S.docs[g].keys \subseteq S.base[i].bloom
    BY <1>4, <2>1, <2>4, <2>5 DEF Bloom
  <2>8. S.docs[g].cats \subseteq IF S.base[i].presence = NoSummary THEN {} ELSE S.base[i].presence
    <3>1. CASE S.base[i].presence = NoSummary
      BY <1>4, <2>1, <2>4, <2>6, <3>1, PresenceTells
    <3>2. CASE S.base[i].presence # NoSummary
      BY <1>4, <2>1, <2>4, <2>6, <3>2 DEF PresenceOf
    <3> QED
      BY <3>1, <3>2
  <2> QED
    BY <2>1, <2>7, <2>8
<1>8. \A i, j \in 1 .. m : i < j => \A g \in S.base[i].ids, h \in S.base[j].ids : g < h
  <2> SUFFICES ASSUME NEW i \in 1 .. m, NEW j \in 1 .. m, i < j,
                      NEW g \in S.base[i].ids, NEW h \in S.base[j].ids
               PROVE  g < h
    OBVIOUS
  <2>1. b.specs[i].hi < b.specs[j].lo
    BY <1>1, <1>2 DEF Covering
  <2>2. g \in b.specs[i].lo .. b.specs[i].hi /\ h \in b.specs[j].lo .. b.specs[j].hi
    BY <1>3
  <2>3. /\ b.specs[i].lo \in Nat /\ b.specs[i].hi \in Nat
        /\ b.specs[j].lo \in Nat /\ b.specs[j].hi \in Nat
    BY <1>2
  <2> QED
    BY <2>1, <2>2, <2>3
<1>9. S.col # NoSummary => \A d \in DOMAIN S.docs : S.col[d] \in Nat
  BY <1>2, <1>3
<1>10. S.delta \in Seq({}) /\ DOMAIN S.delta = {}
  BY <1>3
<1>11. Answering!IsSplitSet(S)
  <2>1. ASSUME NEW i \in 1 .. m PROVE Answering!IsSplit(S, S.base[i])
    BY <1>3, <1>7 DEF Answering!IsSplit
  <2>2. Answering!Range(S.base) = {S.base[i] : i \in 1 .. m} /\ Answering!Range(S.delta) = {}
    BY <1>6, <1>10 DEF Answering!Range
  <2> QED
    BY <1>3, <1>5, <1>6, <1>8, <1>9, <1>10, <2>1, <2>2, FiniteIs DEF Answering!IsSplitSet
<1>12. Reader!IsSplitSet(S)
  <2>1. ASSUME NEW i \in 1 .. m PROVE Reader!IsSplit(S, S.base[i])
    BY <1>3, <1>7 DEF Reader!IsSplit
  <2>2. Reader!Range(S.base) = {S.base[i] : i \in 1 .. m} /\ Reader!Range(S.delta) = {}
    BY <1>6, <1>10 DEF Reader!Range
  <2> QED
    BY <1>3, <1>5, <1>6, <1>8, <1>9, <1>10, <2>1, <2>2, FiniteIs DEF Reader!IsSplitSet
<1> QED
  BY <1>11, <1>12 DEF S

------------------------------------------------------------------------------
(* The composed system.                                                      *)

\* The steps of the reader are those of the module that its proofs are about.
LEMMA SameHits ==
    /\ \A s : Reader!NoSidecar(s) <=> Answering!NoSidecar(s)
    /\ \A s : Reader!Opens(s) <=> Answering!Opens(s)
    /\ \A s, n : Reader!Hits(s, n) = Answering!Hits(s, n)
<1>1. \A s : Reader!Survives(s) <=> Answering!Survives(s)
  BY DEF Reader!Survives, Answering!Survives, Reader!PrunedByBloom, Answering!PrunedByBloom,
         Reader!FacetPruned, Answering!FacetPruned
<1>2. \A d : Reader!Satisfies(d) <=> Answering!Satisfies(d)
  BY DEF Reader!Satisfies, Answering!Satisfies
<1>3. \A S, o : Reader!Ranked(S, o) = Answering!Ranked(S, o)
  BY DEF Reader!Ranked, Answering!Ranked, Reader!Cardinality, Answering!Cardinality
<1>4. \A q, n : Reader!FirstOf(q, n) = Answering!FirstOf(q, n)
  BY DEF Reader!FirstOf, Answering!FirstOf, Reader!Min, Answering!Min
<1>5. \A s : Reader!NoSidecar(s) <=> Answering!NoSidecar(s)
  BY <1>1 DEF Reader!NoSidecar, Answering!NoSidecar
<1>6. \A s : Reader!Opens(s) <=> Answering!Opens(s)
  BY <1>1 DEF Reader!Opens, Answering!Opens, Reader!CategoriesOf, Answering!CategoriesOf
<1>7. \A s, n : Reader!Hits(s, n) = Answering!Hits(s, n)
  BY <1>1, <1>2, <1>3, <1>4 DEF Reader!Hits, Answering!Hits, Reader!ById, Answering!ById
<1> QED
  BY <1>5, <1>6, <1>7

LEMMA SameFlat == ASSUME NEW q PROVE Reader!FlattenSeq(q) = Answering!FlattenSeq(q)
BY DEF Reader!FlattenSeq, Answering!FlattenSeq

LEMMA SameStep == Reader!Next => Answering!Next
<1>1. \A sp, n : Reader!HitsOf(sp, n) = Answering!HitsOf(sp, n)
  <2> SUFFICES ASSUME NEW sp, NEW n PROVE Reader!HitsOf(sp, n) = Answering!HitsOf(sp, n)
    OBVIOUS
  <2>1. [i \in DOMAIN sp |-> Reader!Hits(sp[i], n)] = [i \in DOMAIN sp |-> Answering!Hits(sp[i], n)]
    BY SameHits
  <2> QED
    BY <2>1, SameFlat DEF Reader!HitsOf, Answering!HitsOf
<1>2. \A asked : Reader!FailRead(asked) <=> Answering!FailRead(asked)
  BY SameHits DEF Reader!FailRead, Answering!FailRead
<1>3. \A r : Reader!Ask(r) <=> Answering!Ask(r)
  BY DEF Reader!Ask, Answering!Ask
<1>4. Reader!Top <=> Answering!Top
  BY SameHits DEF Reader!Top, Answering!Top
<1>5. Reader!TopFails <=> Answering!TopFails
  BY <1>2 DEF Reader!TopFails, Answering!TopFails
<1>6. Reader!Probe <=> Answering!Probe
  BY DEF Reader!Probe, Answering!Probe
<1>7. \A q : Reader!ToSet(q) = Answering!ToSet(q)
  BY DEF Reader!ToSet, Answering!ToSet
<1>8. Reader!WaveEnd = Answering!WaveEnd /\ Reader!Wave = Answering!Wave
  BY DEF Reader!WaveEnd, Answering!WaveEnd, Reader!Wave, Answering!Wave, Reader!Min, Answering!Min
<1>9. Reader!Descend <=> Answering!Descend
  <2>1. \A q, n : Reader!FirstOf(q, n) = Answering!FirstOf(q, n)
    BY DEF Reader!FirstOf, Answering!FirstOf, Reader!Min, Answering!Min
  <2> QED
    BY <1>1, <1>7, <1>8, <2>1, SameHits DEF Reader!Descend, Answering!Descend
<1>10. Reader!DescendFails <=> Answering!DescendFails
  BY <1>2, <1>7, <1>8 DEF Reader!DescendFails, Answering!DescendFails
<1>11. Reader!Splits = Answering!Splits
  BY DEF Reader!Splits, Answering!Splits
<1>12. \A x, y : Reader!Merged(x, y) = Answering!Merged(x, y)
  <2>1. \A q, n : Reader!FirstOf(q, n) = Answering!FirstOf(q, n)
    BY DEF Reader!FirstOf, Answering!FirstOf, Reader!Min, Answering!Min
  <2>2. \A S, o : Reader!Ranked(S, o) = Answering!Ranked(S, o)
    BY DEF Reader!Ranked, Answering!Ranked, Reader!Cardinality, Answering!Cardinality
  <2>3. /\ Reader!Dead = Answering!Dead
        /\ Reader!BaseOrder = Answering!BaseOrder /\ Reader!ById = Answering!ById
    BY <1>7, <1>11 DEF Reader!Dead, Answering!Dead, Reader!BaseOrder,
                         Answering!BaseOrder, Reader!ById, Answering!ById
  <2> QED
    BY <2>1, <2>2, <2>3 DEF Reader!Merged, Answering!Merged
<1>13. Reader!Gather <=> Answering!Gather
  <2>1. Reader!Cardinality(DOMAIN set.docs) = Answering!Cardinality(DOMAIN set.docs)
    BY DEF Reader!Cardinality, Answering!Cardinality
  <2> QED
    BY <1>1, <1>7, <1>11, <1>12, <2>1, SameHits DEF Reader!Gather, Answering!Gather
<1>14. Reader!GatherFails <=> Answering!GatherFails
  BY <1>2, <1>7, <1>11 DEF Reader!GatherFails, Answering!GatherFails
<1> QED
  BY <1>3, <1>4, <1>5, <1>6, <1>9, <1>10, <1>13, <1>14 DEF Reader!Next, Answering!Next

\* What the proofs about the reader assume of its constants holds here.
LEMMA ReaderAssumptions ==
    /\ DescentWave \in Nat \ {0}
    /\ \A m \in {} : Answering!IsSplitSet(m)
    /\ Requests # {}
    /\ \A r \in Requests : r.limit \in Nat /\ Answering!IsFiniteSet(r.keys)
BY SearchAssumption, FiniteIs

\* Once it is open, the set is the one that the finished build describes, and
\* the reader keeps its own invariant over it.
SearchInv ==
    /\ ContentInv
    /\ \/ pc = "closed"
       \/ /\ phase = "done" /\ set = OpenedSet
          /\ pc = "idle" \/ Answering!IInv

LEMMA ReaderStep == ASSUME ContentInv, phase = "done", set = OpenedSet, pc = "idle" \/ Answering!IInv,
                           Reader!Next
                    PROVE  set' = set /\ Answering!IInv'
<1>1. set' = set
  BY DEF Reader!Next, Reader!Ask, Reader!Top, Reader!TopFails, Reader!Probe, Reader!Descend,
         Reader!DescendFails, Reader!Gather, Reader!GatherFails, Reader!FailRead
<1>2. Answering!Next
  BY SameStep
<1>3. CASE pc = "idle"
  <2>1. PICK r \in Requests : Answering!Ask(r)
    BY <1>2, <1>3 DEF Answering!Next, Answering!Top, Answering!TopFails, Answering!Probe,
                      Answering!Descend, Answering!DescendFails, Answering!Gather,
                      Answering!GatherFails
  <2>2. Answering!IsSplitSet(set)
    BY OpenedIsSet
  <2> QED
    BY <1>1, <2>1, <2>2, ReaderAssumptions, Answering!AskKeeps
<1>4. CASE Answering!IInv
  BY <1>1, <1>2, <1>4, ReaderAssumptions, Answering!StepKeeps
<1> QED
  BY <1>1, <1>3, <1>4

LEMMA SearchSteps == SearchInv /\ [Next]_<<buildVars, searchVars>> => SearchInv'
<1> SUFFICES ASSUME SearchInv, [Next]_<<buildVars, searchVars>> PROVE SearchInv'
  OBVIOUS
<1>1. ASSUME UNCHANGED buildVars PROVE OpenedSet' = OpenedSet
  BY <1>1 DEF OpenedSet, Recovered, buildVars
<1>2. ASSUME UNCHANGED buildVars PROVE ContentInv' /\ phase' = phase
  BY <1>2, StepContent DEF SearchInv, buildVars
<1>3. CASE Build
  <2>1. ContentInv' /\ UNCHANGED <<set, req, pc, out, next, opened>>
    BY <1>3, StepContent DEF Build, SearchInv, searchVars
  <2>2. CASE pc = "closed"
    BY <2>1, <2>2 DEF SearchInv
  <2>3. CASE phase = "done"
    BY <1>3, <2>3 DEF Build, BuildNext, Add, Drain, Finish
  <2> QED
    BY <2>2, <2>3 DEF SearchInv
<1>4. CASE Open
  BY <1>1, <1>2, <1>4 DEF Open, SearchInv
<1>5. CASE Search
  BY <1>1, <1>2, <1>5, ReaderStep DEF Search, SearchInv
<1>6. CASE UNCHANGED <<buildVars, searchVars>>
  <2>1. UNCHANGED <<set, req, pc, out, next, opened>> /\ UNCHANGED buildVars
    BY <1>6 DEF searchVars
  <2>2. Answering!IInv => Answering!IInv'
    <3>1. UNCHANGED Answering!vars
      BY <2>1 DEF Answering!vars
    <3> QED
      BY <3>1, ReaderAssumptions, Answering!StepKeeps
  <2> QED
    BY <1>1, <1>2, <2>1, <2>2 DEF SearchInv
<1> QED
  BY <1>3, <1>4, <1>5, <1>6 DEF Next

\* What the reader may answer with is what the corpus matches.
LEMMA AnswersAreMatching ==
    ASSUME ContentInv, phase = "done", set = OpenedSet
    PROVE  Answering!Answers(set.base) = Matching
<1> DEFINE N == b.nextGlobalId
           m == Len(b.specs)
<1>1. /\ IsBuilder(b) /\ Tiles(b) /\ corpus \in Seq(Docs) /\ N = Len(corpus)
      /\ Covering(b) /\ b.openCount = 0
  BY DEF ContentInv, Content, TileInv
<1>2. /\ N \in Nat /\ b.globalBase = N /\ m \in Nat /\ DOMAIN b.specs = 1 .. m
      /\ \A i \in 1 .. m : b.specs[i].lo \in Nat /\ b.specs[i].hi \in Nat /\ b.specs[i].hi < N
  BY <1>1 DEF Tiles, IsBuilder, Covering
<1>3. /\ DOMAIN set.base = 1 .. m /\ set.delta = << >>
      /\ \A i \in 1 .. m : set.base[i].ids = b.specs[i].lo .. b.specs[i].hi
  BY <1>2 DEF OpenedSet
<1>4. \A g \in 0 .. N - 1 : set.docs[g].keys = corpus[g + 1].keys /\ set.docs[g].cats = corpus[g + 1].cats
  BY DocumentsRecovered
<1>5. Answering!Dead = {}
  BY <1>3, OpenedIsSet, ReaderAssumptions, Answering!NothingDead
<1>6. \A d \in 0 .. N - 1 : \E i \in 1 .. m : d \in b.specs[i].lo .. b.specs[i].hi
  <2> SUFFICES ASSUME NEW d \in 0 .. N - 1
               PROVE  \E i \in 1 .. m : d \in b.specs[i].lo .. b.specs[i].hi
    OBVIOUS
  <2>1. PICK i \in 1 .. m : b.specs[i].lo <= d /\ d <= b.specs[i].hi
    <3>1. d \in 0 .. b.globalBase - 1
      BY <1>2
    <3> QED
      BY <1>1, <1>2, <3>1 DEF Covering
  <2> QED
    BY <1>2, <2>1
<1>7. \A i \in 1 .. m : b.specs[i].lo .. b.specs[i].hi \subseteq 0 .. N - 1
  BY <1>2
<1> HIDE DEF N, m
<1>8. Answering!Held(set.base) = 0 .. N - 1
  <2>1. Answering!Held(set.base) = UNION {b.specs[i].lo .. b.specs[i].hi : i \in 1 .. m}
    BY <1>3 DEF Answering!Held
  <2> QED
    BY <1>6, <1>7, <2>1
<1>9. \A d \in 0 .. N - 1 : Answering!Satisfies(d) <=> Wanted(d)
  BY <1>4 DEF Answering!Satisfies, Wanted
<1>10. Matching = {d \in 0 .. N - 1 : Wanted(d)}
  BY <1>1 DEF Matching
<1> QED
  BY <1>5, <1>8, <1>9, <1>10 DEF Answering!Answers

\* The reader's order is rank order.
LEMMA AheadIsOutranks ==
    ASSUME ContentInv, phase = "done", set = OpenedSet,
           NEW x, NEW y, <<x, y>> \in Answering!Ahead(Answering!BaseOrder, Matching)
    PROVE  Outranks(x, y)
<1> DEFINE N == b.nextGlobalId
           order == Answering!BaseOrder
<1>1. N = Len(corpus) /\ N \in Nat /\ N <= MaxDocs
  BY DEF ContentInv, TileInv, IsBuilder
<1>2. x \in 0 .. N - 1 /\ y \in 0 .. N - 1
  BY <1>1 DEF Answering!Ahead, Matching
<1>3. order[x] < order[y] \/ (order[x] = order[y] /\ x < y)
  BY DEF Answering!Ahead
<1>4. /\ set.policy = config.policy /\ DOMAIN set.docs = 0 .. N - 1
      /\ set.col = IF config.sortcol THEN [d \in 0 .. N - 1 |-> N - d] ELSE NoSummary
  BY DEF OpenedSet
<1>5. CASE config.policy = "stable" /\ config.sortcol
  <2>1. [d \in 0 .. N - 1 |-> N - d] # NoSummary
    <3>1. N \in 0 .. MaxDocs
      BY <1>1, BuildAssumption
    <3> QED
      BY <3>1, SummaryAssumption
  <2>2. order = [d \in 0 .. N - 1 |-> N - d]
    BY <1>4, <1>5, <2>1 DEF Answering!BaseOrder
  <2> HIDE DEF N, order
  <2>3. order[x] = N - x /\ order[y] = N - y
    BY <1>2, <2>2
  <2>4. x > y
    BY <1>1, <1>2, <1>3, <2>3
  <2> QED
    BY <1>5, <2>4 DEF Outranks
<1>6. CASE ~(config.policy = "stable" /\ config.sortcol)
  <2>1. order = [d \in 0 .. N - 1 |-> d]
    BY <1>4, <1>6 DEF Answering!BaseOrder, Answering!ById
  <2> HIDE DEF N, order
  <2>2. order[x] = x /\ order[y] = y
    BY <1>2, <2>1
  <2>3. x < y
    BY <1>1, <1>2, <1>3, <2>2
  <2> QED
    BY <1>6, <2>3 DEF Outranks
<1> QED
  BY <1>5, <1>6

\* Build any corpus, open what is on disk, ask anything: a finished page is the
\* first matches of the corpus in rank order (SplitSetBuilder, SplitSet::open
\* and the search methods of SplitSet).
THEOREM BuiltSetAnswersAlways == Spec => []BuiltSetAnswers
<1>1. Init => SearchInv
  BY InitContent DEF Init, SearchInv
<1>2. SearchInv => BuiltSetAnswers
  <2> SUFFICES ASSUME SearchInv PROVE BuiltSetAnswers
    OBVIOUS
  <2>1. OpenedIsSplitSet
    BY OpenedIsSet DEF SearchInv, OpenedIsSplitSet
  <2>2. ASSUME pc = "done"
        PROVE  /\ ToSet(out) \subseteq Matching
               /\ Len(out) = Min({req.limit, Cardinality(Matching)})
               /\ \A i, j \in DOMAIN out : i < j => Outranks(out[i], out[j])
               /\ \A d \in Matching \ ToSet(out) : \A i \in DOMAIN out : Outranks(out[i], d)
    <3>1. ContentInv /\ phase = "done" /\ set = OpenedSet /\ Answering!IInv
      BY <2>2 DEF SearchInv
    <3>2. PICK M : M = Answering!Answers(set.base)
      OBVIOUS
    <3>3. M = Matching
      BY <3>1, <3>2, AnswersAreMatching
    <3>4. Answering!Cardinality(M) = Cardinality(M)
      BY CardinalityIs
    <3>5. PICK n : n = IF req.limit <= Cardinality(M) THEN req.limit ELSE Cardinality(M)
      OBVIOUS
    <3>6. set.delta = << >>
      BY <3>1 DEF OpenedSet
    <3>7. /\ out \in Seq(M) /\ Len(out) = n
          /\ \A i, j \in 1 .. n : i < j => <<out[i], out[j]>> \in Answering!Ahead(Answering!BaseOrder, M)
          /\ \A d \in M : \/ \E i \in 1 .. n : out[i] = d
                          \/ \A i \in 1 .. n : <<out[i], d>> \in Answering!Ahead(Answering!BaseOrder, M)
      BY <2>2, <3>1, <3>2, <3>4, <3>5, <3>6, ReaderAssumptions, Answering!FinishedPage
    <3>8. DOMAIN out = 1 .. n
      BY <3>7
    <3>9. n = Min({req.limit, Cardinality(M)})
      <4>1. req.limit \in Nat
        BY <3>1, SearchAssumption DEF Answering!IInv
      <4>2. Cardinality(M) \in Nat
        <5>1. M \subseteq 0 .. Len(corpus) - 1 /\ Len(corpus) \in Nat
          BY <3>1, <3>3 DEF Matching, ContentInv, TileInv
        <5>2. IsFiniteSet(0 .. Len(corpus) - 1)
          BY <5>1, FS_Interval
        <5> QED
          BY <5>1, <5>2, FS_Subset, FS_CardinalityType
      <4>3. PICK l, c : l = req.limit /\ c = Cardinality(M)
        OBVIOUS
      <4>4. {l, c} \in SUBSET Nat /\ {l, c} # {}
        BY <4>1, <4>2, <4>3
      <4>5. Min({l, c}) \in {l, c} /\ \A z \in {l, c} : Min({l, c}) <= z
        BY <4>4, MinIsLeast
      <4> QED
        BY <3>5, <4>1, <4>2, <4>3, <4>5
    <3>10. ToSet(out) = {out[i] : i \in 1 .. n}
      BY <3>8 DEF ToSet
    <3>11. ToSet(out) \subseteq Matching
      BY <3>3, <3>7, <3>10
    <3>12. \A i, j \in DOMAIN out : i < j => Outranks(out[i], out[j])
      BY <3>1, <3>3, <3>7, <3>8, AheadIsOutranks
    <3>13. \A d \in Matching \ ToSet(out) : \A i \in DOMAIN out : Outranks(out[i], d)
      BY <3>1, <3>3, <3>7, <3>8, <3>10, AheadIsOutranks
    <3> QED
      BY <3>3, <3>7, <3>9, <3>11, <3>12, <3>13
  <2> QED
    BY <2>1, <2>2 DEF BuiltSetAnswers
<1> QED
  BY <1>1, <1>2, SearchSteps, PTL DEF Spec

\* The composition adds to the builder and takes nothing from it.
THEOREM BuildsAsBuilder == Spec => BuildSpec
<1>1. Init => BuildInit
  BY DEF Init
<1>2. [Next]_<<buildVars, searchVars>> => [BuildNext]_buildVars
  BY DEF Next, Build, Open, Search
<1> QED
  BY <1>1, <1>2, PTL DEF Spec, BuildSpec
==============================================================================
