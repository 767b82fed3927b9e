------------------------------ MODULE SplitBuild ------------------------------
(****************************************************************************)
(* The batch builder of a split set, rust/src/splitset_build.rs: documents  *)
(* are fed in policy order, gathered in an open split, and sealed into an   *)
(* immutable split before an upper bound of its size would cross the byte   *)
(* cap of its tier.  The caller drains sealed files to disk as it likes,    *)
(* and writes the rest when it finishes.                                    *)
(*                                                                          *)
(* The builder is the record b of the fields of SplitSetBuilder, so that a  *)
(* call is a function of it.  A posting is a set of local ids; byte counts  *)
(* are those of the formats for splits of less than 65536 documents.  Files *)
(* are numbered by seal order, which is all that their names hold.          *)
(****************************************************************************)
EXTENDS Integers, Sequences, FiniteSets, FiniteSetsExt, SequencesExt

CONSTANTS
    Keys, Cats,     \* n-gram keys, facet categories
    Docs,           \* [keys, cats] of the documents a caller may add
    Configs,        \* [policy, sortcol, byteCap, byteCapMax, bloom]
    Stride,         \* keys per entry of a split's sparse index
    AlwaysMaybe,    \* keys that every Bloom filter happens to answer for
    WordBits,       \* width of the word that holds a byte count
    NoSummary,      \* a summary that a split does not carry
    MaxDocs         \* bound on the documents added

ASSUME BuildAssumption ==
    /\ Docs \subseteq [keys: SUBSET Keys, cats: SUBSET Cats]
    /\ IsFiniteSet(Keys) /\ AlwaysMaybe \subseteq Keys
    /\ Stride \in Nat \ {0} /\ WordBits \in Nat \ {0} /\ MaxDocs \in Nat

\* Byte caps are words.
ASSUME ConfigsAssumption ==
    \A c \in Configs : {c.byteCap, c.byteCapMax} \subseteq 0 .. 2 ^ WordBits - 1

\* A fact of arithmetic, about a power that no prover computes.
ASSUME WordAssumption == 2 ^ WordBits \in Nat \ {0}

VARIABLES
    config,         \* the SplitBuildConfig
    b,              \* the builder
    phase,          \* "building", "done", or "failed" if finish erred
    disk,           \* files the caller has written, by number
    corpus          \* history: the documents added, in order

buildVars == <<config, b, phase, disk, corpus>>

------------------------------------------------------------------------------
NoFiles == [n \in {} |-> {}]

\* A file more in a buffer.
Pushed(files, n, body) == [i \in DOMAIN files \union {n} |-> IF i = n THEN body ELSE files[i]]

\* What is there and what is handed over; a number is never written twice.
Beside(a, z) == [i \in DOMAIN a \union DOMAIN z |-> IF i \in DOMAIN a THEN a[i] ELSE z[i]]

BuildInit ==
    /\ config \in Configs
    /\ b = [open |-> [k \in Keys |-> {}], openFacets |-> [c \in Cats |-> {}],
            openCount |-> 0, globalBase |-> 0, nextGlobalId |-> 0, postingsUpper |-> 0,
            hasFacets |-> FALSE, specs |-> << >>, blobs |-> NoFiles, facetBlobs |-> NoFiles]
    /\ phase = "building"
    /\ disk = [splits |-> NoFiles, facets |-> NoFiles]
    /\ corpus = << >>

\* Keys and categories with a posting; the maps hold no others.
Present(postings) == {x \in DOMAIN postings : postings[x] # {}}

\* Mutant: a tier gets half of its cap.
HalfCap(tier) == config.byteCap \div 2

\* cap_for: checked_shl checks the shift and not the bits that it shifts out.
Shifted(tier) == (config.byteCap * 2 ^ Min({tier, WordBits - 1})) % 2 ^ WordBits
CapFor(tier) ==
    IF config.byteCapMax = 0 THEN config.byteCap
    ELSE Min({Shifted(tier), Max({config.byteCapMax, config.byteCap})})

SparseBytes(nkeys) == 8 * ((nkeys + Stride - 1) \div Stride)

\* estimate: header, PER_NEW_KEY_BYTES a key, sparse index, postings_upper.
Estimate ==
    LET nkeys == Cardinality(Present(b.open))
    IN 20 + 64 * nkeys + SparseBytes(nkeys) + b.postingsUpper

\* What write_index_with writes: header, sparse index, dictionary, postings.
BodyBytes(postings) ==
    LET nkeys == Cardinality(Present(postings))
    IN 16 + SparseBytes(nkeys)
          + MapThenSumSet(LAMBDA k : 20 + 16 + 2 * Cardinality(postings[k]), Present(postings))

\* Mutant: a document is charged for its elements and not for its new keys.
CheapMarginal(doc) == 2 * Cardinality(doc.keys)

\* The marginal cost of a document against the open split.
Marginal(doc) ==
    64 * Cardinality(doc.keys \ Present(b.open)) + 2 * Cardinality(doc.keys)

\* Mutant: the split ends one past its last document.
LateEnd(lo, count) == lo + count

\* The last global id of a sealed split.
SealedHi(lo, count) == lo + count - 1

\* Mutant: the filter is built after the postings were taken.
EmptyBloom(postings) == IF config.bloom THEN AlwaysMaybe ELSE NoSummary

\* bloom_build: no false negatives.
Bloom(postings) == IF config.bloom THEN Present(postings) \union AlwaysMaybe ELSE NoSummary

\* The manifest entry of the open split.
SealedSpec ==
    [lo       |-> b.globalBase,
     hi       |-> SealedHi(b.globalBase, b.openCount),
     docCount |-> b.openCount,
     byteSize |-> BodyBytes(b.open),
     tier     |-> IF config.policy = "tiered" THEN Len(b.specs) ELSE 0,
     bloom    |-> Bloom(b.open),
     presence |-> IF Present(b.openFacets) = {} THEN NoSummary ELSE Present(b.openFacets)]

\* seal: the builder with its open split sealed, if it holds a document.  A
\* split without facets has no sidecar.
Sealed ==
    IF b.openCount = 0 THEN b
    ELSE LET n == Len(b.specs)
         IN [b EXCEPT !.specs = Append(@, SealedSpec),
                      !.blobs = Pushed(@, n, b.open),
                      !.open = [k \in Keys |-> {}],
                      !.openFacets = [c \in Cats |-> {}],
                      !.facetBlobs = IF Present(b.openFacets) = {} THEN @
                                     ELSE Pushed(@, n, b.openFacets),
                      !.openCount = 0, !.globalBase = b.nextGlobalId, !.postingsUpper = 0]

\* The postings with document id under each of xs.
Posted(postings, xs, id) ==
    [x \in DOMAIN postings |-> IF x \in xs THEN postings[x] \union {id} ELSE postings[x]]

\* Mutant: postings hold global ids.
GlobalInserted(s, doc) ==
    [s EXCEPT !.open = Posted(@, doc.keys, s.nextGlobalId),
              !.openFacets = Posted(@, doc.cats, s.openCount),
              !.postingsUpper = @ + 2 * Cardinality(doc.keys),
              !.hasFacets = IF doc.cats = {} THEN @ ELSE TRUE,
              !.openCount = @ + 1, !.nextGlobalId = @ + 1]

\* The tail of add_inner: the document goes in the open split of builder s
\* under the next local id.
Inserted(s, doc) ==
    [s EXCEPT !.open = Posted(@, doc.keys, s.openCount),
              !.openFacets = Posted(@, doc.cats, s.openCount),
              !.postingsUpper = @ + 2 * Cardinality(doc.keys),
              !.hasFacets = IF doc.cats = {} THEN @ ELSE TRUE,
              !.openCount = @ + 1, !.nextGlobalId = @ + 1]

MustSeal(doc) == b.openCount > 0 /\ Estimate + Marginal(doc) > CapFor(Len(b.specs))

------------------------------------------------------------------------------
\* add_keys, add_text and add_faceted.
Add(doc) ==
    /\ phase = "building" /\ Len(corpus) < MaxDocs
    /\ b' = Inserted(IF MustSeal(doc) THEN Sealed ELSE b, doc)
    /\ corpus' = Append(corpus, doc)
    /\ UNCHANGED <<config, phase, disk>>

\* What the caller writes when it is handed the files of builder s.
Written(s) ==
    [splits |-> Beside(disk.splits, s.blobs), facets |-> Beside(disk.facets, s.facetBlobs)]

\* Mutant: drain_sealed clears both buffers and returns the splits alone.
LossyDrain ==
    /\ phase = "building"
    /\ b' = [b EXCEPT !.blobs = NoFiles, !.facetBlobs = NoFiles]
    /\ disk' = [disk EXCEPT !.splits = Beside(@, b.blobs)]
    /\ UNCHANGED <<config, phase, corpus>>

\* drain_sealed, and the caller's writes.
Drain ==
    /\ phase = "building"
    /\ b' = [b EXCEPT !.blobs = NoFiles, !.facetBlobs = NoFiles]
    /\ disk' = Written(b)
    /\ UNCHANGED <<config, phase, corpus>>

\* A split of one document above the cap of its tier: the degenerate corpus.
Degenerate(specs) ==
    \E i \in DOMAIN specs : specs[i].docCount = 1 /\ specs[i].byteSize > CapFor(i - 1)

\* finish consumes the builder; the caller writes what it returns.
Finish ==
    /\ phase = "building"
    /\ b' = Sealed
    /\ IF Degenerate(Sealed.specs)
       THEN phase' = "failed" /\ UNCHANGED disk
       ELSE phase' = "done" /\ disk' = Written(Sealed)
    /\ UNCHANGED <<config, corpus>>

BuildNext == (\E doc \in Docs : Add(doc)) \/ Drain \/ Finish

BuildSpec == BuildInit /\ [][BuildNext]_buildVars

------------------------------------------------------------------------------
Specs == Range(b.specs)
Postings(sets) == UNION {sets[x] : x \in DOMAIN sets}

\* Types; and the postings of the open split, its sidecar and every file hold
\* local ids of their own split, as the readers assume.
BuildTypeOK ==
    /\ config \in Configs /\ phase \in {"building", "done", "failed"}
    /\ DOMAIN b.open = Keys /\ Postings(b.open) \subseteq 0 .. b.openCount - 1
    /\ DOMAIN b.openFacets = Cats /\ Postings(b.openFacets) \subseteq 0 .. b.openCount - 1
    /\ \A files \in {b.blobs, b.facetBlobs, disk.splits, disk.facets} :
         \A n \in DOMAIN files :
            /\ n \in 0 .. Len(b.specs) - 1
            /\ Postings(files[n]) \subseteq 0 .. b.specs[n + 1].docCount - 1

\* "Nothing is dropped": the ranges of the sealed splits tile the ids from 0
\* to the open split, whose documents follow, up to the last one added.
RangesTile ==
    /\ \A i \in DOMAIN b.specs :
         /\ b.specs[i].lo = IF i = 1 THEN 0 ELSE b.specs[i - 1].hi + 1
         /\ b.specs[i].hi = b.specs[i].lo + b.specs[i].docCount - 1
         /\ b.specs[i].docCount > 0
    /\ b.globalBase = IF b.specs = << >> THEN 0 ELSE b.specs[Len(b.specs)].hi + 1
    /\ b.nextGlobalId = b.globalBase + b.openCount
    /\ b.nextGlobalId = Len(corpus)

\* "guaranteeing each sealed split is <= cap": the file of a split of several
\* documents fits the cap of its own tier, whatever the estimate said.
SealedFits ==
    \A i \in DOMAIN b.specs : b.specs[i].docCount > 1 => b.specs[i].byteSize <= CapFor(i - 1)

\* "A degenerate corpus": one with a document whose own postings exceed the
\* byte cap.
Alone(doc) == BodyBytes([k \in Keys |-> IF k \in doc.keys THEN {0} ELSE {}])
DegenerateCorpus == \E doc \in Range(corpus) : Alone(doc) > config.byteCap

\* A document was sealed by itself at a tier whose growing cap lost its high
\* bits, and is above what the shift left of it.
CapLost ==
    /\ config.byteCapMax # 0
    /\ \E i \in DOMAIN b.specs :
          /\ Shifted(i - 1) < config.byteCap
          /\ b.specs[i].docCount = 1 /\ b.specs[i].byteSize > Shifted(i - 1)

\* finish errs only for a degenerate corpus, or for a cap that was doubled out
\* of its word: a fitting document fails no build otherwise, at any tier.
FittingCorpusBuilds == phase = "failed" => DegenerateCorpus \/ CapLost

\* Streamed or not, a finished build leaves on disk each split the manifest
\* names, and a sidecar for exactly those that promise facets; before, what is
\* sealed is on disk or still in the builder.
FilesComplete ==
    LET held(files) == IF phase = "building" THEN DOMAIN files ELSE {}
        sealed == 0 .. Len(b.specs) - 1
    IN phase # "failed" =>
        /\ DOMAIN disk.splits \union held(b.blobs) = sealed
        /\ DOMAIN disk.facets \union held(b.facetBlobs) =
             {n \in sealed : b.specs[n + 1].presence # NoSummary}
==============================================================================
