----------------------------- MODULE QueryEval -------------------------------
(****************************************************************************)
(* How the RRS reader evaluates an n-gram query over postings that are      *)
(* fetched in pieces: rust/src/index.rs (threshold, the resolved facet      *)
(* filter) and rust/src/posting.rs (the whole-tail intersection and the     *)
(* bucket-wise TailScan).  A posting is a set of document ids; ids fall in  *)
(* buckets of PerBucket documents (65536 in the code), bucket 0 being the   *)
(* eager head.  Bytes, offsets and the coalescing of reads are left out.    *)
(****************************************************************************)
EXTENDS Naturals, FiniteSets, FiniteSetsExt

CONSTANTS
    PerBucket,    \* documents per container bucket
    KeyBatch      \* TAIL_KEY_BATCH, the buckets of one scan window

ASSUME BucketAssumption == PerBucket \in Nat \ {0} /\ KeyBatch \in Nat \ {0}

\* A query: its n-gram keys, the posting of each (empty when the dictionary
\* lacks the key), how many keys a document may miss, the facet filter (fields
\* of categories, and excluded categories, each category a set of documents),
\* and whether all its postings have the seekable container layout.
Bucket(d) == d \div PerBucket
Buckets(docs) == {Bucket(d) : d \in docs}
Within(docs, keys) == {d \in docs : Bucket(d) \in keys}

\* search_cursor_filtered: only keys the dictionary holds become records.
Recs(q) == {t \in q.keys : q.post[t] # {}}
MinMatch(q) == Max({1, Cardinality(q.keys) - Min({q.maxMissing, Cardinality(q.keys)})})
Strict(q) == MinMatch(q) = Cardinality(Recs(q))

\* threshold: the documents in the postings of at least m terms, by cascading
\* counters c[k] = seen in at least k postings so far, updated high to low.
Threshold(post, terms, m) ==
    LET Count(t, c) ==
            [k \in 1 .. m |-> IF k = 1 THEN c[1] \union post[t]
                              ELSE c[k] \union (c[k - 1] \intersect post[t])]
    IN  IF m > Cardinality(terms) THEN {}
        ELSE FoldSet(Count, [k \in 1 .. m |-> {}], terms)[m]

\* ResolvedFilter::combine and exclude_union on the postings restricted to
\* some buckets: OR within a field, AND across fields, minus the excluded.
HasEmptyArm(q) == {} \in q.fields
Filtered(q, docs, keys) ==
    {d \in docs : /\ \A f \in q.fields : \E c \in f : d \in Within(c, keys)
                  /\ \A c \in q.excludes : d \notin Within(c, keys)}

\* A Roaring iteration: ascending.
Sorted(docs) ==
    [i \in 1 .. Cardinality(docs) |->
        CHOOSE d \in docs : Cardinality({e \in docs : e < d}) = i - 1]

\* has_empty_arm, or too few of the keys in the dictionary: Cursor::empty.
Unmatchable(q) == HasEmptyArm(q) \/ Cardinality(Recs(q)) < MinMatch(q)

------------------------------------------------------------------------------
\* What a query asks for, as the file format documents it: the documents with
\* enough of the keys that pass the filter.
Passes(q, d) == /\ \A f \in q.fields : \E c \in f : d \in c
                /\ \A c \in q.excludes : d \notin c
Matching(q) ==
    {d \in UNION {q.post[t] : t \in q.keys} :
        Cardinality({t \in q.keys : d \in q.post[t]}) >= MinMatch(q) /\ Passes(q, d)}

\* A query's keys and postings are finite.
IsQuery(q) == /\ IsFiniteSet(q.keys)
              /\ q.maxMissing \in Nat
              /\ \A t \in q.keys : q.post[t] \in SUBSET Nat /\ IsFiniteSet(q.post[t])

------------------------------------------------------------------------------
\* The head: every record's eager prefix, thresholded and filtered.
HeadDocs(q) ==
    LET prefix == [t \in Recs(q) |-> Within(q.post[t], {0})]
    IN  Filtered(q, Threshold(prefix, Recs(q), MinMatch(q)), {0})

\* Mutant: excluded categories prune buckets like included ones.
ExcludePrunedKeys(q) ==
    {b \in UNION {Buckets(q.post[t]) : t \in Recs(q)} :
        /\ b >= 1
        /\ \A t \in Recs(q) : b \in Buckets(q.post[t])
        /\ \A f \in q.fields : \E c \in f : b \in Buckets(c)
        /\ \A c \in q.excludes : b \notin Buckets(c)}

\* TailScan::open: the buckets past the head that are in every posting and, per
\* field, in some selected category.
CandidateKeys(q) ==
    {b \in UNION {Buckets(q.post[t]) : t \in Recs(q)} :
        /\ b >= 1
        /\ \A t \in Recs(q) : b \in Buckets(q.post[t])
        /\ \A f \in q.fields : \E c \in f : b \in Buckets(c)}

\* The next window: the KeyBatch lowest of the keys left.
NextKeys(keys) == {k \in keys : Cardinality({j \in keys : j < k}) < KeyBatch}

\* intersect_key_window read from the seed posting outwards: the others are
\* fetched only in the buckets the seed left.  Which posting seeds, if any,
\* depends on byte costs; the answer must not.
SeededAnd(q, seed, keys) ==
    LET acc == Within(q.post[seed], keys)
    IN  {d \in acc : \A t \in Recs(q) : d \in Within(q.post[t], Buckets(acc))}

\* next_window, for some seed.
WindowDocs(q, seed, keys) == Filtered(q, SeededAnd(q, seed, keys), keys)

\* Mutant: the eager prefix is not dropped from the whole postings.
WholeTailWithHead(q, seed) ==
    LET all  == UNION {Buckets(q.post[t]) : t \in Recs(q)}
        docs == IF Strict(q) THEN SeededAnd(q, seed, all)
                ELSE Threshold(q.post, Recs(q), MinMatch(q))
    IN  Filtered(q, docs, all)

\* The whole-tail load: tail_intersect_and or the full postings' threshold,
\* less the eager prefix, filtered by the tail side of the facets.
WholeTail(q, seed) ==
    LET all  == UNION {Buckets(q.post[t]) : t \in Recs(q)}
        docs == IF Strict(q) THEN SeededAnd(q, seed, all)
                ELSE Threshold(q.post, Recs(q), MinMatch(q))
    IN  Filtered(q, {d \in docs : Bucket(d) >= 1}, all \ {0})
==============================================================================
