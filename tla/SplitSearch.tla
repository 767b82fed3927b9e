----------------------------- MODULE SplitSearch -----------------------------
(****************************************************************************)
(* How a reader answers queries over a split set, rust/src/splitset.rs: it  *)
(* prunes splits by their Bloom and facet summaries, descends the tiers in  *)
(* bounded waves until the page is full, or merges base and delta splits    *)
(* and drops the documents that tombstones supersede.                       *)
(*                                                                          *)
(* The manifest is immutable while it is queried.  What one split answers   *)
(* is the module SearchCursor's subject; here a split is asked at once for  *)
(* its first matches in id order.  A Bloom filter is the set of keys it     *)
(* answers "maybe" for: a superset of the keys added to it.                 *)
(****************************************************************************)
EXTENDS Integers, Sequences, FiniteSets, FiniteSetsExt, SequencesExt

CONSTANTS
    Sets,           \* the split sets a reader may open
    Requests,       \* [keys, filter, limit] of each query
    NoSummary,      \* a summary that the manifest does not carry
    DescentWave     \* DESCENT_WAVE, the splits opened at once below the top

ASSUME WaveAssumption == DescentWave \in Nat \ {0}

\* A split as the builder and the writer emit it: a summary never denies a key
\* or a category of its documents, and one with no facets has no documents with
\* categories where the set carries facet summaries.
IsSplit(m, s) ==
    /\ s.ids \subseteq DOMAIN m.docs
    /\ s.bloom # NoSummary => \A d \in s.ids : m.docs[d].keys \subseteq s.bloom
    /\ m.flagFacet => \A d \in s.ids : m.docs[d].cats \subseteq
                         IF s.presence = NoSummary THEN {} ELSE s.presence

\* The base splits hold ascending ids, and only a set with deltas has tombstones.
IsSplitSet(m) ==
    /\ IsFiniteSet(DOMAIN m.docs) /\ DOMAIN m.docs \subseteq Nat
    /\ m.base \in Seq(Range(m.base)) /\ m.delta \in Seq(Range(m.delta))
    /\ \A i \in DOMAIN m.base : IsSplit(m, m.base[i])
    /\ \A i \in DOMAIN m.delta : IsSplit(m, m.delta[i])
    /\ \A i, j \in DOMAIN m.base : i < j => \A a \in m.base[i].ids, b \in m.base[j].ids : a < b
    /\ m.delta = << >> => \A i \in DOMAIN m.base : m.base[i].tomb = {}
    /\ m.global # NoSummary => \A d \in DOMAIN m.docs : m.docs[d].keys \subseteq m.global
    /\ m.policy = "stable" /\ m.col # NoSummary => \A d \in DOMAIN m.docs : m.col[d] \in Nat

ASSUME SetsAssumption == \A m \in Sets : IsSplitSet(m)
ASSUME RequestsAssumption ==
    /\ Requests # {}
    /\ \A r \in Requests : r.limit \in Nat /\ IsFiniteSet(r.keys)

VARIABLES
    set,            \* the open SplitSet
    req,            \* the query being answered
    pc,             \* where the answer stands
    out,            \* the hits gathered, as global ids
    next,           \* base splits already asked
    opened          \* base splits whose body was opened

vars == <<set, req, pc, out, next, opened>>

\* absent: the query failed because a facet sidecar does not exist.  failed:
\* some other read failed.
Steps == {"idle", "top", "probe", "wave", "gather", "done", "absent", "failed"}

TypeOK ==
    /\ req \in Requests
    /\ pc \in Steps
    /\ Range(out) \subseteq DOMAIN set.docs /\ IsInjective(out)
    /\ next \in 0 .. Len(set.base)
    /\ opened \subseteq DOMAIN set.base

Init ==
    /\ set \in Sets
    /\ req = CHOOSE r \in Requests : TRUE
    /\ pc = "idle" /\ out = << >> /\ next = 0 /\ opened = {}

------------------------------------------------------------------------------
Splits == set.base \o set.delta

\* pruned_by_bloom: some key is definitely absent.
PrunedByBloom(s) == s.bloom # NoSummary /\ ~(req.keys \subseteq s.bloom)

\* facet_pruned: with facet summaries in the manifest, a split that has none,
\* or none of the categories selected in some field.
FacetPruned(s) ==
    /\ req.filter # {} /\ set.flagFacet
    /\ s.presence = NoSummary \/ \E arm \in req.filter : arm \intersect s.presence = {}

Survives(s) == ~PrunedByBloom(s) /\ ~FacetPruned(s)

\* A filter reads the sidecar of every surviving split.
NoSidecar(s) == req.filter # {} /\ Survives(s) /\ ~s.sidecar

\* search_split_filtered leaves before it opens the body if the sidecar has no
\* category of some selected field.
CategoriesOf(s) == UNION {set.docs[d].cats : d \in s.ids}
Opens(s) == Survives(s) /\ \A arm \in req.filter : arm \intersect CategoriesOf(s) # {}

Satisfies(d) ==
    /\ req.keys # {} /\ req.keys \subseteq set.docs[d].keys
    /\ \A arm \in req.filter : arm \intersect set.docs[d].cats # {}

\* The ids of S by ascending `order`, ties by id (SortCols::topk, sort_unstable).
Ranked(S, order) ==
    LET before(a, b) == order[a] < order[b] \/ (order[a] = order[b] /\ a <= b)
    IN [i \in 1 .. Cardinality(S) |->
          CHOOSE d \in S : Cardinality({e \in S : before(e, d)}) = i]

ById == [d \in DOMAIN set.docs |-> d]
FirstOf(s, n) == SubSeq(s, 1, Min({n, Len(s)}))

\* One split's answer: its first n matches as global ids, nothing if pruned.
Hits(s, n) ==
    IF Survives(s) THEN FirstOf(Ranked({d \in s.ids : Satisfies(d)}, ById), n) ELSE << >>

HitsOf(splits, n) == FlattenSeq([i \in DOMAIN splits |-> Hits(splits[i], n)])

\* tombstone: the ids every split of the set supersedes.
Dead == UNION {s.tomb : s \in ToSet(Splits)}

\* The sort column, or the id where the set has none.
BaseOrder == IF set.policy = "stable" /\ set.col # NoSummary THEN set.col ELSE ById

------------------------------------------------------------------------------
\* A read of one of these splits comes back with an error.
FailRead(asked) ==
    /\ pc' \in IF \E s \in asked : NoSidecar(s) THEN {"absent", "failed"} ELSE {"failed"}
    /\ UNCHANGED <<set, req, out, next, opened>>

\* search / search_filtered: a new query, dispatched on the deltas and policy.
Ask(r) ==
    /\ pc \in {"idle", "done", "absent", "failed"}
    /\ req' = r
    /\ out' = << >> /\ next' = 0 /\ opened' = {}
    /\ pc' = IF r.limit = 0 THEN "done"
             ELSE IF set.delta # << >> \/ set.policy = "stable" THEN "gather"
             ELSE IF set.base = << >> THEN "done" ELSE "top"
    /\ UNCHANGED set

\* The top split is asked alone.
Top ==
    LET s == set.base[1]
    IN /\ pc = "top"
       /\ ~NoSidecar(s)
       /\ out' = Hits(s, req.limit)
       /\ next' = 1
       /\ opened' = {i \in {1} : Opens(s)}
       /\ pc' = IF Len(out') >= req.limit THEN "done"
                ELSE IF out' = << >> THEN "probe" ELSE "wave"
       /\ UNCHANGED <<set, req>>

TopFails == pc = "top" /\ FailRead({set.base[1]})

\* global_bloom_says_present: only a definite absence ends the descent.  The
\* filter may also be missing or unreadable, and then the descent goes on.
Probe ==
    /\ pc = "probe"
    /\ \/ pc' = "wave"
       \/ set.global # NoSummary /\ ~(req.keys \subseteq set.global) /\ pc' = "done"
    /\ UNCHANGED <<set, req, out, next, opened>>

\* Mutant: the descent opens every split that is left.
WholeWaveEnd == Len(set.base)

\* chunks(DESCENT_WAVE): where the next wave ends.
WaveEnd == Min({next + DescentWave, Len(set.base)})

\* Mutant: a wave starts at a split that was already asked.
OverlappingWave == SubSeq(set.base, next, WaveEnd)

\* The splits of the next wave; none after a set of a single split.
Wave == SubSeq(set.base, next + 1, WaveEnd)

\* One wave of the tail: every split in it is asked for a full page.
Descend ==
    /\ pc = "wave"
    /\ \A s \in ToSet(Wave) : ~NoSidecar(s)
    /\ out' = FirstOf(out \o HitsOf(Wave, req.limit), req.limit)
    /\ next' = WaveEnd
    /\ opened' = opened \union {i \in next + 1 .. WaveEnd : Opens(set.base[i])}
    /\ pc' = IF Len(out') >= req.limit \/ next' = Len(set.base) THEN "done" ELSE "wave"
    /\ UNCHANGED <<set, req>>

DescendFails == pc = "wave" /\ Wave # << >> /\ FailRead(ToSet(Wave))

\* Mutant: tombstones mask the base only.
BaseOnlyMasked(base, delta) ==
    FirstOf(Ranked(base \ Dead, BaseOrder) \o Ranked(delta, ById), req.limit)

\* merge_supersede_rank: superseded ids go from base and deltas alike, the
\* base is ranked by the policy and the deltas follow in ingest order.
Merged(base, delta) ==
    FirstOf(Ranked(base \ Dead, BaseOrder) \o Ranked(delta \ Dead, ById), req.limit)

\* search_stable_key, search_with_delta and the merge path of search_filtered:
\* every surviving split is asked for all its matches.
Gather ==
    /\ pc = "gather"
    /\ \A s \in ToSet(Splits) : ~NoSidecar(s)
    /\ out' = Merged(ToSet(HitsOf(set.base, Cardinality(DOMAIN set.docs))),
                     ToSet(HitsOf(set.delta, Cardinality(DOMAIN set.docs))))
    /\ opened' = {i \in DOMAIN set.base : Opens(set.base[i])}
    /\ next' = Len(set.base)
    /\ pc' = "done"
    /\ UNCHANGED <<set, req>>

GatherFails == pc = "gather" /\ FailRead(ToSet(Splits))

Next ==
    \/ \E r \in Requests : Ask(r)
    \/ Top \/ TopFails \/ Probe \/ Descend \/ DescendFails
    \/ Gather \/ GatherFails

Spec == Init /\ [][Next]_vars

------------------------------------------------------------------------------
\* Split::contains: a split without documents contains nothing.
Covers(s, d) == s.ids # {} /\ s.lo <= d /\ d <= s.hi

\* Mutant: the nominal range of a deletes-only split counts.
NominalOwner(d) ==
    CHOOSE i \in DOMAIN Splits :
        /\ Splits[i].lo <= d /\ d <= Splits[i].hi
        /\ \A j \in 1 .. i - 1 : ~(Splits[j].lo <= d /\ d <= Splits[j].hi)

\* ids_by_split: the first split whose range holds the id.
Owner(d) ==
    CHOOSE i \in DOMAIN Splits :
        Covers(Splits[i], d) /\ \A j \in 1 .. i - 1 : ~Covers(Splits[j], d)

\* Index::count_estimate of one split: the shortest posting of the keys.
SplitEstimate(s) ==
    Min({Cardinality({d \in s.ids : k \in set.docs[d].keys}) : k \in req.keys})

\* Mutant: an estimate is called exact whenever there is a single key.
HastyEstimate ==
    LET sum == FoldSeq(LAMBDA s, n : n + IF PrunedByBloom(s) THEN 0 ELSE SplitEstimate(s),
                       0, Splits)
    IN IF req.keys = {} THEN [count |-> 0, exact |-> TRUE]
       ELSE [count |-> sum, exact |-> Cardinality(req.keys) = 1]

\* count_estimate: header-only counts of the splits no Bloom filter prunes.
Estimate ==
    LET sum == FoldSeq(LAMBDA s, n : n + IF PrunedByBloom(s) THEN 0 ELSE SplitEstimate(s),
                       0, Splits)
    IN IF req.keys = {} THEN [count |-> 0, exact |-> TRUE]
       ELSE [count |-> sum,
             exact |-> Cardinality(req.keys) = 1 /\ set.delta = << >> /\ Dead = {}]

------------------------------------------------------------------------------
\* Every live document that satisfies the query, ignoring splits and summaries.
Held(splits) == UNION {splits[i].ids : i \in DOMAIN splits}
Answers(splits) == {d \in Held(splits) \ Dead : Satisfies(d)}
Answer == Ranked(Answers(set.base), BaseOrder) \o Ranked(Answers(set.delta), ById)

\* A finished page is the head of the full answer: no Bloom filter, facet
\* summary, tier short-circuit, global probe or wave boundary ever costs a hit
\* or its place, and no superseded document shows.
PageIsAnswer == pc = "done" => out = FirstOf(Answer, req.limit)

\* The bandwidth bound of the descent: when the first n base splits hold a full
\* page, the top split alone is opened for n = 1, and otherwise at most
\* DescentWave - 1 splits after the n-th.
Fills(n) == Cardinality({d \in Held(SubSeq(set.base, 1, n)) : Satisfies(d)}) >= req.limit
OverOpenBounded ==
    pc = "done" /\ set.policy = "tiered" /\ set.delta = << >> =>
        \A n \in DOMAIN set.base :
            Fills(n) => opened \subseteq 1 .. IF n = 1 THEN 1 ELSE n + DescentWave - 1

\* The header-only count is never below what count_exact would page through,
\* and it is equal to it whenever it says that it is exact.
EstimateBounds ==
    pc = "done" /\ req.filter = {} =>
        LET exactCount == Len(Answer)
        IN /\ Estimate.count >= exactCount
           /\ Estimate.exact => Estimate.count = exactCount

\* Facet counts price each hit in the split that holds it: a deletes-only
\* split, whose nominal range the next delta reuses, never shadows the owner.
HitsHaveOwners ==
    pc = "done" => \A i \in DOMAIN out : out[i] \in Splits[Owner(out[i])].ids

\* What the doc of search_filtered (splitset.rs:661-663) says of a split with
\* no facets: it is pruned without a fetch, so it cannot fail the query.
FacetlessSplitsArePruned == pc # "absent"
==============================================================================
