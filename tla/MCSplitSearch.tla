---------------------------- MODULE MCSplitSearch ----------------------------
(* Small split sets: tiered base sets of four splits, and base + delta sets  *)
(* with tombstones, as the builder and the writer of the repository emit.    *)
EXTENDS SplitSearch

CONSTANTS k, l, x, y

MCKinds == {[keys |-> {}, cats |-> {}], [keys |-> {k}, cats |-> {x}],
            [keys |-> {k, l}, cats |-> {}], [keys |-> {k, l}, cats |-> {x, y}]}

\* A split of one document or none.
MCSplit(docs, ids, range, bloom, facets, tomb) ==
    [lo |-> range, hi |-> range, ids |-> ids, bloom |-> bloom, tomb |-> tomb,
     presence |-> IF facets /\ \E d \in ids : docs[d].cats # {}
                  THEN UNION {docs[d].cats : d \in ids} ELSE NoSummary,
     sidecar |-> facets /\ \E d \in ids : docs[d].cats # {}]

MCTieredSets ==
    {[policy |-> "tiered", docs |-> docs, delta |-> << >>, col |-> NoSummary,
      flagFacet |-> TRUE, global |-> g,
      base |-> [i \in 1 .. n |->
                  MCSplit(docs, {i - 1}, i - 1,
                          IF i \in sharp THEN docs[i - 1].keys
                          ELSE IF i = 2 THEN {k, l} ELSE NoSummary, TRUE, {})]] :
        n \in {1, 4}, docs \in [0 .. 3 -> MCKinds], sharp \in {{}, {1, 2}, {2, 4}, {1, 2, 3, 4}},
        g \in {NoSummary, {k, l}, {k}}}

\* The global Bloom filter has no false negatives.
MCBaseSets ==
    {s \in MCTieredSets :
       s.global = NoSummary \/ UNION {s.docs[d].keys : d \in DOMAIN s.docs} \subseteq s.global}

\* Two base documents, a delta, a deletes-only delta that claims the id of the
\* next one, and that next delta; the writer gives deltas no facets.
MCDeltaSets ==
    {[policy |-> p, docs |-> docs, col |-> c, flagFacet |-> t = "none", global |-> NoSummary,
      base |-> [i \in 1 .. 2 |->
                  MCSplit(docs, {i - 1}, i - 1, docs[i - 1].keys, TRUE, {})],
      delta |-> IF t = "none" THEN << >>
                ELSE << MCSplit(docs, {2}, 2, docs[2].keys, FALSE, IF t = "base" THEN {0} ELSE {}),
                        MCSplit(docs, {}, 3, {}, FALSE, IF t = "delta" THEN {1, 2} ELSE {1}),
                        MCSplit(docs, {3}, 3, docs[3].keys, FALSE, IF t = "delta" THEN {2} ELSE {}) >>] :
        p \in {"tiered", "stable"}, docs \in [0 .. 3 -> MCKinds],
        c \in {NoSummary, [d \in 0 .. 3 |-> 1 - (d % 2)], [d \in 0 .. 3 |-> 0]},
        t \in {"none", "base", "delta"}}

MCSets == MCBaseSets \union MCDeltaSets

MCRequests == [keys: {{}, {k}, {k, l}}, filter: {{}, {{y}}, {{x, y}}}, limit: {0, 1, 2, 9}]
=============================================================================
