----------------------------- MODULE BuildSearch -----------------------------
(****************************************************************************)
(* The sets that SplitBuild makes, searched as SplitSearch searches them:   *)
(* the reader opens the manifest and the files on disk, and nothing of the  *)
(* builder or of the corpus.                                                *)
(****************************************************************************)
EXTENDS SplitBuild

CONSTANTS Requests, DescentWave

ASSUME SearchAssumption ==
    /\ DescentWave \in Nat \ {0}
    /\ Requests # {} /\ \A r \in Requests : r.limit \in Nat /\ IsFiniteSet(r.keys)

\* A summary that is not there is neither a list of categories nor a column.
ASSUME SummaryAssumption ==
    /\ \A S \in SUBSET Cats : S # NoSummary
    /\ \A n \in 0 .. MaxDocs : [d \in 0 .. n - 1 |-> n - d] # NoSummary

VARIABLES set, req, pc, out, next, opened
searchVars == <<set, req, pc, out, next, opened>>

\* The document with this local id as the files of split n tell it.
Recovered(n, local) ==
    [keys |-> {k \in Keys : local \in disk.splits[n][k]},
     cats |-> IF n \in DOMAIN disk.facets
              THEN {c \in Cats : local \in disk.facets[n][c]} ELSE {}]

\* SplitSet::open over the finished set.  The sort column of a stable-key set
\* is built by the caller over the same ids; here it ranks the newest first.
OpenedSet ==
    LET ids == 0 .. b.nextGlobalId - 1
        entry(i) == [lo |-> b.specs[i].lo, hi |-> b.specs[i].hi,
                     ids |-> b.specs[i].lo .. b.specs[i].hi,
                     bloom |-> b.specs[i].bloom, presence |-> b.specs[i].presence,
                     sidecar |-> i - 1 \in DOMAIN disk.facets, tomb |-> {}]
        home(d) == CHOOSE i \in DOMAIN b.specs : b.specs[i].lo <= d /\ d <= b.specs[i].hi
    IN [policy |-> config.policy, delta |-> << >>, flagFacet |-> b.hasFacets,
        global |-> NoSummary,
        base |-> [i \in DOMAIN b.specs |-> entry(i)],
        docs |-> [d \in ids |-> Recovered(home(d) - 1, d - b.specs[home(d)].lo)],
        col |-> IF config.sortcol THEN [d \in ids |-> b.nextGlobalId - d] ELSE NoSummary]

\* Its initial sets are of no use here: Open provides the set.
Reader == INSTANCE SplitSearch WITH Sets <- {}

Init ==
    /\ BuildInit
    /\ set = NoSummary /\ req = NoSummary /\ pc = "closed"
    /\ out = << >> /\ next = 0 /\ opened = {}

Build == BuildNext /\ UNCHANGED searchVars

Open ==
    /\ phase = "done" /\ pc = "closed"
    /\ set' = OpenedSet
    /\ pc' = "idle"
    /\ UNCHANGED <<req, out, next, opened>> /\ UNCHANGED buildVars

Search == pc # "closed" /\ Reader!Next /\ UNCHANGED buildVars

Next == Build \/ Open \/ Search

Spec == Init /\ [][Next]_<<buildVars, searchVars>>

------------------------------------------------------------------------------
\* Rank order is feed order, or that of a sort column where there is one.
Outranks(c, d) == IF config.policy = "stable" /\ config.sortcol THEN c > d ELSE c < d

Wanted(d) ==
    /\ req.keys # {} /\ req.keys \subseteq corpus[d + 1].keys
    /\ \A arm \in req.filter : arm \intersect corpus[d + 1].cats # {}

Matching == {d \in 0 .. Len(corpus) - 1 : Wanted(d)}

\* What a reader may rely on, every built set has: summaries that deny nothing
\* their split holds, ascending ranges, and a sort column for every id.
OpenedIsSplitSet == pc # "closed" => Reader!IsSplitSet(set)

\* Nothing is lost between the caller's documents and the reader's page: it is
\* the first matches of the corpus in rank order, wherever the builder cut it.
\* It lists matches in order, as many as it may, and leaves out later ones.
BuiltSetAnswers ==
    /\ OpenedIsSplitSet
    /\ pc = "done" =>
         /\ ToSet(out) \subseteq Matching
         /\ Len(out) = Min({req.limit, Cardinality(Matching)})
         /\ \A i, j \in DOMAIN out : i < j => Outranks(out[i], out[j])
         /\ \A d \in Matching \ ToSet(out) : \A i \in DOMAIN out : Outranks(out[i], d)
==============================================================================
