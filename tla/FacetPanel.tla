----------------------------- MODULE FacetPanel -----------------------------
(****************************************************************************)
(* Counting a result's documents per facet category.  Over a split set      *)
(* (rust/src/splitset.rs, facet_counts_top and facet_counts_for) the ids    *)
(* are grouped by split, every split is priced concurrently from its digest *)
(* or its sidecar, and the counts are added by name.  Over a single sidecar *)
(* (rust/src/wasm.rs, filterIds) a ranked list is filtered by the selected  *)
(* categories first, and what is left is priced with the heads that the     *)
(* boot loaded.                                                             *)
(*                                                                          *)
(* The files do not change; a read may fail, and a split may have no        *)
(* sidecar.  The splits' futures finish in any order.                       *)
(****************************************************************************)
EXTENDS FacetIndex

CONSTANTS
    Panels,         \* the split sets a panel may be drawn for
    Calls,          \* [kind, ids, top, pairs, filters, want] of each request
    NoDigest,       \* a split whose manifest summary has no facet digest
    NoPresence,     \* a set without facet-presence summaries
    Absent, Failed  \* outcomes of one split: no such object, or a failed read

VARIABLES
    panel,          \* the split set: one record per split
    call,           \* the request being answered
    pc,             \* "idle", "pricing", "done" or "failed"
    parts,          \* the outcome of each split that finished
    answer          \* [field -> [category -> count]], counts by pair, or the
                    \* filtered ids and their counts

vars == <<panel, call, pc, parts, answer>>

\* A split holds the ids lo .. lo + docs - 1; its fields give each category's
\* local documents, side the sidecar made of them.
Holds(s, d) == s.docs > 0 /\ s.lo <= d /\ d < s.lo + s.docs

\* ids_by_split: each id goes to the first split that contains it.
LocalIds(i) ==
    {d - panel[i].lo : d \in {x \in call.ids : Holds(panel[i], x)
                                 /\ \A j \in 1 .. i - 1 : ~Holds(panel[j], x)}}
Entries == {i \in DOMAIN panel : LocalIds(i) # {}}

NamedIn(fields, pair) ==
    \E f \in DOMAIN fields : fields[f].name = pair[1]
        /\ \E i \in DOMAIN fields[f].cats : fields[f].cats[i].name = pair[2]

\* Mutant: a pair past the digest's cap is taken for an absent one.
ServesLongTail(s) ==
    /\ s.digest # NoDigest
    /\ call.kind = "pairs" \/ (call.top # 0 /\ call.top <= s.digest.k)

\* facet_pricing_meta: may the digest serve this request?
DigestServes(s) ==
    /\ s.digest # NoDigest
    /\ IF call.kind = "pairs"
       THEN \A p \in call.pairs : NamedIn(s.digest.fields, p)
                \/ (s.presence # NoPresence /\ p \notin s.presence)
       ELSE call.top # 0 /\ call.top <= s.digest.k

PricingIndex(s) ==
    IF DigestServes(s)
    THEN [file |-> s.side.file,
          fields |-> IF s.digest.version = 2 THEN ParseFacetDigestV2(s.digest)
                     ELSE ParseFacetDigest(s.digest)]
    ELSE OpenMeta(s.side)

\* The single sidecar is opened with its heads.
IndexOf(s) == LoadHeads(OpenMeta(s.side))

\* counts_full: the heads' counts, and the targets' exact ones.
CountsFull(idx, ts, result) ==
    LET targets == SortedBy(ts, LAMBDA t, u : t[1] < u[1] \/ (t[1] = u[1] /\ t[2] < u[2]))
        priced == Price(idx, targets, result)
    IN [f \in DOMAIN idx.fields |-> [i \in DOMAIN idx.fields[f].cats |->
          IF <<f, i>> \in ts THEN priced[CHOOSE n \in DOMAIN targets : targets[n] = <<f, i>>]
          ELSE HeadCount(idx, <<f, i>>, result)]]

\* counts_for: a pair that the index does not know counts zero.
CountsFor(idx, result) ==
    LET found == UNION {Find(idx, p) : p \in call.pairs}
        counts == CountsFull(idx, found, result)
    IN [p \in call.pairs |-> IF Find(idx, p) = {} THEN 0
                             ELSE LET t == CHOOSE t \in Find(idx, p) : TRUE IN counts[t[1]][t[2]]]

Named(idx, counts) ==
    [name \in {idx.fields[f].name : f \in DOMAIN idx.fields} |->
       LET f == CHOOSE g \in DOMAIN idx.fields : idx.fields[g].name = name
       IN [c \in {idx.fields[f].cats[i].entry.name : i \in DOMAIN idx.fields[f].cats} |->
             counts[f][CHOOSE i \in DOMAIN idx.fields[f].cats : idx.fields[f].cats[i].entry.name = c]]]

------------------------------------------------------------------------------
Nothing == << >>

\* filter_sels: an entry is an array or an object that names a field and a
\* category.  The third element of an array must be a boolean; what an object
\* gives as `exclude` counts only if it is one.
Malformed(e) == e.shape = "other" \/ ~e.strings \/ (e.shape = "array" /\ e.flag = "other")
FilterSels(entries) == {[pair |-> e.pair, negate |-> e.flag = "true"] : e \in entries}
SelPairs(sels, negate) == {sel.pair : sel \in {q \in sels : q.negate = negate}}

\* filtered_ids: the ids that the resolved filter lets through; all of them
\* when it says nothing.
Kept(idx, sels, ids) ==
    LET filter == Resolve(idx, SelPairs(sels, FALSE), SelPairs(sels, TRUE))
    IN IF filter.fields = {} /\ filter.excludes = {} THEN ids
       ELSE MembershipBitmap(idx, filter, ids)

Init ==
    /\ panel \in Panels
    /\ call = CHOOSE c \in Calls : TRUE
    /\ pc = "idle" /\ parts = Nothing /\ answer = Nothing

Begin(c, phase) ==
    /\ pc \in {"idle", "done", "failed"}
    /\ call' = c
    /\ pc' = phase /\ parts' = Nothing /\ answer' = Nothing
    /\ UNCHANGED panel

AskPanel(c) == c.kind = "panel" /\ Begin(c, "pricing")
AskPairs(c) == c.kind = "pairs" /\ Begin(c, "pricing")

\* filterIds: a malformed entry throws before anything is read.
AskFilterIds(c) ==
    /\ c.kind = "ids" /\ Len(panel) = 1
    /\ Begin(c, IF \E e \in c.filters : Malformed(e) THEN "failed" ELSE "filtering")

\* Filtered and, if wanted, counted; an index without a sidecar does neither.
FilterIds ==
    /\ pc = "filtering"
    /\ IF ~panel[1].present
       THEN answer' = [ids |-> call.ids, counts |-> Nothing]
       ELSE LET idx == IndexOf(panel[1])
                kept == Kept(idx, FilterSels(call.filters), call.ids)
            IN IF ~call.want THEN answer' = [ids |-> kept, counts |-> Nothing]
               ELSE \E ts \in TargetSets(idx, call.top) :
                      answer' = [ids |-> kept, counts |-> Named(idx, CountsFull(idx, ts, kept))]
    /\ pc' = "done"
    /\ UNCHANGED <<panel, call, parts>>

FilterFails ==
    /\ pc = "filtering" /\ panel[1].present
    /\ pc' = "failed"
    /\ UNCHANGED <<panel, call, parts, answer>>

\* One split's future comes back: with its counts, without a sidecar, or failed.
Pending(i) == pc = "pricing" /\ i \in Entries \ DOMAIN parts

Priced(i) ==
    /\ Pending(i)
    /\ panel[i].present
    /\ LET idx == PricingIndex(panel[i])
       IN IF call.kind = "pairs"
          THEN parts' = parts @@ (i :> CountsFor(idx, LocalIds(i)))
          ELSE \E ts \in TargetSets(idx, call.top) :
                  parts' = parts @@ (i :> Named(idx, CountsFull(idx, ts, LocalIds(i))))
    /\ UNCHANGED <<panel, call, pc, answer>>

Missing(i) ==
    /\ Pending(i)
    /\ ~panel[i].present
    /\ parts' = parts @@ (i :> Absent)
    /\ UNCHANGED <<panel, call, pc, answer>>

ReadFails(i) ==
    /\ Pending(i)
    /\ parts' = parts @@ (i :> Failed)
    /\ UNCHANGED <<panel, call, pc, answer>>

\* What join_all's outcomes amount to.
Outcome == [counted |-> {i \in DOMAIN parts : parts[i] \notin {Absent, Failed}},
            failed |-> \E i \in DOMAIN parts : parts[i] = Failed]

\* The counts added by field and category; zero counts are left out.
Sum(S, op(_)) == FoldSet(LAMBDA i, n : n + op(i), 0, S)
AddedUp(S) ==
    LET at(i, f, c) == IF f \in DOMAIN parts[i] /\ c \in DOMAIN parts[i][f] THEN parts[i][f][c] ELSE 0
        names(f) == UNION {DOMAIN parts[i][f] : i \in {j \in S : f \in DOMAIN parts[j]}}
    IN [f \in UNION {DOMAIN parts[i] : i \in S} |->
          [c \in {n \in names(f) : \E i \in S : at(i, f, n) # 0} |-> Sum(S, LAMBDA i : at(i, f, c))]]

AddedPairs(S) == [p \in call.pairs |-> Sum(S, LAMBDA i : parts[i][p])]

Aggregate ==
    /\ pc = "pricing"
    /\ DOMAIN parts = Entries
    /\ IF Outcome.failed THEN pc' = "failed" /\ answer' = Nothing
       ELSE /\ pc' = "done"
            /\ answer' = IF call.kind = "pairs" THEN AddedPairs(Outcome.counted) ELSE AddedUp(Outcome.counted)
    /\ UNCHANGED <<panel, call, parts>>

Next ==
    \/ \E c \in Calls : AskPanel(c) \/ AskPairs(c) \/ AskFilterIds(c)
    \/ FilterIds \/ FilterFails
    \/ \E i \in DOMAIN panel : Priced(i) \/ Missing(i) \/ ReadFails(i)
    \/ Aggregate

Spec == Init /\ [][Next]_vars

------------------------------------------------------------------------------
\* What a split really holds of a category within the ids asked for, and the
\* total over the splits that have a sidecar.
DocsOf(s, pair) ==
    UNION {UNION {s.fields[f].cats[i].docs :
                    i \in {j \in DOMAIN s.fields[f].cats : s.fields[f].cats[j].name = pair[2]}} :
             f \in {g \in DOMAIN s.fields : s.fields[g].name = pair[1]}}
Pairs == UNION {{<<s.fields[f].name, s.fields[f].cats[i].name>> : i \in DOMAIN s.fields[f].cats} :
                  <<s, f>> \in UNION {{t} \X DOMAIN t.fields : t \in Range(panel)}}
Filtering == call.kind = "ids"
Counted == IF Filtering THEN {1} ELSE {i \in Entries : panel[i].present}
Exact(pair) == Sum(Counted, LAMBDA i : Cardinality(
                     (IF Filtering THEN answer.ids ELSE LocalIds(i)) \intersect DocsOf(panel[i], pair)))

Reported(pair) ==
    LET shown == IF Filtering THEN answer.counts ELSE answer
    IN IF pair[1] \in DOMAIN shown /\ pair[2] \in DOMAIN shown[pair[1]]
       THEN shown[pair[1]][pair[2]] ELSE 0

\* A category that the cap surely reaches in this split, whatever the ties.
SurelyPriced(s, pair) ==
    \A f \in DOMAIN s.fields :
        s.fields[f].name = pair[1] =>
            \/ call.top = 0
            \/ Cardinality({i \in DOMAIN s.fields[f].cats :
                  Cardinality(s.fields[f].cats[i].docs) >= Cardinality(DocsOf(s, pair))}) <= call.top

\* A finished panel never counts a category too high, and a category within the
\* cap of every split is counted exactly: head and tail, whatever the layout of
\* its postings, whether its table came from the meta region or a digest, with
\* or without a resident tail directory, and with no failed split left out.  So
\* are the counts of a filtered list: over the ids that the filter left.
PanelCountsAreExact ==
    pc = "done" /\ call.kind # "pairs" =>
        \A p \in Pairs :
            /\ Reported(p) <= Exact(p)
            /\ (\A i \in Counted : SurelyPriced(panel[i], p)) /\ (Filtering => call.want /\ panel[1].present)
                 => Reported(p) = Exact(p)

\* A named pair is always counted exactly: a digest serves it only when it
\* knows the pair, or knows that the whole sidecar does not.
PairCountsAreExact ==
    pc = "done" /\ call.kind = "pairs" => \A p \in call.pairs : answer[p] = Exact(p)

\* A filtered list keeps exactly the ids that match one selected category of
\* every selected field and none of the excluded ones, though only the buckets
\* of the ids are read of each posting: they are those of the whole filter
\* bitmap, and the bound that prices the filter without a read is never below
\* their number.
FilterIsExact ==
    LET s == panel[1]
        sels == FilterSels(call.filters)
        includes == SelPairs(sels, FALSE)
        OfField(f) == {p \in includes : p[1] = f}
        Passes(d) ==
            /\ \A f \in {p[1] : p \in includes} : \E p \in OfField(f) : d \in DocsOf(s, p)
            /\ \A p \in SelPairs(sels, TRUE) : d \notin DocsOf(s, p)
    IN pc = "done" /\ Filtering =>
         /\ answer.ids = {d \in call.ids : s.present => Passes(d)}
         /\ s.present /\ includes # {} =>
              LET idx == OpenMeta(s.side)
              IN /\ answer.ids = call.ids \intersect FullBitmap(idx, Resolve(idx, includes, SelPairs(sels, TRUE)))
                 /\ Cardinality(answer.ids) <= CountBound(idx, includes)

\* What the doc of FieldCounts (splitset.rs:265-267) says of the panel: a field
\* has an entry only if some category of it has a non-zero count.
EntriesHaveCounts ==
    pc = "done" /\ call.kind = "panel" => \A f \in DOMAIN answer : DOMAIN answer[f] # {}
==============================================================================
