----------------------------- MODULE FacetIndex -----------------------------
(****************************************************************************)
(* The facet sidecar (RRSF) of rust/src/facet.rs: what the builder writes   *)
(* (write_facets_with of rust/src/build.rs), how it is opened from its meta *)
(* region or from a digest of it, how selections are resolved, and how      *)
(* categories are counted within a result in three waves of reads.          *)
(*                                                                          *)
(* A sidecar is a table of fields, each a sequence of categories, and a     *)
(* file of cells (PostingBytes) with the head and the tail posting of every *)
(* category.  Names are model values or numbers; an open index keeps, next  *)
(* to each table entry, the head posting and the tail directory it has in   *)
(* memory.                                                                  *)
(****************************************************************************)
EXTENDS PostingBytes

CONSTANTS
    PricingGap,     \* PRICING_GAP, bridged between two categories
    IntraGap,       \* INTRA_CATEGORY_GAP, bridged inside one
    EagerLimit,     \* EAGER_REGION_LIMIT, a region read at once
    TopN            \* LAZY_TOP_N, the heads of a field loaded otherwise

ASSUME PricingAssumption == {PricingGap, IntraGap, EagerLimit, TopN} \subseteq Nat

MetaLen == 1        \* rrsf_boot_len: the meta region stands in one cell

HeadOf(docs) == SplitPosting(docs, PerBucket).head
TailOf(docs) == SplitPosting(docs, PerBucket).tail

First(s, n) == Cut(s, n)

\* The positions of a sequence of categories by descending count, ties by `tie`.
ByCount(cats, tie(_)) ==
    SortedBy(DOMAIN cats, LAMBDA i, j : cats[i].count > cats[j].count
                    \/ (cats[i].count = cats[j].count /\ tie(i) < tie(j)))

------------------------------------------------------------------------------
\* write_facets_with: a field's categories sorted by key, and the postings head
\* and tail of each in that order behind the meta region.
WriteFacets(fields) ==
    LET start(sorted, f) == Total([g \in 1 .. f - 1 |-> Len(sorted[g])])
        entry(c, laid, n) ==
            [name |-> c.name, count |-> Cardinality(c.docs),
             headOff |-> MetaLen + Total([m \in 1 .. n - 1 |-> Len(laid[m].head) + Len(laid[m].tail)]),
             headSize |-> Len(laid[n].head), tailSize |-> Len(laid[n].tail)]
        side(sorted, laid) ==
            [table |-> [f \in DOMAIN fields |->
                [name |-> fields[f].name,
                 cats |-> [i \in DOMAIN sorted[f] |-> entry(sorted[f][i], laid, start(sorted, f) + i)]]],
             file |-> [m \in 1 .. MetaLen |-> 0] \o FlattenSeq([n \in DOMAIN laid |-> laid[n].head \o laid[n].tail])]
        part(c) == [head |-> Serialize(HeadOf(c.docs), c.seekable), tail |-> Serialize(TailOf(c.docs), c.seekable)]
        parts(all) == << >> \o [n \in DOMAIN all |-> part(all[n])]
        written(sorted) == side(sorted, parts(FlattenSeq(sorted)))
    IN written(<< >> \o [f \in DOMAIN fields |-> SortSeq(fields[f].cats, LAMBDA a, b : a.key < b.key)])

TailOff(c) == c.headOff + c.headSize

\* from_meta: the whole table, nothing resident yet.
OpenMeta(side) ==
    [file |-> side.file,
     fields |-> [f \in DOMAIN side.table |->
        [name |-> side.table[f].name,
         cats |-> [i \in DOMAIN side.table[f].cats |->
                     [entry |-> side.table[f].cats[i], head |-> {}, dir |-> NoDir]]]]]

\* The k largest categories of a field, names breaking ties.
TopEntries(cats, k) ==
    LET top == First(ByCount(cats, LAMBDA i : cats[i].name), k) IN [i \in DOMAIN top |-> cats[top[i]]]

\* facet_digest: names, counts and posting ranges, from the emitted bytes.
FacetDigest(side, k) ==
    [version |-> 1, k |-> k,
     fields |-> [f \in DOMAIN side.table |->
        [name |-> side.table[f].name, cats |-> TopEntries(side.table[f].cats, k)]]]

\* facet_digest_v2: with the keys and starts of each tail's containers, none
\* where the tail has no directory.
FacetDigestV2(side, k) ==
    LET containers(e) ==
            LET dir == ParseDir(ReadAt(side.file, TailOff(e), e.tailSize), e.tailSize)
            IN IF dir = NoDir THEN << >>
               ELSE [j \in DOMAIN dir |-> [key |-> dir[j].key, start |-> dir[j].start]]
        top(f) == TopEntries(side.table[f].cats, k)
    IN [version |-> 2, k |-> k,
        fields |-> [f \in DOMAIN side.table |->
           [name |-> side.table[f].name, cats |-> top(f),
            dirs |-> [i \in DOMAIN top(f) |-> containers(top(f)[i])]]]]

\* parse_facet_digest: skeleton fields, nothing resident.
ParseFacetDigest(digest) ==
    [f \in DOMAIN digest.fields |->
       [name |-> digest.fields[f].name,
        cats |-> [i \in DOMAIN digest.fields[f].cats |->
                    [entry |-> digest.fields[f].cats[i], head |-> {}, dir |-> NoDir]]]]

\* parse_facet_digest_v2: a container ends where the next one starts, the last
\* one with the tail.
ParseFacetDigestV2(digest) ==
    LET lengthened(cs, tailSize) ==
            [j \in DOMAIN cs |->
               [key |-> cs[j].key, start |-> cs[j].start,
                len |-> (IF j < Len(cs) THEN cs[j + 1].start ELSE tailSize) - cs[j].start]]
        dir(f, i) == LET cs == digest.fields[f].dirs[i]
                     IN IF cs = << >> THEN NoDir ELSE lengthened(cs, digest.fields[f].cats[i].tailSize)
    IN [f \in DOMAIN digest.fields |->
          [name |-> digest.fields[f].name,
           cats |-> [i \in DOMAIN digest.fields[f].cats |->
                       [entry |-> digest.fields[f].cats[i], head |-> {}, dir |-> dir(f, i)]]]]

\* load_heads_tuned: a small region is read at once, of a large one only the
\* heads of the TopN largest categories of each field.
LoadHeads(idx) ==
    LET all == FlattenSeq([f \in DOMAIN idx.fields |-> idx.fields[f].cats])
        first == all[1].entry
        last == all[Len(all)].entry
        region == TailOff(last) + last.tailSize - first.headOff
        blob == ReadAt(idx.file, first.headOff, region)
        eager(e) == Deserialize(ReadAt(blob, e.headOff - first.headOff, e.headSize))
        single(e) == Deserialize(ReadAt(idx.file, e.headOff, e.headSize))
        topOf(cats) == LET entries == [i \in DOMAIN cats |-> cats[i].entry]
                       IN Range(First(ByCount(entries, LAMBDA i : i), TopN))
        load(cats, i) ==
            IF region <= EagerLimit THEN eager(cats[i].entry)
            ELSE IF i \in topOf(cats) THEN single(cats[i].entry) ELSE cats[i].head
    IN IF all = << >> THEN idx
       ELSE [idx EXCEPT !.fields = [f \in DOMAIN idx.fields |->
               [idx.fields[f] EXCEPT !.cats =
                  [i \in DOMAIN @ |-> [@[i] EXCEPT !.head = load(idx.fields[f].cats, i)]]]]]

------------------------------------------------------------------------------
\* A category named by a pair, as <<field, position>>; the first of that name.
Find(idx, pair) ==
    {t \in UNION {{f} \X DOMAIN idx.fields[f].cats : f \in DOMAIN idx.fields} :
        idx.fields[t[1]].name = pair[1] /\ idx.fields[t[1]].cats[t[2]].entry.name = pair[2]}
Cat(idx, t) == idx.fields[t[1]].cats[t[2]]

\* Mutant: a selected field without a known category gets no arm.
ResolveKnown(idx, includes, excludes) ==
    [fields |-> {UNION {Find(idx, p) : p \in {q \in includes : q[1] = f}} : f \in {p[1] : p \in includes}} \ {{}},
     excludes |-> UNION {Find(idx, p) : p \in excludes}]

\* resolve_sels: an arm of categories per selected field, empty when none of
\* them is here, and one union of exclusions.
Resolve(idx, includes, excludes) ==
    [fields |-> {UNION {Find(idx, p) : p \in {q \in includes : q[1] = f}} : f \in {p[1] : p \in includes}},
     excludes |-> UNION {Find(idx, p) : p \in excludes}]

\* The documents of a resolved category, from its two postings.
HeadAt(idx, t) == LET c == Cat(idx, t).entry IN Deserialize(ReadAt(idx.file, c.headOff, c.headSize))
TailAt(idx, t) == LET c == Cat(idx, t).entry IN Deserialize(ReadAt(idx.file, TailOff(c), c.tailSize))
DocsAt(idx, t) == HeadAt(idx, t) \union TailAt(idx, t)

\* combine: on one side of the postings, the documents of every arm; an empty
\* arm, or no arm at all, has none.
Combine(filter, side) ==
    LET of(arm) == UNION {side[t] : t \in arm}
    IN IF filter.fields = {} THEN {}
       ELSE {d \in UNION {of(arm) : arm \in filter.fields} : \A arm \in filter.fields : d \in of(arm)}

\* full_bitmap: what a filter includes on either side, without what it excludes.
FullBitmap(idx, filter) ==
    (Combine(filter, [t \in UNION filter.fields |-> HeadAt(idx, t)])
     \union Combine(filter, [t \in UNION filter.fields |-> TailAt(idx, t)]))
    \ UNION {DocsAt(idx, t) : t \in filter.excludes}

\* membership_bitmap: the ids a resolved filter lets through.  Of the head only
\* the ids' first bucket needs reading, of the tail the containers they fall in.
MembershipBitmap(idx, filter, ids) ==
    LET keys == Keys(ids)
        read(t) ==
            LET c == Cat(idx, t).entry
            IN (IF 0 \in keys /\ c.headSize > 0
                THEN Deserialize(ReadAt(idx.file, c.headOff, c.headSize)) ELSE {})
               \union (IF keys \ {0} # {} /\ c.tailSize > 0
                       THEN ReadSubset(idx.file, TailOff(c), c.tailSize, keys \ {0}) ELSE {})
        union(ts) == UNION {read(t) : t \in ts}
    IN IF ids = {} \/ {} \in filter.fields THEN {}
       ELSE {d \in ids : \A arm \in filter.fields : d \in union(arm)} \ union(filter.excludes)

CountsOf(idx, ts, Size(_)) == FoldSet(LAMBDA t, n : n + Size(Cat(idx, t).entry), 0, ts)

\* filter_count_bound: the smallest sum over the selected fields.
CountBound(idx, includes) ==
    Min({CountsOf(idx, UNION {Find(idx, p) : p \in {q \in includes : q[1] = f}}, LAMBDA c : c.count)
           : f \in {p[1] : p \in includes}})

------------------------------------------------------------------------------
\* counts: within the resident heads only.
HeadCount(idx, t, result) == Cardinality(result \intersect Cat(idx, t).head)

Nowhere == [off |-> 0, len |-> 0]

\* A resident directory is used only for a tail the prefix would not hold.
UsesResident(c) == c.dir # NoDir /\ c.entry.tailSize > Prefix

\* Wave A asks for the head, unless it is resident or no result is in it, and
\* for the start of the tail.
HeadRange(c, keys) ==
    IF 0 \in keys /\ c.head = {} /\ c.entry.headSize > 0
    THEN [off |-> c.entry.headOff, len |-> c.entry.headSize] ELSE Nowhere
TailRange(c, keys) ==
    IF keys \ {0} # {} /\ c.entry.tailSize > 0 /\ ~UsesResident(c)
    THEN [off |-> TailOff(c.entry), len |-> Min({c.entry.tailSize, Prefix})] ELSE Nowhere

\* What is known of a tail: documents, containers still to fetch, and the range
\* wave B must read again, as a whole posting or as a header.
Known(docs) == [docs |-> docs, dir |-> << >>, again |-> Nowhere, whole |-> FALSE]
Containers(dir, keys) == [Known({}) EXCEPT !.dir = NeededOf(dir, keys \ {0})]
Again(c, len, whole) == [Known({}) EXCEPT !.again = [off |-> TailOff(c.entry), len |-> len],
                                          !.whole = whole]

AfterA(c, keys, prefix) ==
    IF UsesResident(c) THEN IF keys \ {0} = {} THEN Known({}) ELSE Containers(c.dir, keys)
    ELSE IF prefix = << >> THEN Known({})
    ELSE IF Len(prefix) >= c.entry.tailSize THEN Known(Deserialize(prefix))
    ELSE IF ~Seekable(prefix) THEN Again(c, c.entry.tailSize, TRUE)
    ELSE IF HeaderLen(prefix) > Len(prefix) THEN Again(c, HeaderLen(prefix), FALSE)
    ELSE LET dir == ParseDir(prefix, c.entry.tailSize)
         IN IF dir = NoDir THEN Again(c, c.entry.tailSize, TRUE) ELSE Containers(dir, keys)

AfterB(c, keys, tail, bytes) ==
    IF tail.again.len = 0 THEN tail
    ELSE IF tail.whole THEN Known(Deserialize(bytes))
    ELSE Containers(ParseDir(bytes, c.entry.tailSize), keys)

\* Mutant: every container of a span is taken from its start.
SpanStarts(cats, tails) ==
    LET scan(i) == FoldLeft(LAMBDA a, c : Bridged(a, c.start, c.start + c.len),
                            Grow(IntraGap), tails[i].dir)
        base(i) == Total([j \in 1 .. i - 1 |-> Len(scan(j).spans)])
    IN [spans |-> FlattenSeq([i \in DOMAIN cats |->
            [s \in DOMAIN scan(i).spans |->
               [off |-> TailOff(cats[i].entry) + scan(i).spans[s].lo,
                len |-> scan(i).spans[s].hi - scan(i).spans[s].lo]]]),
        loc |-> [i \in DOMAIN cats |-> [j \in DOMAIN tails[i].dir |->
            [span |-> base(i) + scan(i).of[j],
             rel |-> 0]]]]

\* Wave C: spans inside each category, bridged up to IntraGap, and the place of
\* every needed container in them.
ContainerSpans(cats, tails) ==
    LET scan(i) == FoldLeft(LAMBDA a, c : Bridged(a, c.start, c.start + c.len),
                            Grow(IntraGap), tails[i].dir)
        base(i) == Total([j \in 1 .. i - 1 |-> Len(scan(j).spans)])
    IN [spans |-> FlattenSeq([i \in DOMAIN cats |->
            [s \in DOMAIN scan(i).spans |->
               [off |-> TailOff(cats[i].entry) + scan(i).spans[s].lo,
                len |-> scan(i).spans[s].hi - scan(i).spans[s].lo]]]),
        loc |-> [i \in DOMAIN cats |-> [j \in DOMAIN tails[i].dir |->
            [span |-> base(i) + scan(i).of[j],
             rel |-> tails[i].dir[j].start - scan(i).spans[scan(i).of[j]].lo]]]]

\* count_categories_batched: the exact count of every target.
Price(idx, targets, result) ==
    LET keys == Keys(result)
        cats == << >> \o [i \in DOMAIN targets |-> Cat(idx, targets[i])]
        waveA == << >> \o ReadCoalesced(idx.file,
                    FlattenSeq([i \in DOMAIN cats |-> << HeadRange(cats[i], keys), TailRange(cats[i], keys) >>]),
                    PricingGap)
        head == [i \in DOMAIN cats |-> IF waveA[2 * i - 1] = << >> THEN cats[i].head
                                       ELSE Deserialize(waveA[2 * i - 1])]
        afterA == << >> \o [i \in DOMAIN cats |-> AfterA(cats[i], keys, waveA[2 * i])]
        waveB == << >> \o ReadCoalesced(idx.file, [i \in DOMAIN cats |-> afterA[i].again], PricingGap)
        tails == << >> \o [i \in DOMAIN cats |-> AfterB(cats[i], keys, afterA[i], waveB[i])]
        c == ContainerSpans(cats, tails)
        waveC == << >> \o ReadCoalesced(idx.file, c.spans, PricingGap)
        body(i, j) == ReadAt(waveC[c.loc[i][j].span], c.loc[i][j].rel, tails[i].dir[j].len)
        fetched(i) == Decode([j \in DOMAIN tails[i].dir |->
                                [key |-> tails[i].dir[j].key, body |-> body(i, j)]])
    IN [i \in DOMAIN cats |->
          Cardinality(result \intersect head[i])
          + Cardinality(result \intersect (tails[i].docs \union fetched(i)))]

\* counts_full's targets: any topPerField largest of a field (the selection of
\* equal counts is unspecified), or all of them for 0.
TargetSets(idx, topPerField) ==
    LET fieldSets(f) ==
            LET cats == idx.fields[f].cats
                larger(S) == \A i \in S, j \in DOMAIN cats \ S : cats[i].entry.count >= cats[j].entry.count
            IN IF topPerField = 0 \/ Len(cats) <= topPerField THEN {DOMAIN cats}
               ELSE {S \in kSubset(topPerField, DOMAIN cats) : larger(S)}
    IN {UNION {{f} \X choice[f] : f \in DOMAIN idx.fields} :
          choice \in {g \in [DOMAIN idx.fields -> UNION {fieldSets(f) : f \in DOMAIN idx.fields}] :
                        \A f \in DOMAIN idx.fields : g[f] \in fieldSets(f)}}
==============================================================================
