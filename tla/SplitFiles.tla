----------------------------- MODULE SplitFiles -----------------------------
(****************************************************************************)
(* A split set as files: the manifest and its summaries, the filters that   *)
(* prune a split without opening it, the two builders that seal documents   *)
(* into splits (rust/src/splitset_build.rs), what a reader of the manifest  *)
(* does with them (rust/src/splitset.rs), the bands of a parallel build and *)
(* the tools that derive one set from another (rust/examples).  Last, the   *)
(* boot bundle (RRHC) of some of a set's files: rust/src/hotcache_build.rs  *)
(* writes it, rust/src/hotcache.rs reads it, and                            *)
(* rust/src/splitset_bundle.rs chooses the files.                           *)
(*                                                                          *)
(* Header, entry, name and summary number take one cell each.  A file's     *)
(* name is its prefix, its number and its extension.                        *)
(****************************************************************************)
EXTENDS NgramIndex, TermIndex, FacetIndex

CONSTANTS
    Hash1(_), Hash2(_), \* the two mixes of a key; the code makes Hash2 odd
    HashWord,       \* 2^64, where the sum of hashes wraps
    BloomFloor,     \* the least filter, in bits
    BloomCeil,      \* the greatest, u32::MAX & !7
    ByteBits,       \* bits to a byte of a filter
    MaxHashes,      \* the most hashes a reader believes in (64)
    IndexBase, PerNewKey, PerElement,           \* what a gram builder charges
    TermBase, PerNewTerm, PerTermElement,       \* what a term builder charges
    MaxShift,       \* 63, the tiers after which a cap stops doubling
    CapWord,        \* 2^64, where a doubled cap wraps
    MaxTier,        \* u16::MAX, the tier of every split from there on
    Chunk,          \* CHUNK, the documents fed between two drains
    FacetKey(_, _), \* facet_key, the hash of a field and a category
    NoTlv,          \* a summary has no such record
    BadSet,         \* the manifest is malformed
    NotInlined,     \* inlined_by_name's None
    BadBundle       \* write_hotcache's error

ASSUME FilterAssumption ==
    /\ {HashWord, BloomFloor, BloomCeil, ByteBits, MaxHashes, CapWord, Chunk} \subseteq Nat \ {0}
    /\ BloomFloor % ByteBits = 0 /\ BloomCeil % ByteBits = 0 /\ BloomFloor <= BloomCeil
    /\ MaxHashes >= 16 /\ MaxTier \in Nat
HashesAssumption == \A key : Hash1(key) \in Nat /\ Hash2(key) \in Nat

------------------------------------------------------------------------------
\* The records of a summary: tlv_record, find_tlv.
BloomTag == 1
FacetTag == 2
DigestTag == 3
DigestV2Tag == 6
TlvRecord(tag, payload) == << tag, Len(payload) >> \o payload
FindTlv(summary, tag) ==
    LET from[off \in 0 .. Len(summary)] ==
            IF off + 2 > Len(summary) THEN NoTlv
            ELSE LET end == off + 2 + summary[off + 2]
                 IN IF end > Len(summary) THEN BadSet
                    ELSE IF summary[off + 1] = tag THEN SubSeq(summary, off + 3, end) ELSE from[end]
    IN from[0]

\* bloom_k: bits * ln 2 to the nearest; the size of a filter.
BloomK(bits) ==
    LET k == (bits * 693147 + 500000) \div 1000000 IN IF k < 1 THEN 1 ELSE IF k > 16 THEN 16 ELSE k
RoundUp(n) == ByteBits * ((n + ByteBits - 1) \div ByteBits)
BloomSize(n, bits) ==
    LET want == (IF n = 0 THEN 1 ELSE n) * bits
        size == RoundUp(IF want < BloomFloor THEN BloomFloor ELSE want)
    IN IF size > BloomCeil THEN BloomCeil ELSE size

\* bloom_positions.
BloomPosition(key, i, nbits) == ((Hash1(key) + i * Hash2(key)) % HashWord) % nbits

\* bloom_build: the header, then every byte as the set of its bits.
BloomBuild(keys, bits) ==
    LET nbits == BloomSize(Cardinality(keys), bits)
        marked == {BloomPosition(key, i, nbits) : key \in keys, i \in 0 .. BloomK(bits) - 1}
    IN << [k |-> BloomK(bits), nbits |-> nbits] >>
       \o [y \in 1 .. nbits \div ByteBits |->
             {p % ByteBits : p \in {q \in marked : q \div ByteBits = y - 1}}]

\* bloom_contains: the first position that decides, past the end or clear.
BadFilter(h) == h.k = 0 \/ h.k > MaxHashes \/ h.nbits = 0
BloomContains(bloom, key) ==
    LET h == bloom[1]
        at(i) == BloomPosition(key, i, h.nbits)
        past(i) == at(i) \div ByteBits >= Len(bloom) - 1
        clear(i) == ~past(i) /\ at(i) % ByteBits \notin bloom[at(i) \div ByteBits + 2]
    IN Len(bloom) < 1 \/ BadFilter(h)
       \/ \A i \in 0 .. h.k - 1 : clear(i) => \E j \in 0 .. i - 1 : past(j)

\* RemoteBloom: its header is read once, and a byte for every position of the
\* keys, equal ones once.
RemoteContainsAll(file, keys) ==
    LET h == ReadAt(file, 0, 1)[1]
        at == Ascending({BloomPosition(key, i, h.nbits) : key \in keys, i \in 0 .. h.k - 1})
        bytes == ReadCoalesced(file, << >> \o [n \in DOMAIN at |-> [off |-> 1 + at[n] \div ByteBits, len |-> 1]], 0)
    IN IF BadFilter(h) THEN BadSet ELSE \A n \in DOMAIN at : at[n] % ByteBits \in bytes[n][1]

------------------------------------------------------------------------------
\* write_splitset: the header, an entry per split, the names and last that of
\* the sort column, and the summaries that are not empty.
WriteManifest(specs, config) ==
    LET names == (<< >> \o [i \in DOMAIN specs |-> specs[i].name])
                 \o (<< >> \o [i \in DOMAIN config.sortcol |-> config.sortcol[i].name])
        before(i) == Total([j \in 1 .. i - 1 |-> Len(specs[j].summary)])
        entry(i) == LET s == specs[i]
                    IN [nameOff |-> i - 1, tier |-> s.tier, count |-> s.count, lo |-> s.lo, hi |-> s.hi,
                        flags |-> s.flags, size |-> s.size, epoch |-> s.epoch,
                        off |-> IF s.summary = << >> THEN 0 ELSE before(i), len |-> Len(s.summary)]
    IN IF config.base > Len(specs) THEN Refused
       ELSE << [config EXCEPT !.sortcol = << >> \o [i \in DOMAIN @ |->
                    [nameOff |-> Len(specs), column |-> @[i].column, descending |-> @[i].descending]]]
               @@ [splits |-> Len(specs), names |-> Len(names), summaries |-> before(Len(specs) + 1)] >>
            \o (<< >> \o [i \in DOMAIN specs |-> entry(i)]) \o names
            \o FlattenSeq(<< >> \o [i \in DOMAIN specs |-> specs[i].summary])

\* SplitSet::open, from_bytes: the header tells how much to read.
OpenManifest(file) ==
    LET h == ReadAt(file, 0, 1)[1]
        body == ReadAt(file, 1, h.splits + h.names + h.summaries)
        names == SubSeq(body, h.splits + 1, h.splits + h.names)
        summaries == SubSeq(body, h.splits + h.names + 1, Len(body))
        bad(e) == e.nameOff >= Len(names) \/ e.off + e.len > Len(summaries)
        split(e) == [name |-> names[e.nameOff + 1], tier |-> e.tier, count |-> e.count, lo |-> e.lo, hi |-> e.hi,
                     flags |-> e.flags, size |-> e.size, epoch |-> e.epoch,
                     summary |-> SubSeq(summaries, e.off + 1, e.off + e.len)]
    IN IF h.base > h.splits \/ \E i \in 1 .. h.splits : bad(body[i]) THEN BadSet
       ELSE [policy |-> h.policy, flags |-> h.flags, tiers |-> h.tiers, base |-> h.base, cap |-> h.cap,
             gram |-> h.gram, kind |-> h.kind, caseFold |-> "sensitive" \notin h.flags,
             sortcol |-> << >> \o [i \in DOMAIN h.sortcol |->
                           [name |-> names[h.sortcol[i].nameOff + 1], column |-> h.sortcol[i].column,
                            descending |-> h.sortcol[i].descending]],
             splits |-> << >> \o [i \in 1 .. h.splits |-> split(body[i])]]

\* pruned_by_bloom; facet_keys and facet_pruned, for the category keys selected
\* in each field.
PrunedByBloom(split, keys) ==
    LET bloom == FindTlv(split.summary, BloomTag)
    IN bloom \notin {NoTlv, BadSet} /\ \E key \in keys : ~BloomContains(bloom, key)
FacetKeysOf(split) ==
    LET bytes == FindTlv(split.summary, FacetTag)
    IN IF bytes \in {NoTlv, BadSet} THEN bytes
       ELSE IF Len(bytes) < 1 \/ bytes[1] + 1 > Len(bytes) THEN BadSet ELSE Range(SubSeq(bytes, 2, bytes[1] + 1))
FacetPruned(set, split, fields) ==
    LET present == FacetKeysOf(split)
    IN /\ fields # {} /\ "facet" \in set.flags
       /\ present = NoTlv \/ \E keys \in fields : keys \intersect present = {}

------------------------------------------------------------------------------
\* A builder is fed documents [text, tags]; a tag names a category of a field.
\* new, with_global_base.
NewSplits(cfg, base) ==
    [cfg |-> cfg, open |-> {}, tags |-> {}, count |-> 0, base |-> base, next |-> base, upper |-> 0,
     hasFacets |-> FALSE, specs |-> << >>, blobs |-> << >>]

\* cap_for: the shift is checked, and the bits shifted out are lost.
CapOf(cfg, tier) ==
    IF cfg.capMax = 0 THEN cfg.cap
    ELSE Min({(cfg.cap * 2 ^ Min({tier, MaxShift})) % CapWord, Max({cfg.capMax, cfg.cap})})

\* The estimate of the open split, and what a document would add to it.
KeysOpen(b) == {e[1] : e \in b.open}
NewCost(b, keys) ==
    MapThenSumSet(LAMBDA k : IF b.cfg.kind = "grams" THEN PerNewKey ELSE PerNewTerm + Len(k),
                  keys \ KeysOpen(b))
ElementCost(b, keys) == Cardinality(keys) * (IF b.cfg.kind = "grams" THEN PerElement ELSE PerTermElement)
EstimateOf(b) ==
    LET n == Cardinality(KeysOpen(b))
    IN IF b.cfg.kind = "grams" THEN IndexBase + n * PerNewKey + SparseCount(n, b.cfg.stride) + b.upper
       ELSE TermBase + b.upper

\* facet_presence; facet_fields: fields and categories by name.
FacetPresence(tags) == LET keys == Ascending({FacetKey(t.field, t.cat) : t \in tags}) IN << Len(keys) >> \o keys
FacetFields(tags) ==
    LET names == Ascending({t.field : t \in tags})
        cats(f) == LET of == {t \in tags : t.field = f}
                       order == Ascending({t.cat : t \in of})
                   IN << >> \o [i \in DOMAIN order |->
                        [name |-> order[i], key |-> FacetKey(f, order[i]), seekable |-> TRUE,
                         docs |-> {t.doc : t \in {x \in of : x.cat = order[i]}}]]
    IN << >> \o [i \in DOMAIN names |-> [name |-> names[i], cats |-> cats(names[i])]]

\* seal_facet_sidecar: nothing for a split without facets.
Sidecar(b, idx) ==
    LET digest(side) == IF b.cfg.top = 0 THEN << >>
                        ELSE IF b.cfg.v2 THEN TlvRecord(DigestV2Tag, << FacetDigestV2(side, b.cfg.top) >>)
                        ELSE TlvRecord(DigestTag, << FacetDigest(side, b.cfg.top) >>)
        with(side) == [summary |-> TlvRecord(FacetTag, FacetPresence(b.tags)) \o digest(side),
                       blobs |-> << [name |-> [prefix |-> b.cfg.prefix, idx |-> idx, ext |-> "rrf"], bytes |-> side] >>]
    IN IF b.tags = {} THEN [summary |-> << >>, blobs |-> << >>] ELSE with(WriteFacets(FacetFields(b.tags)))

\* The body of a sealed split: an n-gram index or a term index.
BodyOf(b) ==
    LET docs(k) == {e[2] : e \in {x \in b.open : x[1] = k}}
        entries(keys) == << >> \o [i \in DOMAIN keys |-> [key |-> keys[i], bytes |-> Serialize(docs(keys[i]), TRUE)]]
    IN IF b.cfg.kind = "grams"
       THEN WriteGrams(entries(Ascending(KeysOpen(b))), b.cfg.gram, b.cfg.stride, b.cfg.caseFold)
       ELSE WriteTermIndex([t \in KeysOpen(b) |-> docs(t)], b.cfg.spec, PerBucket)

\* The set of b with its open split sealed; nothing is sealed if it is empty.
TierOf(cfg, idx) == IF cfg.policy = "tiered" THEN Min({idx, MaxTier}) ELSE 0
SealOpen(b) ==
    LET idx == Len(b.specs)
        name == [prefix |-> b.cfg.prefix, idx |-> idx, ext |-> IF b.cfg.kind = "grams" THEN "rrs" ELSE "rrt"]
        bloom == IF b.cfg.kind = "grams" /\ b.cfg.bits > 0
                 THEN TlvRecord(BloomTag, BloomBuild(KeysOpen(b), b.cfg.bits)) ELSE << >>
        with(body, side) ==
            [b EXCEPT !.open = {}, !.tags = {}, !.count = 0, !.base = b.next, !.upper = 0,
                      !.specs = Append(@, [name |-> name, tier |-> TierOf(b.cfg, idx), count |-> b.count,
                                           lo |-> b.base, hi |-> b.base + b.count - 1, flags |-> {},
                                           size |-> Len(body), epoch |-> 0, summary |-> bloom \o side.summary]),
                      !.blobs = @ \o << [name |-> name, bytes |-> body] >> \o side.blobs]
    IN IF b.count = 0 THEN b ELSE with(BodyOf(b), Sidecar(b, idx))

\* add_inner, add_faceted: the open split is sealed first if the document might
\* not fit in it.
AddDoc(b, doc) ==
    LET keys == IF b.cfg.kind = "grams" THEN NgramKeys(doc.text, b.cfg.gram, b.cfg.caseFold)
                ELSE Range(Tokenize(b.cfg.spec, doc.text))
        full == b.count > 0 /\ EstimateOf(b) + NewCost(b, keys) + ElementCost(b, keys) > CapOf(b.cfg, Len(b.specs))
        terms(into) == IF b.cfg.kind = "grams" THEN 0 ELSE NewCost(into, keys)
        added(into) ==
            [into EXCEPT !.open = @ \union {<<k, into.count>> : k \in keys},
                         !.tags = @ \union {[field |-> t.field, cat |-> t.cat, doc |-> into.count] : t \in doc.tags},
                         !.hasFacets = IF doc.tags = {} THEN @ ELSE TRUE,
                         !.upper = @ + terms(into) + ElementCost(into, keys),
                         !.count = @ + 1, !.next = @ + 1]
    IN added(IF full THEN SealOpen(b) ELSE b)

\* finish_parts: refused if a single document does not fit its split.
FinishParts(b) ==
    LET checked(sealed) ==
            IF \E i \in DOMAIN sealed.specs : sealed.specs[i].count = 1 /\ sealed.specs[i].size > CapOf(b.cfg, i - 1)
            THEN Refused ELSE sealed
    IN checked(SealOpen(b))

\* The manifest of the sealed specs.
ManifestOf(cfg, specs, hasFacets) ==
    WriteManifest(specs,
        [policy |-> cfg.policy, tiers |-> TierOf(cfg, Len(specs)), base |-> Len(specs), cap |-> cfg.cap,
         gram |-> IF cfg.kind = "grams" THEN cfg.gram ELSE 0, kind |-> cfg.kind, sortcol |-> cfg.sortcol,
         flags |-> (IF cfg.kind = "grams" /\ cfg.bits > 0 THEN {"bloom"} ELSE {})
                   \union (IF hasFacets THEN {"facet"} ELSE {})
                   \union (IF cfg.caseFold THEN {} ELSE {"sensitive"})])

\* What is drained is written to the directory, a function of names, and the
\* builder forgets it (flush_blobs, drain_sealed).
Flush(disk, blobs) == FoldLeft(LAMBDA d, f : (f.name :> f.bytes) @@ d, disk, blobs)
Feed(a, docs) ==
    LET drained(fed) == [b |-> [fed EXCEPT !.blobs = << >>], disk |-> Flush(a.disk, fed.blobs)]
    IN drained(FoldLeft(AddDoc, a.b, docs))
FeedChunks(cfg, docs, lo, hi) ==
    LET starts == << >> \o [i \in 1 .. (hi - lo + Chunk - 1) \div Chunk |-> lo + (i - 1) * Chunk]
    IN FoldLeft(LAMBDA a, start : Feed(a, SubSeq(docs, start + 1, Min({start + Chunk, hi}))),
                [b |-> NewSplits(cfg, lo), disk |-> [n \in {} |-> {}]], starts)

\* build_serial, finish: the manifest is written last.
Finish(fed) == [set |-> FinishParts(fed.b), disk |-> fed.disk]
BuildSerial(cfg, docs) ==
    LET written(r) ==
            IF r.set = Refused THEN Refused
            ELSE [manifest |-> ManifestOf(cfg, r.set.specs, r.set.hasFacets), disk |-> Flush(r.disk, r.set.blobs)]
    IN written(Finish(FeedChunks(cfg, docs, 0, Len(docs))))

------------------------------------------------------------------------------
\* build_band: the documents [lo, hi) in a set of their own, all on disk.
BuildBand(cfg, docs, lo, hi) ==
    LET written(r) == IF r.set = Refused THEN Refused
                      ELSE [parts |-> [r.set EXCEPT !.blobs = << >>], disk |-> Flush(r.disk, r.set.blobs)]
    IN written(Finish(FeedChunks(cfg, docs, lo, hi)))

\* merge_term_split_bands: one sequence of splits; the manifest, what the bands
\* still hold, under the name of its split, and the renames of the rest.
MergeBands(bands, cfg) ==
    LET tagged == FlattenSeq(<< >> \o [w \in DOMAIN bands |->
                      << >> \o [i \in DOMAIN bands[w].specs |-> <<w, bands[w].specs[i]>>]])
        all == << >> \o [i \in DOMAIN tagged |-> tagged[i][2]]
        name(i) == [prefix |-> cfg.prefix, idx |-> i - 1, ext |-> "rrt"]
        specs == << >> \o [i \in DOMAIN all |-> [all[i] EXCEPT !.name = name(i), !.tier = TierOf(cfg, i - 1)]]
        plan == << >> \o [i \in DOMAIN all |-> <<all[i].name, name(i)>>]
        hasFacets == \E w \in DOMAIN bands : bands[w].hasFacets
        stem(w, n) == {i \in DOMAIN all : tagged[i] = <<w, all[i]>> /\ all[i].name = [n EXCEPT !.ext = "rrt"]}
        renamed(w, n) == IF stem(w, n) = {} THEN n ELSE [name(Min(stem(w, n))) EXCEPT !.ext = n.ext]
        held(w) == << >> \o [i \in DOMAIN bands[w].blobs |->
                       [bands[w].blobs[i] EXCEPT !.name = renamed(w, @)]]
    IN IF \E i \in 2 .. Len(all) : all[i].lo < all[i - 1].hi + 1 THEN Refused
       ELSE [manifest |-> ManifestOf(cfg, specs, hasFacets),
             blobs |-> FlattenSeq(<< >> \o [w \in DOMAIN bands |-> held(w)]),
             renames |-> SelectSeq(plan, LAMBDA r : r[1] # r[2])]

\* A file is renamed over whatever had its name; the sidecar follows its split.
Rename(disk, from, to) ==
    IF from \notin DOMAIN disk THEN disk
    ELSE (to :> disk[from]) @@ [n \in DOMAIN disk \ {from} |-> disk[n]]
RenameSplit(disk, r) ==
    Rename(Rename(disk, r[1], r[2]), [r[1] EXCEPT !.ext = "rrf"], [r[2] EXCEPT !.ext = "rrf"])

\* build_parallel: a band of documents to each worker, under a prefix of its own.
BuildParallel(cfg, docs, workers) ==
    LET bound(w) == (Len(docs) * w) \div workers
        disk(bands) == FoldLeft(LAMBDA d, band : band.disk @@ d, [n \in {} |-> {}], bands)
        renamed(merged, bands) ==
            IF merged = Refused THEN Refused
            ELSE [manifest |-> merged.manifest, disk |-> FoldLeft(RenameSplit, disk(bands), merged.renames)]
        all(bands) == IF \E w \in DOMAIN bands : bands[w] = Refused THEN Refused
                      ELSE renamed(MergeBands(<< >> \o [w \in DOMAIN bands |-> bands[w].parts], cfg), bands)
    IN all(<< >> \o [w \in 1 .. workers |-> BuildBand([cfg EXCEPT !.prefix = w], docs, bound(w - 1), bound(w))])

------------------------------------------------------------------------------
\* splitset_strip_summaries: the manifest without its summaries, down to a tier
\* if there is one; the flags go too.
StripSummaries(manifest, maxTier) ==
    LET keep(splits) == SelectSeq(splits, LAMBDA s : maxTier = << >> \/ s.tier <= maxTier[1])
        bare(set, kept) ==
            IF set.sortcol # << >> \/ (maxTier # << >> /\ set.base < Len(set.splits))
               \/ \E i \in DOMAIN kept : kept[i].flags # {} THEN Refused
            ELSE WriteManifest(<< >> \o [i \in DOMAIN kept |-> [kept[i] EXCEPT !.summary = << >>]],
                     [policy |-> set.policy, tiers |-> IF maxTier = << >> THEN set.tiers ELSE maxTier[1] + 1,
                      base |-> Len(kept), cap |-> set.cap, gram |-> set.gram, kind |-> set.kind,
                      sortcol |-> << >>, flags |-> {}])
        strip(set) == IF set = BadSet THEN Refused ELSE bare(set, keep(set.splits))
    IN strip(OpenManifest(manifest))

\* build_global_bloom: the keys of the dictionaries of all the splits on disk.
GlobalBloom(disk, bits) ==
    LET splits == {disk[n] : n \in {x \in DOMAIN disk : x.ext = "rrs"}}
        keys(f) == LET count == f[1].ngrams
                       start == 1 + SparseCount(count, f[1].stride)
                   IN {e.key : e \in Range(ReadAt(f, start, count))}
    IN IF splits = {} \/ \E f \in splits : f[1].v4 THEN Refused
       ELSE BloomBuild(UNION {keys(f) : f \in splits}, bits)

\* derive_split_facets: the postings of a sidecar over all documents cut to the
\* range of every split; a category or a field that is empty there is left out.
DeriveFacets(side, manifest, fields) ==
    LET kept(mono) == SelectSeq(<< >> \o [f \in DOMAIN mono.fields |-> f], LAMBDA f : mono.fields[f].name \in fields)
        local(mono, t, s) == {d - s.lo : d \in {g \in DocsAt(mono, t) : s.lo <= g /\ g <= s.hi}}
        cut(mono, f, i, s) ==
            LET name == mono.fields[f].name
                cat == mono.fields[f].cats[i].entry.name
            IN [name |-> cat, key |-> FacetKey(name, cat), docs |-> local(mono, <<f, i>>, s), seekable |-> TRUE]
        cats(mono, f, s) == SelectSeq(<< >> \o [i \in DOMAIN mono.fields[f].cats |-> cut(mono, f, i, s)],
                                      LAMBDA c : c.docs # {})
        sliced(mono, order, s) == SelectSeq(<< >> \o [i \in DOMAIN order |->
                                                [name |-> mono.fields[order[i]].name, cats |-> cats(mono, order[i], s)]],
                                            LAMBDA f : f.cats # << >>)
        sidecars(mono, splits) ==
            [n \in {[s.name EXCEPT !.ext = "rrf"] : s \in splits} |->
               WriteFacets(sliced(mono, kept(mono), CHOOSE s \in splits : [s.name EXCEPT !.ext = "rrf"] = n))]
    IN sidecars(OpenMeta(side), {s \in Range(OpenManifest(manifest).splits) : s.count > 0})

\* geometric_ranges: [lo, hi) of base documents, then of twice as many each
\* time, up to most.
GeometricRanges(n, base, most) ==
    LET from[lo \in 0 .. n, size \in 1 .. Max({base, most})] ==
            IF lo >= n THEN << >>
            ELSE LET hi == Min({lo + size, n})
                 IN << <<lo, hi>> >> \o from[hi, Min({size * 2, most})]
    IN from[0, base]

\* The documents of [lo, hi) under their local numbers.
Slice(docs, r) == {d - r[1] : d \in {x \in docs : r[1] <= x /\ x < r[2]}}

\* The end of both slicers: a file and an entry for every range.
SlicedSet(cfg, files, ranges) ==
    LET name(i) == [prefix |-> cfg.prefix, idx |-> i - 1, ext |-> IF cfg.kind = "grams" THEN "rrs" ELSE "rrt"]
        spec(i) == [name |-> name(i), tier |-> i - 1, count |-> ranges[i][2] - ranges[i][1], lo |-> ranges[i][1],
                    hi |-> ranges[i][2] - 1, flags |-> {}, size |-> Len(files[i]), epoch |-> 0, summary |-> << >>]
    IN [manifest |-> WriteManifest(<< >> \o [i \in DOMAIN ranges |-> spec(i)],
            [policy |-> "tiered", tiers |-> Len(ranges), base |-> Len(ranges), cap |-> cfg.cap, gram |-> cfg.gram,
             kind |-> cfg.kind, sortcol |-> << >>, flags |-> {}]),
        disk |-> Flush([n \in {} |-> {}], << >> \o [i \in DOMAIN ranges |-> [name |-> name(i), bytes |-> files[i]]])]

\* slice_term_monolith: dictionary and postings are read in lockstep, and every
\* range has a stream writer.
SliceTerms(mono, ranges, prefix, cap) ==
    LET write(w, term, p) == WriteTerm(w, term, Serialize(p.head, TRUE), Serialize(p.tail, TRUE))
        push(w, term, docs) == IF docs = {} THEN w ELSE write(w, term, SplitPosting(docs, mono[1].boundary))
        file(ix, entries, docs, r) ==
            FinishTerms(FoldLeft(LAMBDA w, n : push(w, entries[n].term, Slice(docs[n], r)), NewTerms,
                                 << >> \o [n \in DOMAIN entries |-> n]), ix.spec, mono[1].boundary)
        files(ix, entries, docs) == << >> \o [i \in DOMAIN ranges |-> file(ix, entries, docs, ranges[i])]
        end(ix, blocks, n) == IF n = 0 THEN 0 ELSE blocks[n].tailOff + blocks[n].tailSize - ix.postings
        sliced(ix, entries, blocks) ==
            IF \E n \in DOMAIN entries : entries[n].off # end(ix, blocks, n - 1) THEN Refused
            ELSE IF Len(entries) # ix.terms THEN Refused
            ELSE SlicedSet([kind |-> "terms", gram |-> 0, prefix |-> prefix, cap |-> cap],
                           files(ix, entries, FullDocs(ix, blocks)), ranges)
        read(ix, entries) == sliced(ix, entries, HeadBlocks(ix, entries))
        opened(ix) == read(ix, DictTerms(ix))
    IN opened(OpenTerms(mono))

\* RrsStreamWriter: postings go out as they come, and the offsets are made
\* absolute at the end.
StreamGram(w, key, posting) ==
    [region |-> w.region \o posting,
     dict |-> Append(w.dict, [key |-> key, off |-> Len(w.region), size |-> Len(posting)])]
FinishGrams(w, gram, stride) ==
    LET n == Len(w.dict)
        sparse == << >> \o [i \in 1 .. SparseCount(n, stride) |-> w.dict[(i - 1) * stride + 1].key]
        start == 1 + Len(sparse) + n
    IN << [gram |-> gram, ngrams |-> n, stride |-> stride, v4 |-> FALSE] >> \o sparse
       \o (<< >> \o [i \in DOMAIN w.dict |-> [w.dict[i] EXCEPT !.off = start + @]]) \o w.region

\* slice_trigram_monolith: only an index that folds case has the short header.
SliceGrams(mono, ranges, prefix, cap) ==
    LET h == mono[1]
        start == 1 + SparseCount(h.ngrams, h.stride)
        end(entries, n) == IF n = 0 THEN start + h.ngrams ELSE entries[n].off + entries[n].size
        docs(entries) == << >> \o [n \in DOMAIN entries |-> Deserialize(ReadAt(mono, entries[n].off, entries[n].size))]
        push(w, key, ids) == IF ids = {} THEN w ELSE StreamGram(w, key, Serialize(ids, TRUE))
        file(entries, all, r) ==
            FinishGrams(FoldLeft(LAMBDA w, n : push(w, entries[n].key, Slice(all[n], r)),
                                 [region |-> << >>, dict |-> << >>],
                                 << >> \o [n \in DOMAIN entries |-> n]), h.gram, h.stride)
        files(entries, all) == << >> \o [i \in DOMAIN ranges |-> file(entries, all, ranges[i])]
        sliced(entries) ==
            IF h.v4 \/ \E n \in DOMAIN entries : entries[n].off # end(entries, n - 1) THEN Refused
            ELSE SlicedSet([kind |-> "grams", gram |-> h.gram, prefix |-> prefix, cap |-> cap],
                           files(entries, docs(entries)), ranges)
    IN sliced(ReadAt(mono, start, h.ngrams))

------------------------------------------------------------------------------
\* open_split and the search of one split; its sidecar has its stem.
SearchSplit(set, split, disk, query, limit) ==
    LET global(local) == << >> \o [i \in DOMAIN local |-> split.lo + local[i]]
        body == disk[split.name]
    IN global(IF set.kind = "grams" THEN SearchGrams(OpenGrams(body), query, limit)
              ELSE SearchTerms(OpenTerms(body), query, limit))

\* search_split_filtered: a selection that the sidecar's meta cannot meet skips
\* the body.
FilteredPage(set, split, disk, query, side, arms, limit) ==
    LET passing == FullBitmap(side, [fields |-> arms, excludes |-> {}])
        in(d) == d - split.lo \in passing
    IN IF {} \in arms THEN << >>
       ELSE Cut(SelectSeq(SearchSplit(set, split, disk, query, split.count), in), limit)
SearchFiltered(set, split, disk, query, selected, limit) ==
    LET side == OpenMeta(disk[[split.name EXCEPT !.ext = "rrf"]])
    IN FilteredPage(set, split, disk, query, side, Resolve(side, selected, {}).fields, limit)

\* search_tiered and search_faceted over the base splits: they are descended in
\* order while the page is short; a global filter may end the descent after
\* the first.
KeysOfQuery(set, query) == IF set.kind = "grams" THEN NgramKeys(query, set.gram, set.caseFold) ELSE {}
SelectedKeys(selected) ==
    {{FacetKey(p[1], p[2]) : p \in {q \in selected : q[1] = f}} : f \in {p[1] : p \in selected}}
SplitHits(set, s, disk, keys, query, selected, limit) ==
    IF PrunedByBloom(s, keys) \/ FacetPruned(set, s, SelectedKeys(selected)) THEN << >>
    ELSE IF selected = {} THEN SearchSplit(set, s, disk, query, limit)
    ELSE SearchFiltered(set, s, disk, query, selected, limit)
Descend(set, disk, global, query, selected, limit) ==
    LET keys == KeysOfQuery(set, query)
        over(out, s) == \/ Len(out) >= limit
                        \/ /\ out = << >> /\ s # set.splits[1] /\ selected = {} /\ keys # {} /\ global # Refused
                           /\ RemoteContainsAll(global, keys) = FALSE
    IN Cut(FoldLeft(LAMBDA out, s : IF over(out, s) THEN out
                                    ELSE out \o SplitHits(set, s, disk, keys, query, selected, limit),
                    << >>, set.splits), limit)
SearchSet(manifest, disk, global, query, selected, limit) ==
    Descend(OpenManifest(manifest), disk, global, query, selected, limit)

\* count_exact: everything the search would page, without a limit.
CountExact(manifest, disk, global, query, selected) ==
    Len(SearchSet(manifest, disk, global, query, selected, CapWord))

------------------------------------------------------------------------------
\* write_hotcache: [header][manifest][blob]; a member whose boot region is not
\* longer than the threshold is inlined, and takes its place in the blob.
WriteHotcache(members, threshold) ==
    LET inl(i) == members[i].bootLen <= threshold
        blob == FlattenSeq(<< >> \o [i \in DOMAIN members |-> IF inl(i) THEN members[i].boot ELSE << >>])
        place(i) == Total([j \in 1 .. i - 1 |-> IF inl(j) THEN members[j].bootLen ELSE 0])
    IN IF \E i \in DOMAIN members : Len(members[i].boot) # members[i].bootLen THEN BadBundle
       ELSE << [count |-> Len(members), inline |-> Len(blob)] >>
            \o [i \in DOMAIN members |->
                  [name |-> members[i].name, bootLen |-> members[i].bootLen, inlined |-> inl(i),
                   off |-> IF inl(i) THEN place(i) ELSE 0, len |-> IF inl(i) THEN members[i].bootLen ELSE 0]]
            \o blob

\* Hotcache::open: the header, then the rest in one read.
OpenHotcache(file) ==
    LET body == ReadAt(file, 1, file[1].count + file[1].inline)
    IN [members |-> SubSeq(body, 1, file[1].count), blob |-> SubSeq(body, file[1].count + 1, Len(body))]

\* Mutant: a member that is only referenced has an empty boot region.
EmptyForReferenced(cache, name) ==
    LET named == SelectSeq(cache.members, LAMBDA m : m.name = name)
    IN IF named = << >> THEN NotInlined ELSE ReadAt(cache.blob, named[1].off, named[1].len)

\* inlined, inlined_by_name: the first member of that name decides.
InlinedByName(cache, name) ==
    LET named == SelectSeq(cache.members, LAMBDA m : m.name = name)
    IN IF named = << >> \/ ~named[1].inlined THEN NotInlined
       ELSE ReadAt(cache.blob, named[1].off, named[1].len)

\* write_splitset_bundle: the first splits, or all of them, each with its kind's
\* boot region.  `files` are [name, bytes, bootLen].
WriteBundle(files, maxSplits, threshold) ==
    LET take == IF maxSplits = 0 THEN Len(files) ELSE Min({maxSplits, Len(files)})
    IN IF \E i \in 1 .. take : files[i].bootLen > Len(files[i].bytes) THEN BadBundle
       ELSE WriteHotcache(<< >> \o [i \in 1 .. take |->
                [name |-> files[i].name, bootLen |-> files[i].bootLen,
                 boot |-> SubSeq(files[i].bytes, 1, files[i].bootLen)]], threshold)
==============================================================================
