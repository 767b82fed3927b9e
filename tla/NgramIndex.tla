----------------------------- MODULE NgramIndex -----------------------------
(****************************************************************************)
(* The n-gram index (RRSI) as a file: the keys of rust/src/ngram.rs, the    *)
(* one-shot writer and the chunked writer of rust/src/build.rs, the         *)
(* dictionary reads and the one-shot searches of rust/src/index.rs.         *)
(*                                                                          *)
(* A header, a sparse key and a dictionary entry take one cell each.        *)
(****************************************************************************)
EXTENDS PostingBytes, Chars

CONSTANTS
    DefaultStride,  \* DEFAULT_STRIDE, entries to a sparse key
    EagerBuckets,   \* EAGER_BUCKETS, the buckets of the eager prefix
    TailBatch,      \* TAIL_KEY_BATCH, the buckets of a window of the tail
    BadEntries,     \* write_index's error on a repeated key
    NoRec           \* a key is not in the dictionary

ASSUME GramAssumption == {DefaultStride, EagerBuckets, TailBatch} \subseteq Nat \ {0}

------------------------------------------------------------------------------
\* rune_ngram_key packs a window into one number; the hash of a long window is
\* taken to be as good.
GramKey(window) == FoldLeft(LAMBDA k, c : k * (2 * Upper + 1) + c, 0, window)

Normalize(field, caseFold) == FoldAll(SelectSeq(field, IsLetter), caseFold)
Windows(runes, gram) ==
    << >> \o [i \in 1 .. Max({0, Len(runes) - gram + 1}) |-> SubSeq(runes, i, i + gram - 1)]

\* ngram_keys_with: the windows of every word by itself, each key once.
NgramKeys(query, gram, caseFold) ==
    LET fields == Runs(query, LAMBDA c : c = 0)
        wins(f) == Windows(Normalize(f, caseFold), gram)
    IN IF gram = 0 THEN {} ELSE UNION {{GramKey(w) : w \in Range(wins(f))} : f \in Range(fields)}

\* The postings of a corpus; those of the keys in `runs` were written by a
\* builder that uses run containers.
GramEntries(corpus, gram, caseFold, runs) ==
    LET keys == [d \in DOMAIN corpus |-> NgramKeys(corpus[d], gram, caseFold)]
        docs(k) == {d \in DOMAIN corpus : k \in keys[d]}
        all == Ascending(UNION Range(keys))
    IN << >> \o [i \in DOMAIN all |->
           [key |-> all[i], bytes |-> Serialize(docs(all[i]), all[i] \notin runs)]]

------------------------------------------------------------------------------
\* sparse_count; write_sparse_index: every stride-th key.
SparseCount(ngrams, stride) == (ngrams + stride - 1) \div stride
SparseIndex(entries, stride) ==
    << >> \o [i \in 1 .. SparseCount(Len(entries), stride) |-> entries[(i - 1) * stride + 1].key]

\* The file of the entries, by ascending key: [header][sparse][dictionary][postings].
\* A case-sensitive index has the longer header.
GramFile(entries, gram, stride, caseFold) ==
    LET header == << [gram |-> gram, ngrams |-> Len(entries), stride |-> stride,
                      v4 |-> ~caseFold] >> \o (IF caseFold THEN << >> ELSE << [sensitive |-> TRUE] >>)
        sparse == SparseIndex(entries, stride)
        start(i) == Len(header) + Len(sparse) + Len(entries)
                    + Total([j \in 1 .. i - 1 |-> Len(entries[j].bytes)])
    IN header \o sparse
       \o [i \in DOMAIN entries |->
             [key |-> entries[i].key, off |-> start(i), size |-> Len(entries[i].bytes)]]
       \o FlattenSeq(<< >> \o [i \in DOMAIN entries |-> entries[i].bytes])

\* write_index_with: sorts the entries, refuses a key that comes twice.
WriteGrams(entries, gram, stride, caseFold) ==
    LET sorted == SortSeq(entries, LAMBDA a, b : a.key < b.key)
    IN IF \E i \in 1 .. Len(sorted) - 1 : sorted[i].key = sorted[i + 1].key THEN BadEntries
       ELSE GramFile(sorted, gram, IF stride = 0 THEN DefaultStride ELSE stride, caseFold)

\* write_partial: one chunk's entries by key.
WritePartial(entries) == SortSeq(entries, LAMBDA a, b : a.key < b.key)

\* Mutant: one cursor's entry is taken for the key.
MergeTakingOne(partials, gram, stride) ==
    LET keys == Ascending({e.key : e \in UNION {Range(partials[i]) : i \in DOMAIN partials}})
        entry(k) == LET i == CHOOSE j \in DOMAIN partials : \E e \in Range(partials[j]) : e.key = k
                    IN CHOOSE e \in Range(partials[i]) : e.key = k
    IN GramFile(<< >> \o [i \in DOMAIN keys |-> entry(keys[i])], gram,
                IF stride = 0 THEN DefaultStride ELSE stride, TRUE)

\* merge_partials_to_rrs: the cursors are merged by key; every cursor at the
\* least key gives its posting and advances.  The keys are folded.
MergePartials(partials, gram, stride) ==
    LET keys == Ascending({e.key : e \in UNION {Range(partials[i]) : i \in DOMAIN partials}})
        at(cursors, k) == {i \in DOMAIN cursors : cursors[i] # << >> /\ cursors[i][1].key = k}
        merge(a, k) ==
            LET docs == UNION {Deserialize(a.cursors[i][1].bytes) : i \in at(a.cursors, k)}
            IN [out |-> Append(a.out, [key |-> k, bytes |-> Serialize(docs, TRUE)]),
                cursors |-> << >> \o [i \in DOMAIN a.cursors |->
                    IF i \in at(a.cursors, k) THEN Tail(a.cursors[i]) ELSE a.cursors[i]]]
    IN GramFile(FoldLeft(merge, [out |-> << >>, cursors |-> partials], keys).out, gram,
                IF stride = 0 THEN DefaultStride ELSE stride, TRUE)

------------------------------------------------------------------------------
\* Index::open, Index::from_boot and rrs_boot_len.
GramHeader(file) == IF file[1].v4 THEN 2 ELSE 1
GramBootLen(file) == GramHeader(file) + SparseCount(file[1].ngrams, file[1].stride)
GramsFromBoot(boot, file) ==
    [file |-> file, gram |-> boot[1].gram, ngrams |-> boot[1].ngrams, stride |-> boot[1].stride,
     dictStart |-> GramBootLen(boot), sparse |-> SubSeq(boot, GramHeader(boot) + 1, GramBootLen(boot)),
     caseFold |-> ~(boot[1].v4 /\ boot[2].sensitive)]
OpenGrams(file) == GramsFromBoot(ReadAt(file, 0, GramBootLen(file)), file)

\* The extent of the b-th block of the dictionary.
BlockExtent(ix, b) ==
    [off |-> ix.dictStart + (b - 1) * ix.stride, len |-> Min({ix.stride, ix.ngrams - (b - 1) * ix.stride})]

\* Mutant: a key between two sparse keys is looked for in the later block.
LaterDictBlock(ix, key) ==
    LET b == 1 + Cardinality({i \in DOMAIN ix.sparse : ix.sparse[i] < key})
    IN IF b > Len(ix.sparse) THEN NoRec ELSE BlockExtent(ix, b)

\* dict_block_for: the block of the last sparse key not above the key; none if
\* the key is before them all.
DictBlock(ix, key) ==
    LET upto == Cardinality({i \in DOMAIN ix.sparse : ix.sparse[i] <= key})
    IN IF ix.ngrams = 0 \/ upto = 0 THEN NoRec ELSE BlockExtent(ix, upto)

\* parse_block and lookup: NoRec for a key that is absent.
InDictBlock(cells, key) ==
    LET found == {e \in Range(cells) : e.key = key} IN IF found = {} THEN NoRec ELSE CHOOSE e \in found : TRUE
RecOf(ix, key) ==
    LET block == DictBlock(ix, key)
    IN IF block = NoRec THEN NoRec ELSE InDictBlock(ReadAt(ix.file, block.off, block.len), key)

\* lookup_many, in the order of the keys: those with a block share its read.
RecsOf(ix, keys) ==
    LET sorted == Ascending(keys)
        blocks == << >> \o [i \in DOMAIN sorted |-> DictBlock(ix, sorted[i])]
        datas  == ReadOnce(ix.file, {b \in Range(blocks) : b # NoRec})
    IN << >> \o [i \in DOMAIN sorted |->
           IF blocks[i] = NoRec THEN NoRec ELSE InDictBlock(datas[blocks[i]], sorted[i])]
QueryKeys(ix, query) == NgramKeys(query, ix.gram, ix.caseFold)
Absent(recs) == \E i \in DOMAIN recs : recs[i] = NoRec
Extents(recs) == << >> \o [i \in DOMAIN recs |-> [off |-> recs[i].off, len |-> recs[i].size]]

\* query_cost, term_count, count_estimate, posting.
QueryCost(ix, query) ==
    LET recs == RecsOf(ix, QueryKeys(ix, query))
    IN IF Absent(recs) THEN 0 ELSE Total(<< >> \o [i \in DOMAIN recs |-> recs[i].size])
TermCount(ix, key) ==
    LET rec == RecOf(ix, key)
    IN IF rec = NoRec THEN NoRec ELSE PostingCardinality(ix.file, rec.off, rec.size)
CountEstimate(ix, query) ==
    LET keys == QueryKeys(ix, query)
        recs == RecsOf(ix, keys)
    IN IF keys = {} \/ Absent(recs) THEN [count |-> 0, exact |-> TRUE]
       ELSE [count |-> Min({PostingCardinality(ix.file, r.off, r.size) : r \in Range(recs)}),
             exact |-> Cardinality(keys) = 1]
PostingOf(ix, key) ==
    LET rec == RecOf(ix, key)
    IN IF rec = NoRec THEN NoRec ELSE Deserialize(ReadAt(ix.file, rec.off, rec.size))

\* The tail of a search: windows of buckets past the eager ones while the page
\* is short, or the whole postings when one has no directory.
TailScan(ix, ranges, dirs, need) ==
    LET keys == Ascending({k \in CommonKeys(dirs) : k >= EagerBuckets})
        rounds == (Len(keys) + TailBatch - 1) \div TailBatch
        window(n) == {keys[i] : i \in {j \in DOMAIN keys : (j - 1) \div TailBatch = n - 1}}
    IN IF dirs = NoDir
       THEN Ascending({d \in IntersectAnd(ix.file, ranges) : Key(d) >= EagerBuckets})
       ELSE FoldLeft(LAMBDA out, n : IF Len(out) >= need THEN out
                                     ELSE out \o Ascending(WindowAnd(ix.file, dirs, window(n))),
                     << >>, [n \in 1 .. rounds |-> n])
TailWindows(ix, ranges, need) == TailScan(ix, ranges, OpenDirs(ix.file, ranges), need)

\* search: the eager prefixes' intersection, and the tail if it is too short.
PageFrom(ix, recs, eager, limit) ==
    IF Len(eager) >= limit THEN eager
    ELSE eager \o Cut(TailWindows(ix, Extents(recs), limit - Len(eager)), limit - Len(eager))
SearchGrams(ix, query, limit) ==
    LET keys  == QueryKeys(ix, query)
        recs  == RecsOf(ix, keys)
        heads == AndAll(<< >> \o [i \in DOMAIN recs |->
                     HeadPrefix(ix.file, recs[i].off, recs[i].size, EagerBuckets)])
    IN IF keys = {} \/ limit = 0 \/ Absent(recs) THEN << >>
       ELSE PageFrom(ix, recs, Least(heads, limit), limit)

\* search_candidates: the k smallest postings only.
SearchCandidates(ix, query, k) ==
    LET keys == QueryKeys(ix, query)
        recs == SortSeq(RecsOf(ix, keys), LAMBDA a, b : a.size < b.size)
        seed == Cut(recs, k)
    IN IF keys = {} \/ k = 0 \/ Absent(RecsOf(ix, keys)) THEN << >>
       ELSE Ascending(AndAll(<< >> \o [i \in DOMAIN seed |->
                Deserialize(ReadAt(ix.file, seed[i].off, seed[i].size))]))
==============================================================================
