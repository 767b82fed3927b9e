------------------------------- MODULE GoFiles -------------------------------
(****************************************************************************)
(* The Go implementation of the files: the term index and its impacts       *)
(* (terms.go, terms_read.go, bm25.go, bm25_read.go), the n-gram index       *)
(* (ngram.go, monolithbuild.go, transcode.go, reader.go), the identifier    *)
(* lookup, the sort columns, the vectors, the boot bundle, the facets, the  *)
(* records and the split sets.  They share the format with the Rust         *)
(* modules, and no code; the cells of a file are laid out as there.         *)
(****************************************************************************)
EXTENDS Bm25, SplitFiles, IdLookup, SortCols, VectorIndex, Records

\* TermTokenizeWith: rune by rune, a token ends at the first that is none of its.
GoBaseTokens(text, caseFold) ==
    LET close(a) == IF a.cur = << >> THEN a ELSE [tokens |-> Append(a.tokens, a.cur), cur |-> << >>]
        rune(a, c) == IF IsLetter(c) THEN [a EXCEPT !.cur = Append(@, IF caseFold THEN Fold(c) ELSE c)]
                      ELSE close(a)
    IN close(FoldLeft(rune, [tokens |-> << >>, cur |-> << >>], text)).tokens

\* TermTokenizer.Tokenize; a language without a list stops no word.
GoTokenize(spec, text) ==
    LET stopped(t) == spec.stopwords /\ spec.language # NoLanguage /\ t \in StopWords[spec.language]
        stem(t) == IF spec.stem /\ spec.language # NoLanguage THEN Stem(spec.language, t) ELSE t
    IN FoldLeft(LAMBDA out, t : IF stopped(t) THEN out ELSE Append(out, stem(t)),
                << >>, GoBaseTokens(text, spec.caseFold))

------------------------------------------------------------------------------
\* dictBlockWriter: `count` entries are in the open block.
GoBlocks == [cur |-> << >>, prev |-> << >>, prevOff |-> 0, last |-> << >>, count |-> 0,
             blocks |-> << >>, dictLen |-> 0]

\* dictBlockWriter.flush.
GoFlush(w) ==
    IF w.count = 0 THEN w
    ELSE [GoBlocks EXCEPT !.blocks = Append(w.blocks, [off |-> w.dictLen, bytes |-> w.cur, last |-> w.last]),
                          !.dictLen = w.dictLen + Len(w.cur)]

\* Mutant: a block is full once it has reached the cap, whatever comes next.
GoPushReachingCap(v, e) ==
    LET entry(w) == LET shared == CommonPrefix(w.prev, e.term)
                    IN << shared, Len(e.term) - shared >> \o SubSeq(e.term, shared + 1, Len(e.term))
                       \o << e.off - w.prevOff, e.size >>
        w == IF Len(v.cur) >= BlockCap THEN GoFlush(v) ELSE v
    IN [w EXCEPT !.cur = @ \o entry(w), !.prev = e.term, !.prevOff = e.off, !.last = e.term, !.count = @ + 1]

\* dictBlockWriter.push: the entry as it would follow the open block's last
\* decides whether the block is full; the first of a block is coded in full.
GoPush(v, e) ==
    LET entry(w) == LET shared == CommonPrefix(w.prev, e.term)
                    IN << shared, Len(e.term) - shared >> \o SubSeq(e.term, shared + 1, Len(e.term))
                       \o << e.off - w.prevOff, e.size >>
        w == IF v.count > 0 /\ Len(v.cur) + Len(entry(v)) > BlockCap THEN GoFlush(v) ELSE v
    IN [w EXCEPT !.cur = @ \o entry(w), !.prev = e.term, !.prevOff = e.off, !.last = e.term, !.count = @ + 1]

\* WriteTermIndexFullDict: the file, and the dictionary with the offset of each
\* term's posting.
GoWriteTermIndex(postings, spec, boundary) ==
    LET put(w, t, head, tail) ==
            [region |-> w.region \o << Len(tail) >> \o head \o tail,
             blocks |-> GoPush(w.blocks, [term |-> t, off |-> Len(w.region), size |-> Len(head)]),
             dict |-> Append(w.dict, [term |-> t, off |-> Len(w.region)]),
             large |-> w.large \/ Len(head) >= SizeLimit]
        write(w, t) == LET half == SplitPosting(postings[t], boundary)
                       IN put(w, t, Serialize(half.head, TRUE), Serialize(half.tail, TRUE))
        told == spec.stem \/ spec.stopwords
        routed(blocks) == << >> \o [i \in DOMAIN blocks |->
                              [last |-> blocks[i].last, off |-> blocks[i].off, len |-> Len(blocks[i].bytes)]]
        laid(all, blocks, router) ==
            IF (told /\ spec.language = NoLanguage) \/ all.large \/ \E b \in Range(router) : b.len >= SizeLimit
            THEN Refused
            ELSE [dict |-> all.dict,
                  file |-> << [flags |-> [stem |-> spec.stem, stopwords |-> spec.stopwords,
                                          sensitive |-> ~spec.caseFold],
                               language |-> IF told THEN spec.language ELSE NoLanguage,
                               terms |-> Len(all.dict), boundary |-> boundary, routerLen |-> Len(router),
                               dictLen |-> Total(<< >> \o [i \in DOMAIN router |-> router[i].len])] >>
                           \o router \o FlattenSeq(<< >> \o [i \in DOMAIN blocks |-> blocks[i].bytes]) \o all.region]
        sealed(all, blocks) == laid(all, blocks, routed(blocks))
        finished(all) == sealed(all, GoFlush(all.blocks).blocks)
    IN finished(FoldLeft(write, [region |-> << >>, blocks |-> GoBlocks, dict |-> << >>, large |-> FALSE],
                         SortedBy(DOMAIN postings, Before)))

\* ImpactsAccumulator.AddDoc: `terms` keeps, per term, its documents in the
\* order they came.
GoAddDoc(acc, toks) ==
    LET at(t) == IF t \in DOMAIN acc.terms THEN acc.terms[t] ELSE << >>
    IN [docLens |-> Append(acc.docLens, Len(toks)),
        terms |-> [t \in DOMAIN acc.terms \union Range(toks) |->
                     IF t \in Range(toks)
                     THEN Append(at(t), [doc |-> Len(acc.docLens), tf |-> Occurs(toks, t)]) ELSE at(t)]]
GoAccumulate(texts, spec) ==
    FoldLeft(LAMBDA acc, text : GoAddDoc(acc, GoTokenize(spec, text)),
             [docLens |-> << >>, terms |-> [t \in {} |-> << >>]], texts)

\* WriteImpacts: an empty corpus, offsets out of order and a term without
\* statistics are refused.
GoWriteImpacts(dict, acc) ==
    LET n == Len(acc.docLens)
        bytes(t) == << >> \o [i \in DOMAIN acc.terms[t] |->
                       Quantize(acc.terms[t][i].tf, acc.docLens[acc.terms[t][i].doc + 1], Total(acc.docLens), n)]
        add(a, e) == [entries |-> Append(a.entries, [off |-> e.off, rel |-> Len(a.impacts),
                                                     card |-> Len(acc.terms[e.term])]),
                      impacts |-> a.impacts \o bytes(e.term)]
        all == FoldLeft(add, [entries |-> << >>, impacts |-> << >>], dict)
        sparse == SelectSeq(<< >> \o [i \in DOMAIN dict |-> i], LAMBDA i : (i - 1) % Stride = 0)
    IN IF n = 0 \/ \E e \in Range(dict) : e.term \notin DOMAIN acc.terms
          \/ \E i \in 1 .. Len(dict) - 1 : dict[i + 1].off <= dict[i].off
       THEN Refused
       ELSE << [terms |-> Len(dict), stride |-> Stride, docs |-> n, entriesOff |-> 1 + Len(sparse),
                impactsOff |-> 1 + Len(sparse) + Len(dict)] >>
            \o [i \in DOMAIN sparse |-> all.entries[sparse[i]].off] \o all.entries \o all.impacts

------------------------------------------------------------------------------
\* OpenTermIndex: the header and the router; the tokenizer is the header's.
GoOpenTerms(file) ==
    LET h == file[1]
    IN [file |-> file, router |-> ReadAt(file, 1, h.routerLen), dictStart |-> 1 + h.routerLen,
        postStart |-> 1 + h.routerLen + h.dictLen,
        spec |-> [language |-> h.language, stem |-> h.flags.stem, stopwords |-> h.flags.stopwords,
                  caseFold |-> ~h.flags.sensitive]]

\* decodeBlock, block.
GoDecodeBlock(block) ==
    LET step(a) ==
            LET shared == block[a.pos]
                suffix == block[a.pos + 1]
                next   == a.pos + 2 + suffix
                e == [term |-> SubSeq(a.term, 1, shared) \o SubSeq(block, a.pos + 2, next - 1),
                      off |-> a.off + block[next], size |-> block[next + 1]]
            IN [pos |-> next + 2, term |-> e.term, off |-> e.off, items |-> Append(a.items, e)]
    IN FoldLeft(LAMBDA a, c : IF a.pos > Len(block) THEN a ELSE step(a),
                [pos |-> 1, term |-> << >>, off |-> 0, items |-> << >>], block).items
GoBlock(ix, b) == GoDecodeBlock(ReadAt(ix.file, ix.dictStart + b.off, b.len))

\* find: the router's first key that is not below the token.
GoFind(ix, token) ==
    LET ge == SelectSeq(ix.router, LAMBDA b : ~Before(b.last, token))
    IN IF ge = << >> THEN << >> ELSE SelectSeq(GoBlock(ix, ge[1]), LAMBDA e : e.term = token)

\* readPosting and readHead.
GoReadPosting(ix, e) ==
    LET size == ReadAt(ix.file, ix.postStart + e.off, 1)[1]
        buf  == ReadAt(ix.file, ix.postStart + e.off + 1, e.size + size)
    IN Deserialize(SubSeq(buf, 1, e.size)) \union Deserialize(SubSeq(buf, e.size + 1, Len(buf)))
GoReadHead(ix, e) ==
    LET buf == ReadAt(ix.file, ix.postStart + e.off, 1 + e.size)
    IN [head |-> Deserialize(Tail(buf)), off |-> ix.postStart + e.off + 1 + e.size, size |-> buf[1]]

\* Posting: the union of what the query's tokens have; a token that is absent
\* is left out.  NoTerm when none is there.
GoPosting(ix, query) ==
    LET tokens == GoTokenize(ix.spec, query)
        found == FlattenSeq(<< >> \o [i \in DOMAIN tokens |-> GoFind(ix, tokens[i])])
    IN IF found = << >> THEN NoTerm ELSE UNION {GoReadPosting(ix, e) : e \in Range(found)}

\* Terms, Dict.
GoDict(ix) ==
    LET items == FlattenSeq(<< >> \o [i \in DOMAIN ix.router |-> GoBlock(ix, ix.router[i])])
    IN << >> \o [i \in DOMAIN items |-> [term |-> items[i].term, off |-> items[i].off]]

\* Mutant: the scan ends as soon as `max` are found.
GoScanToMax(ix, p, max) ==
    LET entry(a, e) ==
            IF a.stop \/ Before(e.term, p) THEN a
            ELSE IF ~StartsWith(e.term, p) THEN [a EXCEPT !.stop = TRUE]
            ELSE [items |-> Append(a.items, e), cut |-> FALSE, stop |-> Len(a.items) + 1 = max]
        block(a, b) == IF a.stop \/ Before(b.last, p) THEN a ELSE FoldLeft(entry, a, GoBlock(ix, b))
        none == [items |-> << >>, cut |-> FALSE, stop |-> FALSE]
    IN IF max = 0 THEN none ELSE FoldLeft(block, none, ix.router)

\* scanPrefix: one pass over the router to the end of the prefix, or to the
\* first entry past `max`, which tells that there are more.
GoScanPrefix(ix, p, max) ==
    LET entry(a, e) ==
            IF a.stop \/ Before(e.term, p) THEN a
            ELSE IF ~StartsWith(e.term, p) THEN [a EXCEPT !.stop = TRUE]
            ELSE IF Len(a.items) = max THEN [a EXCEPT !.cut = TRUE, !.stop = TRUE]
            ELSE [a EXCEPT !.items = Append(@, e)]
        block(a, b) == IF a.stop \/ Before(b.last, p) THEN a ELSE FoldLeft(entry, a, GoBlock(ix, b))
        none == [items |-> << >>, cut |-> FALSE, stop |-> FALSE]
    IN IF max = 0 THEN none ELSE FoldLeft(block, none, ix.router)

GoFoldPrefix(ix, prefix) == FoldAll(prefix, ix.spec.caseFold)

\* Complete, PrefixPostings.
GoComplete(ix, prefix, max) ==
    LET found == GoScanPrefix(ix, GoFoldPrefix(ix, prefix), max).items
    IN << >> \o [i \in DOMAIN found |-> found[i].term]
GoPrefixPostings(ix, prefix, limit) ==
    LET found == GoScanPrefix(ix, GoFoldPrefix(ix, prefix), limit)
    IN [cut |-> found.cut,
        out |-> << >> \o [i \in DOMAIN found.items |->
                    [term |-> found.items[i].term, docs |-> GoReadPosting(ix, found.items[i])]]]

\* SearchPrefix: the tails are read if the heads do not fill the limit.
GoSearchPrefix(ix, prefix, limit) ==
    LET found == GoScanPrefix(ix, GoFoldPrefix(ix, prefix), MaxPrefixTerms)
        read  == {GoReadHead(ix, e) : e \in Range(found.items)}
        heads == UNION {r.head : r \in read}
        tails == UNION {Deserialize(ReadAt(ix.file, r.off, r.size)) : r \in {x \in read : x.size > 0}}
    IN IF limit = 0 THEN [docs |-> << >>, cut |-> FALSE]
       ELSE [cut |-> found.cut,
             docs |-> Least(IF Cardinality(heads) < limit THEN heads \union tails ELSE heads, limit)]

\* ImpactIndex.Entry: a binary search over the entries; Impacts.
GoImpacts(file, off) ==
    LET h == file[1]
        at(i) == ReadAt(file, h.entriesOff + i, 1)[1]
        entry[lo \in 0 .. h.terms, hi \in 0 .. h.terms] ==
            LET mid == (lo + hi) \div 2
            IN IF lo >= hi THEN << >>
               ELSE IF at(mid).off = off THEN << at(mid) >>
               ELSE IF at(mid).off < off THEN entry[mid + 1, hi] ELSE entry[lo, mid]
        found == entry[0, h.terms]
    IN IF found = << >> THEN NoTerm ELSE ReadAt(file, h.impactsOff + found[1].rel, found[1].card)

------------------------------------------------------------------------------
\* sort.Search: the least of 0 .. n - 1 that satisfies P, otherwise n.
SortSearch(n, P(_)) == Min({i \in 0 .. n - 1 : P(i)} \union {n})

------------------------------------------------------------------------------
\* normalizeInto, runeNgramKey.
GoNormalize(field, caseFold) ==
    FoldLeft(LAMBDA out, r : IF IsLetter(r) THEN Append(out, IF caseFold THEN Fold(r) ELSE r) ELSE out,
             << >>, field)
GoRuneKey(runes) == FoldLeft(LAMBDA key, r : (2 * Upper + 1) * key + r, 0, runes)

\* NgramKeyer.Keys: in the order they are seen first.
GoKeys(query, gram, caseFold) ==
    LET add(keys, key) == IF key \in Range(keys) THEN keys ELSE Append(keys, key)
        field(keys, f) ==
            LET runes == GoNormalize(f, caseFold)
            IN FoldLeft(add, keys, << >> \o [i \in 1 .. Max({0, Len(runes) - gram + 1}) |->
                                               GoRuneKey(SubSeq(runes, i, i + gram - 1))])
    IN IF gram = 0 THEN << >> ELSE FoldLeft(field, << >>, Runs(query, LAMBDA r : r = 0))

\* TrigramMonolithBuilder: AddKeys numbers the documents as they come.
GoAddKeys(b, keys) ==
    LET had(k) == IF k \in DOMAIN b.open THEN b.open[k] ELSE {}
    IN [open |-> [k \in DOMAIN b.open \union Range(keys) |->
                    IF k \in Range(keys) THEN had(k) \union {b.nextID} ELSE had(k)],
        nextID |-> b.nextID + 1]
GoMonolith(texts, gram, caseFold) ==
    FoldLeft(LAMBDA b, text : GoAddKeys(b, GoKeys(text, gram, caseFold)),
             [open |-> [k \in {} |-> {}], nextID |-> 0], texts)

\* writeIndexWith: the entries are sorted, and an offset is a running total.
GoIndexFile(entries, gram, stride, caseFold) ==
    LET header == << [gram |-> gram, ngrams |-> Len(entries), stride |-> stride, v4 |-> ~caseFold] >>
                  \o (IF caseFold THEN << >> ELSE << [sensitive |-> TRUE] >>)
        sparse == << >> \o [i \in 1 .. (Len(entries) + stride - 1) \div stride |->
                              entries[(i - 1) * stride + 1].key]
        add(a, e) == [off |-> a.off + Len(e.bytes), bytes |-> a.bytes \o e.bytes,
                      dict |-> Append(a.dict, [key |-> e.key, off |-> a.off, size |-> Len(e.bytes)])]
        all == FoldLeft(add, [off |-> Len(header) + Len(sparse) + Len(entries),
                              dict |-> << >>, bytes |-> << >>], entries)
    IN header \o sparse \o all.dict \o all.bytes

\* WriteIndexWith: a key that comes twice is refused.
GoWriteIndex(entries, gram, stride, caseFold) ==
    LET sorted == SortSeq(entries, LAMBDA a, b : a.key < b.key)
    IN IF \E i \in 1 .. Len(sorted) - 1 : sorted[i + 1].key = sorted[i].key THEN BadEntries
       ELSE GoIndexFile(sorted, gram, IF stride = 0 THEN DefaultStride ELSE stride, caseFold)

\* TrigramMonolithBuilder.Write: the map is walked in any order.
GoWriteMonolith(b, gram, stride, caseFold) ==
    LET keys == SortedBy(DOMAIN b.open, LAMBDA x, y : x > y)
    IN GoWriteIndex(<< >> \o [i \in DOMAIN keys |-> [key |-> keys[i], bytes |-> Serialize(b.open[keys[i]], TRUE)]],
                    gram, stride, caseFold)

\* TranscodeStride: the postings of another file, in any order, are read and
\* written again; run containers stay what they are.
GoTranscode(payloads, gram, stride) ==
    LET posting(bytes) == Serialize(Deserialize(bytes), Seekable(bytes))
    IN GoIndexFile(SortSeq(<< >> \o [i \in DOMAIN payloads |->
                               [key |-> payloads[i].key, bytes |-> posting(payloads[i].bytes)]],
                           LAMBDA a, b : a.key < b.key),
                   gram, IF stride = 0 THEN DefaultStride ELSE stride, TRUE)

\* Open.
GoOpen(file) ==
    LET h == file[1]
        hdr == IF h.v4 THEN 2 ELSE 1
        sparse == (h.ngrams + h.stride - 1) \div h.stride
    IN [file |-> file, gram |-> h.gram, caseFold |-> IF h.v4 THEN ~file[2].sensitive ELSE TRUE,
        ngrams |-> h.ngrams, stride |-> h.stride, dictStart |-> hdr + sparse,
        sparse |-> ReadAt(file, hdr, sparse)]

\* dictBlockFor and readDictBlock: the block before the first greater key.
GoDictBlock(ix, key) ==
    LET b == SortSearch(Len(ix.sparse), LAMBDA i : ix.sparse[i + 1] > key) - 1
        base == b * ix.stride
    IN IF b < 0 THEN << >>
       ELSE ReadAt(ix.file, ix.dictStart + base,
                   IF base + ix.stride > ix.ngrams THEN ix.ngrams - base ELSE ix.stride)

\* findInBlock.
GoFindInBlock(block, key) ==
    LET i == SortSearch(Len(block), LAMBDA j : block[j + 1].key >= key)
    IN IF i >= Len(block) THEN NoRec ELSE IF block[i + 1].key # key THEN NoRec ELSE block[i + 1]

\* lookupMany and Postings: the postings of the keys that are there.
GoPostings(ix, keys) ==
    LET rec(k) == IF ix.ngrams = 0 THEN NoRec ELSE GoFindInBlock(GoDictBlock(ix, k), k)
    IN [k \in {x \in Range(keys) : rec(x) # NoRec} |-> Deserialize(ReadAt(ix.file, rec(k).off, rec(k).size))]

------------------------------------------------------------------------------
\* WriteLookup: a stable sort, so equal records keep their order.
GoWriteLookup(entries) ==
    LET record(e) == LET id == GoNormalize(e.id, TRUE)
                     IN IF id = << >> THEN << >>
                        ELSE << [hash |-> IdHash(id), verify |-> IdVerify(id), doc |-> e.doc] >>
        recs == FlattenSeq(<< >> \o [i \in DOMAIN entries |-> record(entries[i])])
    IN << [count |-> Len(recs)] >>
       \o SortSeq(recs, LAMBDA a, b : IF a.hash # b.hash THEN a.hash < b.hash ELSE a.doc < b.doc)

\* LookupIndex.Lookup: a lower bound by bisection, then the run of the hash.
GoLookupId(file, identifier) ==
    LET id == GoNormalize(identifier, TRUE)
        count == file[1].count
        entry(i) == ReadAt(file, 1 + i, 1)[1]
        bound[lo \in 0 .. count, hi \in 0 .. count] ==
            LET mid == (lo + hi) \div 2
            IN IF lo >= hi THEN lo ELSE IF entry(mid).hash < IdHash(id) THEN bound[mid + 1, hi] ELSE bound[lo, mid]
        run[i \in 0 .. count] ==
            IF i = count \/ entry(i).hash # IdHash(id) THEN << >>
            ELSE (IF entry(i).verify = IdVerify(id) THEN << entry(i).doc >> ELSE << >>) \o run[i + 1]
    IN IF id = << >> THEN << >> ELSE run[bound[0, count]]

\* WriteSortcols: the extents of the columns are a running total.
GoWriteSortcols(cols) ==
    LET rows == IF cols = << >> THEN 0 ELSE Len(cols[1].values)
        add(a, c) == [off |-> a.off + rows * Width(c.type),
                      table |-> Append(a.table, [nameOff |-> Len(a.names), type |-> c.type,
                                                 off |-> a.off, rows |-> rows]),
                      names |-> Append(a.names, c.name), data |-> a.data \o Cells(c.type, c.values)]
        all == FoldLeft(add, [off |-> 1 + 2 * Len(cols), table |-> << >>, names |-> << >>, data |-> << >>], cols)
    IN IF \E c \in Range(cols) : Len(c.values) # rows THEN BadColumns
       ELSE << [count |-> Len(cols), rows |-> rows] >> \o all.table \o all.names \o all.data

\* OpenSortcols, Column and ReadAll: one read for a column.
GoReadColumns(file) ==
    LET n == file[1].count
        table == ReadAt(file, 1, n)
        names == ReadAt(file, 1 + n, n)
        column(e) == LET w == Width(e.type)
                         buf == ReadAt(file, e.off, e.rows * w)
                     IN [name |-> names[e.nameOff + 1], type |-> e.type,
                         values |-> << >> \o [j \in 1 .. e.rows |-> buf[(j - 1) * w + 1]]]
    IN << >> \o [i \in 1 .. n |-> column(table[i])]

------------------------------------------------------------------------------
\* A model of go-ivfpq: flat tables, and two sequences for every list.
GoModel(t) ==
    [dim |-> t.dim, nlist |-> t.nlist, m |-> t.m, ksub |-> t.ksub, n |-> t.n, opq |-> FlattenSeq(t.opq),
     centroids |-> FlattenSeq(t.centroids),
     codebooks |-> FlattenSeq(<< >> \o [s \in DOMAIN t.codebooks |-> FlattenSeq(t.codebooks[s])]),
     ids |-> << >> \o [c \in DOMAIN t.lists |-> << >> \o [i \in DOMAIN t.lists[c] |-> t.lists[c][i].id]],
     codes |-> << >> \o [c \in DOMAIN t.lists |->
                 FlattenSeq(<< >> \o [i \in DOMAIN t.lists[c] |-> t.lists[c][i].code])]]

\* WriteRRVI.
GoWriteRRVI(m) ==
    LET tables == m.opq \o m.centroids \o m.codebooks
        add(a, c) == [off |-> a.off + Len(m.ids[c]) + Len(m.codes[c]),
                      dir |-> Append(a.dir, [off |-> a.off, count |-> Len(m.ids[c])]),
                      lists |-> a.lists \o m.ids[c] \o m.codes[c]]
        all == FoldLeft(add, [off |-> 1 + Len(tables) + m.nlist, dir |-> << >>, lists |-> << >>],
                        << >> \o [c \in 1 .. m.nlist |-> c])
    IN << [dim |-> m.dim, nlist |-> m.nlist, m |-> m.m, ksub |-> m.ksub, n |-> m.n, rotated |-> m.opq # << >>] >>
       \o tables \o all.dir \o all.lists

\* OpenRRVI, Cluster and ToModel: the tables are read one behind the other.
GoReadModel(file) ==
    LET h == file[1]
        opq == IF h.rotated THEN h.dim * h.dim ELSE 0
        cen == h.nlist * h.dim
        book == h.m * h.ksub * (h.dim \div h.m)
        dir == ReadAt(file, 1 + opq + cen + book, h.nlist)
        cluster(d) == ReadAt(file, d.off, d.count + d.count * h.m)
    IN [dim |-> h.dim, nlist |-> h.nlist, m |-> h.m, ksub |-> h.ksub, n |-> h.n,
        opq |-> ReadAt(file, 1, opq), centroids |-> ReadAt(file, 1 + opq, cen),
        codebooks |-> ReadAt(file, 1 + opq + cen, book),
        ids |-> << >> \o [c \in 1 .. h.nlist |-> SubSeq(cluster(dir[c]), 1, dir[c].count)],
        codes |-> << >> \o [c \in 1 .. h.nlist |->
                    SubSeq(cluster(dir[c]), dir[c].count + 1, dir[c].count * (1 + h.m))]]

\* WriteRerank: the header is out before a vector of another length is met.
GoWriteRerank(dim, vectors) ==
    IF \E v \in Range(vectors) : Len(v) # dim THEN BadVectors
    ELSE FoldLeft(LAMBDA buf, v : buf \o v, << [dim |-> dim, n |-> Len(vectors)] >>, vectors)

\* RerankStore.Vector: none past the last document.
GoVector(file, doc) ==
    IF doc >= file[1].n THEN << >> ELSE ReadAt(file, 1 + doc * file[1].dim, file[1].dim)

------------------------------------------------------------------------------
\* WriteHotcache.
GoWriteHotcache(members, threshold) ==
    LET add(a, m) ==
            LET inlined == m.bootLen <= threshold
            IN [table |-> Append(a.table,
                    [name |-> m.name, bootLen |-> m.bootLen, inlined |-> inlined,
                     off |-> IF inlined THEN Len(a.blob) ELSE 0, len |-> IF inlined THEN m.bootLen ELSE 0]),
                blob |-> IF inlined THEN a.blob \o m.boot ELSE a.blob]
        all == FoldLeft(add, [table |-> << >>, blob |-> << >>], members)
    IN IF \E m \in Range(members) : Len(m.boot) # m.bootLen THEN BadBundle
       ELSE << [count |-> Len(members), inline |-> Len(all.blob)] >> \o all.table \o all.blob

\* splitBoot, by the magic of the split: rrtiBootLen or rrsBootLen.
GoSplitBoot(bytes) ==
    LET h == bytes[1]
        hdr == IF h.v4 THEN 2 ELSE 1
    IN IF "routerLen" \in DOMAIN h THEN 1 + h.routerLen
       ELSE IF h.ngrams = 0 THEN hdr ELSE hdr + (h.ngrams + h.stride - 1) \div h.stride

\* WriteSplitsetBundle.
GoWriteBundle(splits, maxSplits, threshold) ==
    LET take == IF maxSplits # 0 /\ maxSplits < Len(splits) THEN maxSplits ELSE Len(splits)
        boot(s) == GoSplitBoot(s.bytes)
    IN IF \E i \in 1 .. take : boot(splits[i]) > Len(splits[i].bytes) THEN BadBundle
       ELSE GoWriteHotcache(<< >> \o [i \in 1 .. take |->
                [name |-> splits[i].name, bootLen |-> boot(splits[i]),
                 boot |-> SubSeq(splits[i].bytes, 1, boot(splits[i]))]], threshold)

\* OpenHotcache, Boot: nothing for a member that is only referenced.
GoBoots(file) ==
    LET n == file[1].count
        table == ReadAt(file, 1, n)
        blob == ReadAt(file, 1 + n, file[1].inline)
    IN << >> \o [i \in 1 .. n |->
           [name |-> table[i].name, bootLen |-> table[i].bootLen,
            boot |-> IF table[i].inlined THEN SubSeq(blob, table[i].off + 1, table[i].off + table[i].len)
                     ELSE << >>]]

------------------------------------------------------------------------------
\* WriteFacetsWith: the categories of a field by key; the postings follow each
\* other in that order, never with run containers.
GoWriteFacets(fields) ==
    LET put(a, c, head, tail) ==
            [bytes |-> a.bytes \o head \o tail,
             cats |-> Append(a.cats, [name |-> c.name, count |-> Cardinality(c.docs), headOff |-> Len(a.bytes),
                                      headSize |-> Len(head), tailSize |-> Len(tail)])]
        halves(a, c, half) == put(a, c, Serialize(half.head, TRUE), Serialize(half.tail, TRUE))
        cat(a, c) == halves(a, c, SplitPosting(c.docs, PerBucket))
        close(table, name, done) == [bytes |-> done.bytes, table |-> Append(table, [name |-> name, cats |-> done.cats])]
        field(a, f) == close(a.table, f.name, FoldLeft(cat, [bytes |-> a.bytes, cats |-> << >>],
                                                       SortSeq(f.cats, LAMBDA x, y : x.key < y.key)))
        side(all) == [table |-> all.table, file |-> all.bytes]
    IN side(FoldLeft(field, [bytes |-> << 0 >>, table |-> << >>], fields))

\* FacetIndex.posting and ReadAll: head and tail in one read.
GoReadFacets(side) ==
    LET docs(c) == LET buf == ReadAt(side.file, c.headOff, c.headSize + c.tailSize)
                   IN Deserialize(SubSeq(buf, 1, c.headSize))
                      \union Deserialize(SubSeq(buf, c.headSize + 1, Len(buf)))
    IN << >> \o [f \in DOMAIN side.table |->
           [name |-> side.table[f].name,
            cats |-> << >> \o [i \in DOMAIN side.table[f].cats |->
                [name |-> side.table[f].cats[i].name, docs |-> docs(side.table[f].cats[i])]]]]

------------------------------------------------------------------------------
\* frameRecordZstd.
GoFrame(rec, dict) ==
    LET compressed == Compress(rec, dict)
    IN IF rec = << >> THEN << >>
       ELSE IF Len(compressed) < Len(rec) THEN << Zstd >> \o compressed ELSE << Raw >> \o rec

\* RecordWriter with WriteRecords, and WriteRecordsZstd.
GoWriteRecords(recs, dict) ==
    LET write(w, rec) == LET bytes == IF dict = NoDict THEN rec ELSE GoFrame(rec, dict)
                         IN [bin |-> w.bin \o bytes, idx |-> Append(w.idx, Len(w.bin) + Len(bytes))]
    IN FoldLeft(write, [bin |-> << >>,
                        idx |-> << [version |-> IF dict = NoDict THEN 1 ELSE 2, count |-> Len(recs)], 0 >>], recs)

\* RecordStore.decode, with or without a dictionary's decompressor.
GoDecodeRecord(version, dict, raw) ==
    IF version = 1 \/ raw = << >> THEN raw
    ELSE IF raw[1] = Raw THEN Tail(raw)
    ELSE IF dict = NoDict \/ \E i \in 2 .. Len(raw) : raw[i].dict # dict THEN BadRecord
    ELSE IF Len(Inflate(Tail(raw))) > MaxRecord THEN BadRecord ELSE Inflate(Tail(raw))

\* readCoalesced of records.go: an empty range takes part in the spans.
GoReadCoalesced(file, ranges, gap) ==
    LET order == SortedBy(DOMAIN ranges, LAMBDA i, j : ranges[i].off < ranges[j].off
                                                      \/ (ranges[i].off = ranges[j].off /\ i < j))
        scan == FoldLeft(LAMBDA a, i : Bridged(a, ranges[i].off, ranges[i].off + ranges[i].len), Grow(gap), order)
        span(i) == scan.spans[scan.of[CHOOSE p \in DOMAIN order : order[p] = i]]
        data(s) == ReadAt(file, s.lo, s.hi - s.lo)
    IN << >> \o [i \in DOMAIN ranges |-> ReadAt(data(span(i)), ranges[i].off - span(i).lo, ranges[i].len)]

\* GetMany: each id that is there once, ascending; a span over the cap or a
\* record that does not decode fails the page.
GoGetMany(store, dict, gap, ids) ==
    LET h == store.idx[1]
        sorted == Ascending({id \in Range(ids) : id < h.count})
        pairs == GoReadCoalesced(store.idx, << >> \o [i \in DOMAIN sorted |->
                                                        [off |-> 1 + sorted[i], len |-> 2]], gap)
        blobs == GoReadCoalesced(store.bin, << >> \o [i \in DOMAIN sorted |->
                     [off |-> pairs[i][1], len |-> pairs[i][2] - pairs[i][1]]], gap)
        out == << >> \o [i \in DOMAIN sorted |-> GoDecodeRecord(h.version, dict, blobs[i])]
    IN IF \E p \in Range(pairs) : p[2] < p[1] \/ p[2] - p[1] > MaxRecord THEN BadStore
       ELSE IF BadRecord \in Range(out) THEN BadRecord
       ELSE [id \in Range(sorted) |-> out[CHOOSE i \in DOMAIN sorted : sorted[i] = id]]
------------------------------------------------------------------------------
\* tlvRecord; bloomK, bloomBuild: the filter has a whole number of bytes.
GoTlv(tag, payload) == << tag, Len(payload) >> \o payload
GoBloomK(bits) == Min({Max({(bits * 693147 + 500000) \div 1000000, 1}), 16})
GoBloomBuild(keys, bits) ==
    LET least == Max({Max({Len(keys), 1}) * bits, BloomFloor})
        even == IF least % ByteBits # 0 THEN least + (ByteBits - (least % ByteBits)) ELSE least
        nbits == IF even > BloomCeil THEN BloomCeil ELSE even
        mark(bytes, p) == [bytes EXCEPT ![p \div ByteBits + 1] = @ \union {p % ByteBits}]
        position(key, i) == ((Hash1(key) + i * Hash2(key)) % HashWord) % nbits
        add(bytes, key) == FoldLeft(LAMBDA all, i : mark(all, position(key, i - 1)), bytes,
                                    << >> \o [i \in 1 .. GoBloomK(bits) |-> i])
    IN << [k |-> GoBloomK(bits), nbits |-> nbits] >>
       \o FoldLeft(add, << >> \o [y \in 1 .. nbits \div ByteBits |-> {}], keys)

\* capFor: a cap that would wrap is the greatest there is.
GoCapFor(cfg, tier) ==
    LET shifted == cfg.cap * 2 ^ Min({tier, MaxShift})
    IN IF cfg.capMax = 0 THEN cfg.cap
       ELSE Min({IF shifted >= CapWord THEN CapWord - 1 ELSE shifted, Max({cfg.capMax, cfg.cap})})

\* facetPresence, openFacetFields: of the open facets, a function from fields
\* to functions from categories to documents.
GoPresence(open) ==
    LET keys == Ascending(UNION {{FacetKey(f, c) : c \in DOMAIN open[f]} : f \in DOMAIN open})
    IN << Len(keys) >> \o keys
GoFacetFields(open) ==
    LET cat(f, c) == [name |-> c, key |-> FacetKey(f, c), docs |-> open[f][c]]
        cats(f) == LET order == Ascending(DOMAIN open[f]) IN << >> \o [i \in DOMAIN order |-> cat(f, order[i])]
        names == Ascending(DOMAIN open)
    IN << >> \o [i \in DOMAIN names |-> [name |-> names[i], cats |-> cats(names[i])]]

\* facetTailDir: nothing for a posting that is not seekable.
GoTailDir(tail) ==
    LET n == tail[1].size
    IN IF tail[1].cookie # "offsets" \/ (n > 0 /\ tail[2].start # 1 + n) THEN << >>
       ELSE << >> \o [i \in 1 .. n |-> [key |-> tail[i + 1].key, start |-> tail[i + 1].start]]

\* facetDigest, facetDigestV2: the first k of a field by count, then by name.
GoTop(cats, k) ==
    Cut(SortSeq(cats, LAMBDA a, b : a.count > b.count \/ (a.count = b.count /\ a.name < b.name)), k)
GoDigest(side, k) ==
    [version |-> 1, k |-> k,
     fields |-> << >> \o [f \in DOMAIN side.table |->
                    [name |-> side.table[f].name, cats |-> GoTop(side.table[f].cats, k)]]]
GoDigestV2(side, k) ==
    LET dir(c) == GoTailDir(ReadAt(side.file, c.headOff + c.headSize, c.tailSize))
        field(f) == LET top == GoTop(f.cats, k)
                    IN [name |-> f.name, cats |-> top, dirs |-> << >> \o [i \in DOMAIN top |-> dir(top[i])]]
    IN [version |-> 2, k |-> k, fields |-> << >> \o [f \in DOMAIN side.table |-> field(side.table[f])]]

\* sealFacetSidecar: the summary with what the open facets add to it.
GoSidecar(b, summary, idx) ==
    LET digest(side) == IF b.cfg.top = 0 THEN << >>
                        ELSE IF b.cfg.v2 THEN GoTlv(DigestV2Tag, << GoDigestV2(side, b.cfg.top) >>)
                        ELSE GoTlv(DigestTag, << GoDigest(side, b.cfg.top) >>)
        with(side) == [summary |-> summary \o GoTlv(FacetTag, GoPresence(b.facets)) \o digest(side),
                       blobs |-> << [name |-> [prefix |-> b.cfg.prefix, idx |-> idx, ext |-> "rrf"], bytes |-> side] >>]
    IN IF DOMAIN b.facets = {} THEN [summary |-> summary, blobs |-> << >>]
       ELSE with(GoWriteFacets(GoFacetFields(b.facets)))

\* NewSplitSetBuilder, NewTermSplitSetBuilder.
GoNewSplits(cfg) ==
    [cfg |-> cfg, open |-> [k \in {} |-> {}], facets |-> [f \in {} |-> {}], openCount |-> 0, globalBase |-> 0,
     nextID |-> 0, up |-> 0, hasFacets |-> FALSE, specs |-> << >>, blobs |-> << >>, facetBlobs |-> << >>]

\* estimate, of either builder.
GoSetEstimate(b) ==
    LET n == Cardinality(DOMAIN b.open)
    IN IF b.cfg.kind = "grams"
       THEN IndexBase + n * PerNewKey + (n + b.cfg.stride - 1) \div b.cfg.stride + b.up
       ELSE TermBase + b.up

\* seal, of either builder; a term set has no filter.
GoSeal(b) ==
    LET idx == Len(b.specs)
        grams == b.cfg.kind = "grams"
        name == [prefix |-> b.cfg.prefix, idx |-> idx, ext |-> IF grams THEN "rrs" ELSE "rrt"]
        index(keys) == GoIndexFile(<< >> \o [i \in DOMAIN keys |->
                                       [key |-> keys[i], bytes |-> Serialize(b.open[keys[i]], TRUE)]],
                                   b.cfg.gram, b.cfg.stride, b.cfg.caseFold)
        bloom(keys) == IF b.cfg.bits > 0 THEN GoTlv(BloomTag, GoBloomBuild(keys, b.cfg.bits)) ELSE << >>
        with(body, side) ==
            [b EXCEPT !.open = [k \in {} |-> {}], !.facets = [f \in {} |-> {}], !.openCount = 0,
                      !.globalBase = b.nextID, !.up = 0,
                      !.specs = Append(@, [name |-> name, tier |-> IF b.cfg.policy = "tiered" THEN Min({idx, MaxTier}) ELSE 0,
                                           count |-> b.openCount, lo |-> b.globalBase,
                                           hi |-> b.globalBase + b.openCount - 1, flags |-> {}, size |-> Len(body),
                                           epoch |-> 0, summary |-> side.summary]),
                      !.blobs = Append(@, [name |-> name, bytes |-> body]), !.facetBlobs = @ \o side.blobs]
    IN IF b.openCount = 0 THEN b
       ELSE IF grams THEN LET keys == Ascending(DOMAIN b.open) IN with(index(keys), GoSidecar(b, bloom(keys), idx))
       ELSE with(GoWriteTermIndex(b.open, b.cfg.spec, PerBucket).file, GoSidecar(b, << >>, idx))

\* addInner, AddFaceted: a document of [text, tags], a tag being a category of
\* a field.
GoAddSplit(b, doc) ==
    LET keys == IF b.cfg.kind = "grams" THEN Range(GoKeys(doc.text, b.cfg.gram, b.cfg.caseFold))
                ELSE Range(GoTokenize(b.cfg.spec, doc.text))
        new(k) == IF b.cfg.kind = "grams" THEN PerNewKey ELSE PerNewTerm + Len(k)
        each == IF b.cfg.kind = "grams" THEN PerElement ELSE PerTermElement
        cost(open) == MapThenSumSet(new, keys \ open) + Cardinality(keys) * each
        full == b.openCount > 0
                /\ GoSetEstimate(b) + cost(DOMAIN b.open) > GoCapFor(b.cfg, Len(b.specs))
        had(m, x) == IF x \in DOMAIN m THEN m[x] ELSE {}
        with(m, xs, local) == [x \in DOMAIN m \union xs |-> IF x \in xs THEN had(m, x) \union {local} ELSE m[x]]
        none == [c \in {} |-> {}]
        cats(f) == {t.cat : t \in {x \in doc.tags : x.field = f}}
        fields == {t.field : t \in doc.tags}
        field(m, f, local) == with(IF f \in DOMAIN m THEN m[f] ELSE none, cats(f), local)
        \* a gram builder charges the new keys when it estimates
        up(open) == Cardinality(keys) * each
                    + IF b.cfg.kind = "grams" THEN 0 ELSE MapThenSumSet(new, keys \ open)
        added(into) ==
            [into EXCEPT !.open = with(@, keys, into.openCount), !.up = @ + up(DOMAIN into.open),
                         !.facets = [f \in DOMAIN @ \union fields |->
                                       IF f \in fields THEN field(@, f, into.openCount) ELSE @[f]],
                         !.hasFacets = @ \/ fields # {}, !.openCount = @ + 1, !.nextID = @ + 1]
    IN added(IF full THEN GoSeal(b) ELSE b)

\* WriteSplitSet.
GoWriteSplitSet(specs, config) ==
    LET push(a, s) == [entries |-> Append(a.entries,
                           [nameOff |-> Len(a.names), tier |-> s.tier, count |-> s.count, lo |-> s.lo, hi |-> s.hi,
                            flags |-> s.flags, size |-> s.size, epoch |-> s.epoch,
                            off |-> IF s.summary = << >> THEN 0 ELSE Len(a.blob), len |-> Len(s.summary)]),
                       names |-> Append(a.names, s.name), blob |-> a.blob \o s.summary]
        all == FoldLeft(push, [entries |-> << >>, names |-> << >>, blob |-> << >>], specs)
        sortcol == << >> \o [i \in DOMAIN config.sortcol |->
                       [nameOff |-> Len(all.names), column |-> config.sortcol[i].column,
                        descending |-> config.sortcol[i].descending]]
        names == all.names \o (<< >> \o [i \in DOMAIN config.sortcol |-> config.sortcol[i].name])
    IN IF config.base > Len(specs) THEN Refused
       ELSE << [config EXCEPT !.sortcol = sortcol]
               @@ [splits |-> Len(specs), names |-> Len(names), summaries |-> Len(all.blob)] >>
            \o all.entries \o names \o all.blob

\* Finish, of either builder: the manifest is of what was sealed.
GoFinishSet(fed) ==
    LET cfg == fed.cfg
        grams == cfg.kind = "grams"
        config(b) == [policy |-> cfg.policy, tiers |-> IF cfg.policy = "tiered" THEN Min({Len(b.specs), MaxTier}) ELSE 0,
                      base |-> Len(b.specs), cap |-> cfg.cap, gram |-> IF grams THEN cfg.gram ELSE 0,
                      kind |-> cfg.kind, sortcol |-> cfg.sortcol,
                      flags |-> {x \in {"bloom", "facet", "sensitive"} :
                                   \/ x = "bloom" /\ grams /\ cfg.bits > 0
                                   \/ x = "facet" /\ b.hasFacets
                                   \/ x = "sensitive" /\ ~cfg.caseFold}]
        disk(files) == [n \in {files[i].name : i \in DOMAIN files} |->
                          files[CHOOSE i \in DOMAIN files : files[i].name = n].bytes]
        finished(b) ==
            IF \E i \in DOMAIN b.specs : b.specs[i].count = 1 /\ b.specs[i].size > GoCapFor(cfg, i - 1) THEN Refused
            ELSE [manifest |-> GoWriteSplitSet(b.specs, config(b)), disk |-> disk(b.blobs \o b.facetBlobs)]
    IN finished(GoSeal(fed))
GoBuildSet(cfg, docs) == GoFinishSet(FoldLeft(GoAddSplit, GoNewSplits(cfg), docs))

\* OpenSplitSet: the directory, the names and the summaries are read apart; a
\* split without a summary is not looked up.
GoOpenSplitSet(file) ==
    LET h == file[1]
        entries == ReadAt(file, 1, h.splits)
        names == ReadAt(file, 1 + h.splits, h.names)
        blob == ReadAt(file, 1 + h.splits + h.names, h.summaries)
        bad(e) == e.nameOff >= Len(names) \/ (e.len > 0 /\ e.off + e.len > Len(blob))
        split(e) == [name |-> names[e.nameOff + 1], tier |-> e.tier, count |-> e.count, lo |-> e.lo, hi |-> e.hi,
                     flags |-> e.flags, size |-> e.size, epoch |-> e.epoch,
                     summary |-> IF e.len > 0 THEN SubSeq(blob, e.off + 1, e.off + e.len) ELSE << >>]
    IN IF \E e \in Range(entries) : bad(e) THEN BadSet
       ELSE [config |-> [h EXCEPT !.sortcol = << >> \o [i \in DOMAIN @ |->
                            [name |-> names[@[i].nameOff + 1], column |-> @[i].column,
                             descending |-> @[i].descending]]],
             splits |-> << >> \o [i \in DOMAIN entries |-> split(entries[i])]]
==============================================================================
