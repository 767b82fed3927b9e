-------------------------------- MODULE Bm25 --------------------------------
(****************************************************************************)
(* BM25 ranking over a term index: the impact sidecar (RRSB) of             *)
(* rust/src/bm25.rs, its writer, its reader and the two searches.           *)
(*                                                                          *)
(* An impact is the integer the code stores.  A document's score is the sum *)
(* of idf * impact; the idf is a constant function of a term's cardinality  *)
(* and the rounding of single floats is left out.                           *)
(****************************************************************************)
EXTENDS TermIndex

CONSTANTS
    Idf(_, _),      \* the idf of a cardinality among so many documents
    Stride,         \* SPARSE_STRIDE, entries to a resident key
    ImpactGap       \* COALESCE_GAP

ASSUME ImpactAssumption == Stride \in Nat \ {0} /\ ImpactGap \in Nat

\* quantize_impact with k1 = 6/5 and b = 3/4, rounded half up into 1 .. 255.
Quantize(tf, dl, sumDl, n) ==
    LET over  == 255 * tf * 20 * sumDl
        under == 20 * sumDl * tf + 6 * sumDl + 18 * dl * n
    IN Max({1, Min({255, (2 * over + under) \div (2 * under)})})

\* ImpactsAccumulator: per document its length and how often it has a term.
Occurs(tokens, t) == Cardinality({i \in DOMAIN tokens : tokens[i] = t})
Accumulate(corpus, spec) ==
    LET toks == [d \in DOMAIN corpus |-> Tokenize(spec, corpus[d])]
    IN [docLens |-> [d \in DOMAIN corpus |-> Len(toks[d])],
        terms |-> [t \in UNION {Range(toks[d]) : d \in DOMAIN corpus} |->
                     LET docs == Ascending({d \in DOMAIN corpus : t \in Range(toks[d])})
                     IN << >> \o [i \in DOMAIN docs |-> [doc |-> docs[i], tf |-> Occurs(toks[docs[i]], t)]]]]

\* write_impacts: the dictionary's terms in order, one entry and `card` impacts
\* each.  Addresses out of order and a term without statistics are refused.
WriteImpacts(dict, acc) ==
    LET n == Cardinality(DOMAIN acc.docLens)
        sumDl == MapThenSumSet(LAMBDA d : acc.docLens[d], DOMAIN acc.docLens)
        impacts(t) == << >> \o [i \in DOMAIN acc.terms[t] |->
            Quantize(acc.terms[t][i].tf, acc.docLens[acc.terms[t][i].doc], sumDl, n)]
        add(a, e) == [rel |-> a.rel + Len(acc.terms[e.term]),
                      entries |-> Append(a.entries, [off |-> e.off, rel |-> a.rel,
                                                     card |-> Len(acc.terms[e.term])]),
                      bytes |-> a.bytes \o impacts(e.term)]
        all == FoldLeft(add, [rel |-> 0, entries |-> << >>, bytes |-> << >>], dict)
        slots == (Len(dict) + Stride - 1) \div Stride
    IN IF \/ n = 0
          \/ \E i \in 2 .. Len(dict) : dict[i].off <= dict[i - 1].off
          \/ \E e \in Range(dict) : e.term \notin DOMAIN acc.terms
       THEN Refused
       ELSE << [terms |-> Len(dict), stride |-> Stride, docs |-> n, entriesOff |-> 1 + slots,
                impactsOff |-> 1 + slots + Len(dict)] >>
            \o [i \in 1 .. slots |-> all.entries[(i - 1) * Stride + 1].off]
            \o all.entries \o all.bytes

------------------------------------------------------------------------------
\* ImpactIndex::open: the header and every stride-th address stay resident.
OpenImpacts(file) ==
    LET h == file[1]
        slots == (h.terms + h.stride - 1) \div h.stride
    IN [file |-> file, header |-> h, sparse |-> ReadAt(file, 1, slots)]

\* Mutant: an address between two slots is looked for in the later stripe.
NextStripe(ix, off) ==
    LET slot  == Min({Cardinality({i \in DOMAIN ix.sparse : ix.sparse[i] < off}), Len(ix.sparse) - 1})
        first == slot * ix.header.stride
    IN [off |-> ix.header.entriesOff + first, len |-> Min({ix.header.terms - first, ix.header.stride})]

\* entry_stripe: the stripe of the last slot not beyond the address.
EntryStripe(ix, off) ==
    LET upto  == Cardinality({i \in DOMAIN ix.sparse : ix.sparse[i] <= off})
        first == (IF upto = 0 THEN 0 ELSE upto - 1) * ix.header.stride
    IN [off |-> ix.header.entriesOff + first, len |-> Min({ix.header.terms - first, ix.header.stride})]

\* entries: one coalesced wave of stripes; an address that is not in its stripe
\* is an error.
EntriesOf(ix, offs) ==
    LET blocks == ReadCoalesced(ix.file, << >> \o [i \in DOMAIN offs |-> EntryStripe(ix, offs[i])], ImpactGap)
        found == << >> \o [i \in DOMAIN offs |-> SelectSeq(blocks[i], LAMBDA e : e.off = offs[i])]
    IN IF \E i \in DOMAIN found : found[i] = << >> THEN NoTerm
       ELSE << >> \o [i \in DOMAIN found |-> found[i][1]]

RankIn(docs, d) == Cardinality({x \in docs : x <= d})

\* rerank: each candidate's impact in each posting that has it, found by its
\* rank there, in one coalesced wave; the best k, ties by document.
Rerank(ix, postings, candidates, k) ==
    LET owners == FlattenSeq(<< >> \o [t \in DOMAIN postings |->
                    << >> \o [c \in 1 .. Len(candidates) |-> <<t, candidates[c]>>]])
        place(entries, o) == ix.header.impactsOff + entries[o[1]].rel + RankIn(postings[o[1]].docs, o[2]) - 1
        bytes(entries, owned) ==
            ReadCoalesced(ix.file, << >> \o [i \in DOMAIN owned |-> [off |-> place(entries, owned[i]), len |-> 1]],
                          ImpactGap)
        score(entries, owned, impacts, d) ==
            Total(<< >> \o [i \in DOMAIN owned |->
                IF owned[i][2] = d THEN Idf(entries[owned[i][1]].card, ix.header.docs) * impacts[i][1] ELSE 0])
        scored(entries, owned, impacts) ==
            {[doc |-> d, score |-> score(entries, owned, impacts, d)] : d \in Range(candidates)}
        ranked(entries, owned) ==
            Cut(SortedBy(scored(entries, owned, bytes(entries, owned)),
                         LAMBDA a, b : a.score > b.score \/ (a.score = b.score /\ a.doc < b.doc)), k)
        found(entries) ==
            IF entries = NoTerm THEN NoTerm
            ELSE ranked(entries, SelectSeq(owners, LAMBDA o : o[2] \in postings[o[1]].docs))
    IN IF candidates = << >> \/ postings = << >> \/ k = 0 THEN << >>
       ELSE found(EntriesOf(ix, << >> \o [i \in DOMAIN postings |-> postings[i].off]))

\* rerankIds: any ids, ranked by a query's terms; if one of them is not in the
\* dictionary the ids keep their order.
RerankIds(ix, impacts, query, ids, k) ==
    LET postings == QueryPostings(ix, query)
        docs(scored) == << >> \o [i \in DOMAIN scored |-> scored[i].doc]
    IN IF postings = NoTerm THEN Cut(ids, k) ELSE docs(Rerank(impacts, postings, ids, k))

Addressed(heads, docs) == << >> \o [i \in DOMAIN heads |-> [off |-> heads[i].off, docs |-> docs[i]]]

\* search_bm25: the window of m candidates is taken from the heads when they
\* fill it, and ranked with them; otherwise from the whole postings.
SearchBm25(ix, impacts, query, m, k) ==
    LET docs(heads) == IF Cardinality(AndAll(HeadDocs(heads))) >= m \/ ~HasTail(heads) THEN HeadDocs(heads)
                       ELSE FullDocs(ix, heads)
        ranked(heads, sets) == Rerank(impacts, Addressed(heads, sets), Least(AndAll(sets), m), k)
        search(heads) == IF heads = NoTerm THEN << >> ELSE ranked(heads, docs(heads))
    IN search(QueryHeads(ix, query, FALSE))

\* min_match_candidates: a merge of the postings, by ascending document.
MinMatch(sets, need, limit) ==
    IF limit = 0 \/ need = 0 THEN << >>
    ELSE Least({d \in UNION Range(sets) : Cardinality({i \in DOMAIN sets : d \in sets[i]}) >= need}, limit)

\* search_bm25_min_match: at least `minMatch` of the terms that are there.
SearchMinMatch(ix, impacts, query, m, k, minMatch) ==
    LET need(heads) == Max({1, Min({minMatch, Len(heads)})})
        docs(heads) == IF Len(MinMatch(HeadDocs(heads), need(heads), m)) >= m \/ ~HasTail(heads) THEN HeadDocs(heads)
                       ELSE FullDocs(ix, heads)
        ranked(heads, sets) == Rerank(impacts, Addressed(heads, sets), MinMatch(sets, need(heads), m), k)
        search(heads) == IF heads = << >> THEN << >> ELSE ranked(heads, docs(heads))
    IN search(QueryHeads(ix, query, TRUE))
------------------------------------------------------------------------------
\* The builder for a corpus too large for memory (rust/examples/build_impacts.rs):
\* a run of terms in order, and the lengths, of the documents [lo, hi).
SpillChunk(texts, spec, lo, hi) ==
    LET tfs(toks, t, docs) ==
            << >> \o [i \in DOMAIN docs |-> [doc |-> docs[i], tf |-> Min({Occurs(toks[docs[i]], t), 255})]]
        pairs(toks, t) == tfs(toks, t, Ascending({d \in DOMAIN toks : t \in Range(toks[d])}))
        run(toks, terms) == << >> \o [i \in DOMAIN terms |-> [term |-> terms[i], pairs |-> pairs(toks, terms[i])]]
        spilled(toks) == [run |-> run(toks, SortedBy(UNION {Range(toks[d]) : d \in DOMAIN toks}, Before)),
                          lens |-> << >> \o [i \in 1 .. hi - lo |-> Len(toks[lo + i - 1])]]
    IN spilled([d \in lo .. hi - 1 |-> Tokenize(spec, texts[d])])

\* The first phase: what an earlier process left of it, `had`, is taken as it is.
SpillChunks(texts, spec, chunkDocs, had) ==
    LET n == Cardinality(DOMAIN texts)
        chunk(c) == IF c \in DOMAIN had THEN had[c]
                    ELSE SpillChunk(texts, spec, (c - 1) * chunkDocs, Min({c * chunkDocs, n}))
    IN << >> \o [c \in 1 .. (n + chunkDocs - 1) \div chunkDocs |-> chunk(c)]

\* merge: the runs side by side in lockstep with the dictionary; any term that
\* one of them has and not the other, or a document without a length, refuses.
MergeRuns(dict, chunks, n) ==
    LET lens == FlattenSeq(<< >> \o [c \in DOMAIN chunks |-> chunks[c].lens])
        head(at, c) == IF at[c] <= Len(chunks[c].run) THEN {chunks[c].run[at[c]].term} ELSE {}
        heads(at) == UNION {head(at, c) : c \in DOMAIN chunks}
        group(at, t) == SelectSeq(<< >> \o [c \in DOMAIN chunks |-> c], LAMBDA c : head(at, c) = {t})
        bytes(pairs) == << >> \o [i \in DOMAIN pairs |->
                            Quantize(pairs[i].tf, lens[pairs[i].doc + 1], Total(lens), n)]
        step(a, e) ==
            LET runs == group(a.at, e.term)
                pairs == FlattenSeq(<< >> \o [i \in DOMAIN runs |-> chunks[runs[i]].run[a.at[runs[i]]].pairs])
            IN IF a = Refused THEN a
               ELSE IF heads(a.at) = {} \/ \E t \in heads(a.at) : Before(t, e.term) THEN Refused
               ELSE IF runs = << >> THEN Refused
               ELSE [at |-> << >> \o [c \in DOMAIN chunks |-> IF c \in Range(runs) THEN a.at[c] + 1 ELSE a.at[c]],
                     entries |-> Append(a.entries, [off |-> e.off, rel |-> Len(a.bytes), card |-> Len(pairs)]),
                     bytes |-> a.bytes \o bytes(pairs)]
        sparse == SelectSeq(<< >> \o [i \in DOMAIN dict |-> i], LAMBDA i : (i - 1) % Stride = 0)
        file(all) ==
            IF all = Refused THEN Refused
            ELSE IF heads(all.at) # {} THEN Refused
            ELSE << [terms |-> Len(dict), stride |-> Stride, docs |-> n, entriesOff |-> 1 + Len(sparse),
                     impactsOff |-> 1 + Len(sparse) + Len(dict)] >>
                 \o (<< >> \o [i \in DOMAIN sparse |-> all.entries[sparse[i]].off]) \o all.entries \o all.bytes
        start == [at |-> << >> \o [c \in DOMAIN chunks |-> 1], entries |-> << >>, bytes |-> << >>]
    IN IF Len(lens) # n THEN Refused ELSE file(FoldLeft(step, start, dict))
==============================================================================
